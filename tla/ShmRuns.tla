------------------------------ MODULE ShmRuns ------------------------------
(***************************************************************************)
(* 10, 11 and 10/obsolete over several runs: how the segment and the       *)
(* semaphores come into being, who removes them, and what a run leaves to  *)
(* the next one.  The writer creates both exclusively, the segment first,  *)
(* and removes them in the reverse order.  In 10 and 11 it forks its       *)
(* reader; in 10/obsolete readers are started separately and look for      *)
(* what is there.  10 and 10/obsolete remove the segment by its id, 11 by  *)
(* its name.                                                               *)
(*                                                                         *)
(* Abstraction: the name of a segment or set is the writer that made it,   *)
(* as a process runs once.  What is computed and counted is left out: it   *)
(* is in ShmBuffer, which has one run.                                     *)
(***************************************************************************)
EXTENDS Naturals

CONSTANTS
    Writers, Readers,   \* bound: the processes started, one after the other or together
    None,               \* -1, or no such object
    EmptyMax            \* D_EMPTY_MAX

ASSUME ProcessAssumption == Writers \cap Readers = {} /\ None \notin Writers
ASSUME EmptyMaxAssumption == EmptyMax \in Nat \ {0}

Procs == Writers \cup Readers
Objects == Writers \cup {None}

VARIABLES
    version,                \* which of the programs: "10", "11" or "obsolete"
    seg, set,               \* the segment and the semaphores that can be found
    mutex, empty, full,     \* the semaphores of set
    pc, running,            \* of each process
    shmid, shared, semid,
    calls,                  \* calls of reader_loop() still to come
    \* History:
    killed,                 \* processes killed
    failed,                 \* writers whose shmat(), mmap() or SETVAL failed
    overtaken               \* readers that found a segment which was replaced before they found a set

sems == <<mutex, empty, full>>
ids == <<shmid, shared, semid>>
hist == <<killed, failed, overtaken>>
vars == <<version, seg, set, sems, pc, running, ids, calls, hist>>

Init ==
    /\ version \in {"10", "11", "obsolete"}
    /\ seg = None /\ set = None
    /\ mutex = 0 /\ empty = 0 /\ full = 0
    /\ pc = [p \in Procs |-> "new"]
    /\ running = [p \in Procs |-> TRUE]
    /\ shmid = [p \in Procs |-> None]
    /\ shared = [p \in Procs |-> None]
    /\ semid = [p \in Procs |-> None]
    /\ calls = [p \in Procs |-> 0]
    /\ killed = {} /\ failed = {} /\ overtaken = {}

Goto(p, l) == pc' = [pc EXCEPT ![p] = l]
Active(p) == pc[p] \notin {"new", "ended"}

\* The process is gone, with what it knew.
Exit(p) ==
    /\ Goto(p, "ended")
    /\ running' = [running EXCEPT ![p] = TRUE]
    /\ shmid' = [shmid EXCEPT ![p] = None]
    /\ shared' = [shared EXCEPT ![p] = None]
    /\ semid' = [semid EXCEPT ![p] = None]
    /\ calls' = [calls EXCEPT ![p] = 0]
-----------------------------------------------------------------------------
(* The writer: init() and writer_cleanup(). *)

\* Where init() leads when one of its calls fails: main() cleans up before it returns.
Straight == "ended"
AfterFailure == "cleanup"

StartWriter(w) ==
    /\ pc[w] = "new"
    /\ Goto(w, "shm")
    /\ UNCHANGED <<version, seg, set, sems, running, ids, calls, hist>>

\* Readers between their shm_init() and their sem_init().
Overtaken == {r \in Readers : pc[r] = "sem"}

\* ftok() and shmget() with IPC_EXCL, or shm_open() with O_EXCL: each may also fail for
\* other reasons than that the segment is there.
ShmGet(w) ==
    /\ pc[w] = "shm"
    /\ \/ /\ seg = None
          /\ seg' = w
          /\ Goto(w, "attach")
          /\ overtaken' = overtaken \cup Overtaken
       \/ Goto(w, AfterFailure) /\ UNCHANGED <<seg, overtaken>>
    /\ UNCHANGED <<version, set, sems, running, ids, calls, killed, failed>>

\* init() stores the -1 of a failed shm_init() in shmid: the segment is forgotten.
Attach(w) ==
    /\ pc[w] = "attach"
    /\ \/ /\ shmid' = [shmid EXCEPT ![w] = w]
          /\ shared' = [shared EXCEPT ![w] = w]
          /\ Goto(w, "semget")
          /\ UNCHANGED failed
       \/ /\ failed' = failed \cup {w}
          /\ Goto(w, AfterFailure)
          /\ UNCHANGED <<shmid, shared>>
    /\ UNCHANGED <<version, seg, set, sems, running, semid, calls, killed, overtaken>>

\* semget() with IPC_EXCL, which may also fail for other reasons.
SemGet(w) ==
    /\ pc[w] = "semget"
    /\ \/ /\ set = None
          /\ set' = w
          /\ mutex' = 0 /\ empty' = 0 /\ full' = 0
          /\ Goto(w, "setval")
       \/ Goto(w, AfterFailure) /\ UNCHANGED <<set, sems>>
    /\ UNCHANGED <<version, seg, running, ids, calls, hist>>

\* The three semctl(SETVAL); if one fails the set is forgotten, like the segment.
SetVal(w) ==
    /\ pc[w] = "setval"
    /\ \/ /\ mutex' = 1 /\ empty' = EmptyMax /\ full' = 0
          /\ semid' = [semid EXCEPT ![w] = w]
          /\ Goto(w, IF version = "obsolete" THEN "loop" ELSE "fork")
          /\ UNCHANGED failed
       \/ /\ mutex' \in {0, 1} /\ empty' \in {0, EmptyMax * mutex'} /\ full' = 0
          /\ failed' = failed \cup {w}
          /\ Goto(w, AfterFailure)
          /\ UNCHANGED semid
    /\ UNCHANGED <<version, seg, set, running, shmid, shared, calls, killed, overtaken>>

\* The child inherits the ids and the mapping, and calls reader_loop() twice.
Fork(w) ==
    /\ pc[w] = "fork"
    /\ \/ \E r \in Readers :
             /\ pc[r] = "new"
             /\ pc' = [pc EXCEPT ![w] = "loop", ![r] = "loop"]
             /\ running' = [running EXCEPT ![r] = running[w]]
             /\ shmid' = [shmid EXCEPT ![r] = shmid[w]]
             /\ shared' = [shared EXCEPT ![r] = shared[w]]
             /\ semid' = [semid EXCEPT ![r] = semid[w]]
             /\ calls' = [calls EXCEPT ![r] = 1]
       \/ Goto(w, AfterFailure) /\ UNCHANGED <<running, ids, calls>>
    /\ UNCHANGED <<version, seg, set, sems, hist>>

\* writer_cleanup() removes the semaphores first.
SetKept(w) == set
SetAfter(w) == IF semid[w] = set THEN None ELSE set

CleanUp(w) ==
    /\ pc[w] = "cleanup"
    /\ set' = SetAfter(w)
    /\ Goto(w, "rmshm")
    /\ UNCHANGED <<version, seg, sems, running, ids, calls, hist>>

\* Then the segment: by its id, or in 11 by the name, whoever has created it.
ByNameOnly(w) == TRUE
Removes(w) == shmid[w] # None /\ (version = "11" \/ shmid[w] = seg)

RemoveShm(w) ==
    /\ pc[w] = "rmshm"
    /\ seg' = IF Removes(w) THEN None ELSE seg
    /\ Exit(w)
    /\ UNCHANGED <<version, set, sems, hist>>
-----------------------------------------------------------------------------
(* A reader of 10/obsolete: init() finds what is there. *)

StartReader(r) ==
    /\ version = "obsolete"
    /\ pc[r] = "new"
    /\ \/ /\ seg # None
          /\ shmid' = [shmid EXCEPT ![r] = seg]
          /\ shared' = [shared EXCEPT ![r] = seg]
          /\ Goto(r, "sem")
          /\ UNCHANGED <<running, semid, calls>>
       \/ seg = None /\ Exit(r)
    /\ UNCHANGED <<version, seg, set, sems, hist>>

FindSet(r) ==
    /\ pc[r] = "sem"
    /\ \/ /\ set # None
          /\ semid' = [semid EXCEPT ![r] = set]
          /\ Goto(r, "loop")
          /\ UNCHANGED <<running, shmid, shared, calls>>
       \/ set = None /\ Exit(r)
    /\ UNCHANGED <<version, seg, set, sems, hist>>
-----------------------------------------------------------------------------
(* The loops. *)

\* A loop returns: the writer cleans up; a forked reader begins another one.
Return(p) ==
    \/ p \in Writers /\ Goto(p, "cleanup") /\ UNCHANGED <<running, ids, calls>>
    \/ /\ p \in Readers /\ calls[p] > 0
       /\ Goto(p, "loop") /\ calls' = [calls EXCEPT ![p] = @ - 1]
       /\ UNCHANGED <<running, ids>>
    \/ p \in Readers /\ calls[p] = 0 /\ Exit(p)

\* The set that the process knows is still there.
Attached(p) == semid[p] = set

Stop(p) ==
    /\ pc[p] = "loop" /\ ~running[p]
    /\ Return(p)
    /\ UNCHANGED <<version, seg, set, sems, hist>>

\* push[2] and pop[2]: without a token, EAGAIN and another round.
Push(w) ==
    /\ pc[w] = "loop" /\ running[w]
    /\ Attached(w) /\ empty > 0
    /\ empty' = empty - 1 /\ full' = full + 1
    /\ Goto(w, "lock")
    /\ UNCHANGED <<version, seg, set, mutex, running, ids, calls, hist>>

Pop(r) ==
    /\ pc[r] = "loop" /\ running[r]
    /\ Attached(r) /\ full > 0
    /\ empty' = empty + 1 /\ full' = full - 1
    /\ Goto(r, "lock")
    /\ UNCHANGED <<version, seg, set, mutex, running, ids, calls, hist>>

Lock(p) ==
    /\ pc[p] = "lock"
    /\ Attached(p) /\ mutex > 0
    /\ mutex' = mutex - 1
    /\ Goto(p, "use")
    /\ UNCHANGED <<version, seg, set, empty, full, running, ids, calls, hist>>

\* try_put() and try_get()
Use(p) ==
    /\ pc[p] = "use"
    /\ Goto(p, "unlock")
    /\ UNCHANGED <<version, seg, set, sems, running, ids, calls, hist>>

Unlock(p) ==
    /\ pc[p] = "unlock"
    /\ Attached(p)
    /\ mutex' = mutex + 1
    /\ Goto(p, "loop")
    /\ UNCHANGED <<version, seg, set, empty, full, running, ids, calls, hist>>

\* A semop() on a set that was removed: EINVAL, or EIDRM for a sleeping process.
SetGone(p) ==
    /\ pc[p] \in {"lock", "unlock"} \/ (pc[p] = "loop" /\ running[p])
    /\ ~Attached(p)
    /\ Return(p)
    /\ UNCHANGED <<version, seg, set, sems, hist>>
-----------------------------------------------------------------------------
(* Signals. *)

\* SIGINT: is_running = 0.
Interrupt(p) ==
    /\ Active(p) /\ running[p]
    /\ running' = [running EXCEPT ![p] = FALSE]
    /\ UNCHANGED <<version, seg, set, sems, pc, ids, calls, hist>>

\* A semop() that sleeps at the mutex is not restarted and fails, at a second SIGINT as well.
InterruptAsleep(p) ==
    /\ pc[p] = "lock" /\ Attached(p) /\ mutex = 0
    /\ \/ /\ p \in Writers \/ calls[p] > 0
          /\ running' = [running EXCEPT ![p] = FALSE]
          /\ Goto(p, IF p \in Writers THEN "cleanup" ELSE "loop")
          /\ calls' = [calls EXCEPT ![p] = 0]
          /\ UNCHANGED ids
       \/ p \in Readers /\ calls[p] = 0 /\ Exit(p)
    /\ UNCHANGED <<version, seg, set, sems, hist>>

Kill(p) ==
    /\ Active(p)
    /\ killed = {}
    /\ killed' = {p}
    /\ Exit(p)
    /\ UNCHANGED <<version, seg, set, sems, failed, overtaken>>

Writer(w) ==
    \/ ShmGet(w) \/ Attach(w) \/ SemGet(w) \/ SetVal(w) \/ Fork(w)
    \/ Push(w) \/ CleanUp(w) \/ RemoveShm(w)

Reader(r) == FindSet(r) \/ Pop(r)

Either(p) == Stop(p) \/ Lock(p) \/ Use(p) \/ Unlock(p) \/ SetGone(p)

Next ==
    \/ \E w \in Writers : StartWriter(w) \/ Writer(w)
    \/ \E r \in Readers : StartReader(r) \/ Reader(r)
    \/ \E p \in Procs : Either(p) \/ Interrupt(p) \/ InterruptAsleep(p) \/ Kill(p)

Spec == Init /\ [][Next]_vars
-----------------------------------------------------------------------------
States == {"new", "shm", "attach", "semget", "setval", "fork", "sem", "loop", "lock", "use",
           "unlock", "cleanup", "rmshm", "ended"}

TypeOK ==
    /\ version \in {"10", "11", "obsolete"}
    /\ seg \in Objects /\ set \in Objects
    /\ mutex \in 0..1 /\ empty \in 0..EmptyMax /\ full \in 0..EmptyMax
    /\ pc \in [Procs -> States]
    /\ running \in [Procs -> BOOLEAN]
    /\ shmid \in [Procs -> Objects] /\ shared \in [Procs -> Objects] /\ semid \in [Procs -> Objects]
    /\ calls \in [Procs -> 0..1]
    /\ killed \subseteq Procs /\ failed \subseteq Writers /\ overtaken \subseteq Readers

\* A segment or set outlives its writer only if that was killed, or if shmat(), mmap() or
\* SETVAL failed (10/main.c:142-176: the shmid and semid to remove are lost).  All others,
\* a failing start with EEXIST among them, leave nothing that would make the next start fail.
NothingLeftBehind ==
    \A w \in Writers \ (killed \cup failed) :
        pc[w] = "ended" => seg # w /\ set # w

\* A writer that has both objects keeps them until it removes them, whatever other writers do
\* that are started meanwhile and fail, and clean up (11/main.c:86-89, 124-142).
OwnUntilRemoved ==
    /\ TypeOK
    /\ \A w \in Writers :
          pc[w] \in {"fork", "loop", "lock", "use", "unlock"} => seg = w /\ set = w

\* A reader takes tokens and arrays of the same run, unless it was overtaken by another run
\* between its two steps (10/obsolete/reader.c:69-74), or a set was left by a failed SETVAL.
ReadsOneRun ==
    \A r \in Readers \ overtaken :
        pc[r] \in {"loop", "lock", "use", "unlock"} => shared[r] = semid[r] \/ semid[r] \in failed
=============================================================================
