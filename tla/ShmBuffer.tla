----------------------------- MODULE ShmBuffer -----------------------------
(***************************************************************************)
(* 10/main.c: a parent (the writer) hands arrays of random numbers to a    *)
(* forked child (the reader) through one SharedData record in System V     *)
(* shared memory; the child leaves the minimum and the maximum there and   *)
(* the parent collects them.  Three System V semaphores are meant to       *)
(* coordinate them: mutex, empty and full.  The order is unusual: the      *)
(* token is moved (empty to full, full to empty) BEFORE the mutex is taken *)
(* and the record touched, and moving it never blocks (IPC_NOWAIT).        *)
(*                                                                         *)
(* One action per system call or access to the shared record, per process. *)
(* 11/main.c runs the same two loops over POSIX shared memory.             *)
(*                                                                         *)
(* Abstraction: an array is its number (1 for the first array whose token  *)
(* was pushed, and so on).  size > 0 names the array whose length was      *)
(* stored, numbers the array whose elements are in the record, minmax the  *)
(* array whose minimum and maximum are there; they differ exactly when a   *)
(* process sees the record half written.                                   *)
(***************************************************************************)
EXTENDS Integers

CONSTANTS
    EmptyMax,   \* D_EMPTY_MAX, the initial value of the semaphore empty
    MaxBlocks,  \* bound: the writer stops producing after so many arrays
    Killable    \* the processes that a SIGKILL may hit

writer == "writer"
reader == "reader"
Procs == {writer, reader}

ASSUME EmptyMaxAssumption == EmptyMax \in Nat \ {0}
ASSUME MaxBlocksAssumption == MaxBlocks \in Nat
ASSUME KillableAssumption == Killable \subseteq Procs

VARIABLES
    mutex, empty, full,        \* the three semaphores of the set semid
    ipc,                       \* which of the set and the segment exist
    size, numbers, minmax,     \* the shared record
    pc,                        \* what each process does next
    running,                   \* is_running, one copy in each process
    attempt,                   \* which of the reader's two reader_loop() calls
    failed,                    \* the processes in which a loop returned -1
    data_processed,            \* the writer's counter of collected answers
    \* History, read by the properties only:
    block,                     \* tokens pushed: the number of the newest array
    pops,                      \* tokens popped
    stored, scanned, lost      \* arrays stored, arrays scanned, unread arrays overwritten

sems == <<mutex, empty, full>>
shared == <<size, numbers, minmax>>
hist == <<block, pops, stored, scanned, lost>>
vars == <<sems, ipc, shared, pc, running, attempt, failed, data_processed, hist>>

ANSWERED == -1     \* shared->size = -1: the reader's answer is in the record

Init ==
    /\ mutex = 1 /\ empty = EmptyMax /\ full = 0
    /\ ipc = {"sem", "shm"}
    /\ size = 0 /\ numbers = 0 /\ minmax = 0
    /\ pc = [p \in Procs |-> "loop"]
    /\ running = [p \in Procs |-> TRUE]
    /\ attempt = 1 /\ failed = {}
    /\ data_processed = 0
    /\ block = 0 /\ pops = 0 /\ stored = 0 /\ scanned = 0 /\ lost = 0

Goto(p, l) == pc' = [pc EXCEPT ![p] = l]

\* A loop function returns.  The writer goes on to writer_cleanup(); main()
\* runs reader_loop() a second time in the reader, whatever the first returned.
Return(p) ==
    \/ /\ p = writer
       /\ Goto(p, "rmsem")
       /\ UNCHANGED attempt
    \/ /\ p = reader
       /\ Goto(p, IF attempt = 1 THEN "loop" ELSE "exit")
       /\ attempt' = 2

\* A system call of p returned -1 and put_data() or get_data() gives up.
Fail(p) ==
    /\ failed' = failed \cup {p}
    /\ Return(p)
    /\ UNCHANGED <<sems, ipc, shared, running, data_processed, hist>>

SemExists == "sem" \in ipc

\* What the semaphore operations wait for and leave.  Each follows a
\* way it could be wrong, used to show that the properties notice.
AlwaysFree == TRUE
MutexFree == mutex > 0
Released == mutex + 1
AlwaysEmpty == TRUE
HasEmpty == empty > 0

\* What put_data() and get_data() test the size field for.
AnyAnswer == size # 0
AnswerThere == size = ANSWERED
Unread == size > 0
-----------------------------------------------------------------------------
(* Both loops. *)

\* while (is_running): the loop condition.
Loop(p) ==
    /\ pc[p] = "loop"
    /\ \/ /\ running[p]
          /\ p = writer => block < MaxBlocks
          /\ Goto(p, IF p = writer THEN "push" ELSE "pop")
          /\ UNCHANGED attempt
       \/ /\ ~running[p]
          /\ Return(p)
    /\ UNCHANGED <<sems, ipc, shared, running, failed, data_processed, hist>>

\* semop(semid, &lock_res, 1): waits while the mutex is taken.
Lock(p) ==
    /\ pc[p] = "lock"
    /\ SemExists
    /\ MutexFree
    /\ mutex' = mutex - 1
    /\ Goto(p, IF p = writer THEN "check" ELSE "scan")
    /\ UNCHANGED <<empty, full, ipc, shared, running, attempt, failed,
                   data_processed, hist>>

\* semop(semid, &rel_res, 1).
Unlock(p) ==
    /\ pc[p] = "unlock"
    /\ SemExists
    /\ mutex' = Released
    /\ Goto(p, "loop")
    /\ UNCHANGED <<empty, full, ipc, shared, running, attempt, failed,
                   data_processed, hist>>

\* Loops that take the error of a removed set for EAGAIN.
RemovedIsAgain(p) ==
    /\ pc[p] \in {"push", "pop", "lock", "unlock"} /\ ~SemExists
    /\ Goto(p, "loop")
    /\ UNCHANGED <<sems, ipc, shared, running, attempt, failed, data_processed, hist>>

\* Any semop() on a set that was removed fails (EINVAL, or EIDRM when asleep).
SemopFails(p) ==
    /\ pc[p] \in {"push", "pop", "lock", "unlock"}
    /\ ~SemExists
    /\ Fail(p)

\* IPC_NOWAIT: EAGAIN, the loop sleeps and tries again.
Again(p) ==
    /\ SemExists
    /\ \/ pc[p] = "push" /\ ~HasEmpty
       \/ pc[p] = "pop" /\ full = 0
    /\ Goto(p, "loop")
    /\ UNCHANGED <<sems, ipc, shared, running, attempt, failed,
                   data_processed, hist>>
-----------------------------------------------------------------------------
(* The writer: put_data() and writer_cleanup(). *)

Push ==
    /\ pc[writer] = "push"
    /\ SemExists
    /\ HasEmpty
    /\ empty' = empty - 1
    /\ full' = full + 1
    /\ block' = block + 1
    /\ Goto(writer, "lock")
    /\ UNCHANGED <<mutex, ipc, shared, running, attempt, failed,
                   data_processed, pops, stored, scanned, lost>>

\* if (shared->size == -1): the answer is printed and counted.
Check ==
    /\ pc[writer] = "check"
    /\ data_processed' = data_processed + (IF AnswerThere THEN 1 ELSE 0)
    /\ Goto(writer, "store")
    /\ UNCHANGED <<sems, ipc, shared, running, attempt, failed, hist>>

Store ==
    /\ pc[writer] = "store"
    /\ size' = block
    /\ stored' = stored + 1
    /\ lost' = lost + (IF Unread THEN 1 ELSE 0)
    /\ Goto(writer, "copy")
    /\ UNCHANGED <<sems, ipc, numbers, minmax, running, attempt, failed,
                   data_processed, block, pops, scanned>>

Copy ==
    /\ pc[writer] = "copy"
    /\ numbers' = block
    /\ Goto(writer, "unlock")
    /\ UNCHANGED <<sems, ipc, size, minmax, running, attempt, failed,
                   data_processed, hist>>

\* writer_cleanup(): the set is removed first, then the segment.
RemoveSem ==
    /\ pc[writer] = "rmsem"
    /\ ipc' = ipc \ {"sem"}
    /\ Goto(writer, "rmshm")
    /\ UNCHANGED <<sems, shared, running, attempt, failed, data_processed, hist>>

RemoveShm ==
    /\ pc[writer] = "rmshm"
    /\ ipc' = ipc \ {"shm"}
    /\ Goto(writer, "exit")
    /\ UNCHANGED <<sems, shared, running, attempt, failed, data_processed, hist>>
-----------------------------------------------------------------------------
(* The reader: get_data(). *)

Pop ==
    /\ pc[reader] = "pop"
    /\ SemExists
    /\ full > 0
    /\ full' = full - 1
    /\ empty' = empty + 1
    /\ pops' = pops + 1
    /\ Goto(reader, "lock")
    /\ UNCHANGED <<mutex, ipc, shared, running, attempt, failed,
                   data_processed, block, stored, scanned, lost>>

\* if (shared->size > 0): get_min_max() writes min and max into the record.
Scan ==
    /\ pc[reader] = "scan"
    /\ \/ /\ Unread
          /\ minmax' = numbers
          /\ Goto(reader, "mark")
       \/ /\ ~Unread
          /\ Goto(reader, "unlock")
          /\ UNCHANGED minmax
    /\ UNCHANGED <<sems, ipc, size, numbers, running, attempt, failed,
                   data_processed, hist>>

Mark ==
    /\ pc[reader] = "mark"
    /\ size' = ANSWERED
    /\ scanned' = scanned + 1
    /\ Goto(reader, "unlock")
    /\ UNCHANGED <<sems, ipc, numbers, minmax, running, attempt, failed,
                   data_processed, block, pops, stored, lost>>
-----------------------------------------------------------------------------
(* Signals. *)

Ended(p) == pc[p] \in {"exit", "killed"}

\* handle_int(): the flag is cleared wherever the process is.
Interrupt(p) ==
    /\ ~Ended(p)
    /\ running[p]
    /\ running' = [running EXCEPT ![p] = FALSE]
    /\ UNCHANGED <<sems, ipc, shared, pc, attempt, failed, data_processed, hist>>

\* semop() is never restarted after a handler, SA_RESTART or not: a process
\* asleep in it gets EINTR and gives up; a token it has moved stays moved.
InterruptAsleep(p) ==
    /\ pc[p] = "lock"
    /\ SemExists
    /\ ~MutexFree
    /\ running' = [running EXCEPT ![p] = FALSE]
    /\ failed' = failed \cup {p}
    /\ Return(p)
    /\ UNCHANGED <<sems, ipc, shared, data_processed, hist>>

\* No SEM_UNDO: the semaphores stay as the process leaves them.
Kill(p) ==
    /\ p \in Killable
    /\ ~Ended(p)
    /\ Goto(p, "killed")
    /\ UNCHANGED <<sems, ipc, shared, running, attempt, failed,
                   data_processed, hist>>

Shared(p) == Loop(p) \/ Lock(p) \/ Unlock(p) \/ SemopFails(p) \/ Again(p)

WriterStep ==
    \/ Shared(writer)
    \/ Push \/ Check \/ Store \/ Copy \/ RemoveSem \/ RemoveShm

ReaderStep == Shared(reader) \/ Pop \/ Scan \/ Mark

Signal(p) == Interrupt(p) \/ InterruptAsleep(p) \/ Kill(p)

Next == WriterStep \/ ReaderStep \/ (\E p \in Procs : Signal(p))

Spec == Init /\ [][Next]_vars

\* Each process keeps being scheduled; nobody has to send a signal.
FairSpec == Spec /\ WF_vars(WriterStep) /\ WF_vars(ReaderStep)
-----------------------------------------------------------------------------
(* Properties. *)

TypeOK ==
    /\ mutex \in 0..1 /\ empty \in 0..EmptyMax /\ full \in 0..EmptyMax
    /\ ipc \subseteq {"sem", "shm"}
    /\ size \in {ANSWERED} \cup Nat /\ numbers \in Nat /\ minmax \in Nat
    /\ pc \in [Procs -> {"loop", "push", "pop", "lock", "check", "store", "copy",
                         "scan", "mark", "unlock", "rmsem", "rmshm", "exit", "killed"}]
    /\ running \in [Procs -> BOOLEAN]
    /\ attempt \in 1..2 /\ failed \subseteq Procs
    /\ data_processed \in Nat
    /\ block \in Nat /\ pops \in Nat /\ stored \in Nat /\ scanned \in Nat /\ lost \in Nat

(* The minimum and the maximum the reader is about to publish were computed
   over the elements of the very array whose length it read: get_data() never
   reads a record that put_data() has half written, whichever process was
   interrupted or killed before. *)
NoTornScan == pc[reader] = "mark" => (size > 0 /\ minmax = size)

(* put_data() overwrites arrays but never an answer: every answer that the
   reader published is counted in data_processed once, or is the one that is
   in the record now. *)
AnswerNotLost ==
    /\ data_processed <= scanned
    /\ scanned <= data_processed + (IF size = ANSWERED THEN 1 ELSE 0)

(* The tokens still bound the loss: the unread arrays that put_data() has
   overwritten, with the one it may overwrite next, are at most EmptyMax more
   than the tokens the reader has popped without answering an array. *)
LossBound ==
    lost + (IF size > 0 THEN 1 ELSE 0) <= (pops - scanned) + EmptyMax

SomebodyKilled == \E p \in Procs : pc[p] = "killed"

(* After a SIGINT the writer's process ends and both System V objects are gone
   (line 105), although it may have to wait for the reader at the mutex: only a
   SIGKILL of one of the two prevents that. *)
WriterStops == ~running[writer] ~> ((pc[writer] = "exit" /\ ipc = {}) \/ SomebodyKilled)

(* The child is never told to stop: it ends because every semop() on the
   removed set fails, both times main() runs reader_loop(). *)
ReaderFollows == (pc[writer] = "exit") ~> Ended(reader)

(* After a SIGINT of the writer both processes end and nothing is left, unless one was killed. *)
BothEnd == WriterStops /\ ReaderFollows

(* The answers as the abstract mailbox sees them. *)
Mailbox == INSTANCE AnswerMailbox WITH
    slot <- IF size > 0 THEN size ELSE 0,
    answer <- IF data_processed < scanned THEN minmax ELSE 0,
    last <- stored,
    collected <- data_processed

(* The two loops implement the mailbox: arrays are put in order, the answer left
   is the answer to the array that was there, and no answer is put over. *)
ImplementsMailbox == Mailbox!ASpec
=============================================================================
