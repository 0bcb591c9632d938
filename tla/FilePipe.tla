------------------------------ MODULE FilePipe ------------------------------
(***************************************************************************)
(* 08 and 09: a writer appends lines to a file and a reader, started       *)
(* separately, reads them from the start of the file.  Three semaphores    *)
(* coordinate them.  The two programs differ in when a line is announced:  *)
(* 08 moves the token from empty to full in one semop() before it takes    *)
(* the mutex and writes; 09 takes the token first and gives it to full     *)
(* after the write.  They also differ in what is left behind: the writer   *)
(* of 08 removes its System V set, the names of 09 are never unlinked.     *)
(*                                                                         *)
(* Abstraction: a line is its place in the file; what the reader computes  *)
(* from it is left out.  One reader and one writer run at a time.          *)
(***************************************************************************)
EXTENDS Naturals

CONSTANTS
    EmptyMax,   \* D_EMPTY_MAX
    MaxLines,   \* bound: the writers stop when the file has so many lines
    MaxStarts   \* bound: how often each program is started

ASSUME EmptyMaxAssumption == EmptyMax \in Nat \ {0}
ASSUME BoundsAssumption == MaxLines \in Nat /\ MaxStarts \in Nat

writer == "writer"
reader == "reader"
Procs == {writer, reader}

VARIABLES
    version,            \* which of the two programs runs: "08" or "09"
    set,                \* the semaphores: 0 if there are none, else the start that made them
    mutex, empty, full,
    lines,              \* lines in the file
    offset,             \* lines of the file that the reader has behind it
    pc, running,        \* of each process: its next step and is_running
    semid,              \* the semaphores that each process has opened
    failing,            \* of each process: its write() or read() of the line at hand failed
    starts,             \* bound: how often each program was started
    \* History:
    stale,              \* reads of this reader that found no line
    wrong,              \* a write() failed
    spoiled,            \* the semaphores were not all filled, or one that had them was killed
    orphan              \* the semaphores whose mutex was taken by a process that was killed

sems == <<set, mutex, empty, full>>
file == <<lines, offset>>
procs == <<pc, running, semid, starts>>
hist == <<stale, wrong, spoiled, orphan>>
vars == <<version, sems, file, procs, failing, hist>>

Init ==
    /\ version \in {"08", "09"}
    /\ set = 0 /\ mutex = 0 /\ empty = 0 /\ full = 0
    /\ lines = 0 /\ offset = 0
    /\ pc = [p \in Procs |-> "off"]
    /\ running = [p \in Procs |-> TRUE]
    /\ semid = [p \in Procs |-> 0]
    /\ failing = [p \in Procs |-> FALSE]
    /\ starts = [p \in Procs |-> 0]
    /\ stale = 0 /\ wrong = FALSE /\ spoiled = FALSE /\ orphan = 0

Goto(p, l) == pc' = [pc EXCEPT ![p] = l]
Active(p) == pc[p] \in {"loop", "take", "lock", "io", "unlock", "give", "close"}

\* Its semaphores are there: a set of System V is gone once it was removed.
Attached(p) == set # 0 /\ semid[p] = set
-----------------------------------------------------------------------------
(* Starts and ends. *)

\* A new process with the semaphores s.
Started(p, s) ==
    /\ starts[p] < MaxStarts
    /\ starts' = [starts EXCEPT ![p] = @ + 1]
    /\ running' = [running EXCEPT ![p] = TRUE]
    /\ semid' = [semid EXCEPT ![p] = s]
    /\ failing' = [failing EXCEPT ![p] = FALSE]
    /\ Goto(p, "loop")

\* The writer creates its semaphores exclusively; if they are there it ends at once.
StartWriter ==
    /\ ~Active(writer)
    /\ set = 0
    /\ Started(writer, starts[writer] + 1)
    /\ set' = starts[writer] + 1
    /\ mutex' = 1 /\ empty' = EmptyMax /\ full' = 0
    /\ spoiled' = FALSE
    /\ UNCHANGED <<version, file, stale, wrong, orphan>>

\* 08: a semctl(SETVAL) fails, and what comes after it is not set.  09: a sem_open() fails,
\* and the next start makes what is missing but fails as well, as the others are there.
\* Nothing is removed, so a reader may find the semaphores without a writer.
SetupFails ==
    /\ ~Active(writer)
    /\ set = 0
    /\ starts[writer] < MaxStarts
    /\ starts' = [starts EXCEPT ![writer] = @ + 1]
    /\ Goto(writer, "off")
    /\ set' = starts[writer] + 1
    /\ \/ mutex' = 1 /\ empty' = EmptyMax
       \/ version = "08" /\ mutex' \in {0, 1} /\ empty' = 0
    /\ full' = 0
    /\ spoiled' = TRUE
    /\ UNCHANGED <<version, file, running, semid, failing, stale, wrong, orphan>>

\* They are there after a killed writer in 08, and after any earlier run in 09.
StartFails ==
    /\ ~Active(writer)
    /\ set # 0
    /\ starts[writer] < MaxStarts
    /\ starts' = [starts EXCEPT ![writer] = @ + 1]
    /\ Goto(writer, "off")
    /\ UNCHANGED <<version, sems, file, running, semid, failing, hist>>

\* The reader opens the file at its start, and semaphores that must be there.
AtStart == 0

StartReader ==
    /\ ~Active(reader)
    /\ set # 0
    /\ Started(reader, set)
    /\ offset' = AtStart
    /\ stale' = 0
    /\ UNCHANGED <<version, sems, lines, wrong, spoiled, orphan>>

\* A loop ends: in 08 the writer has its set to remove.
End(p) == IF p = writer THEN "close" ELSE "off"
Return(p) == Goto(p, End(p))

\* semctl(IPC_RMID) in 08, sem_close() without sem_unlink() in 09.
Left == IF version = "08" THEN 0 ELSE set

Close ==
    /\ pc[writer] = "close"
    /\ set' = Left
    /\ Goto(writer, "off")
    /\ UNCHANGED <<version, mutex, empty, full, file, running, semid, starts, failing, hist>>
-----------------------------------------------------------------------------
(* The loops: put_data() and get_data(). *)

\* while (is_running)
Loop(p) ==
    /\ pc[p] = "loop"
    /\ \/ running[p] /\ (p = writer => lines < MaxLines) /\ Goto(p, "take")
       \/ ~running[p] /\ Return(p)
    /\ UNCHANGED <<version, sems, file, running, semid, starts, failing, hist>>

\* The tokens: the writer takes from empty and gives to full, the reader the reverse.
TokensFor(p) == IF p = writer THEN empty ELSE full
Taken(p) == IF p = writer THEN empty' = empty - 1 ELSE full' = full - 1
Given(p) == IF p = writer THEN full' = full + 1 ELSE empty' = empty + 1
GivenEarly(p) == Given(p)
OtherKept(p) == IF p = writer THEN full' = full ELSE empty' = empty

\* 08: both semaphores in one semop().
Move(p) ==
    /\ pc[p] = "take"
    /\ version = "08" /\ Attached(p)
    /\ TokensFor(p) > 0
    /\ Taken(p) /\ Given(p)
    /\ Goto(p, "lock")
    /\ UNCHANGED <<version, set, mutex, file, running, semid, starts, failing, hist>>

\* 09: sem_trywait().
TryWait(p) ==
    /\ pc[p] = "take"
    /\ version = "09"
    /\ TokensFor(p) > 0
    /\ Taken(p) /\ OtherKept(p)
    /\ Goto(p, "lock")
    /\ UNCHANGED <<version, set, mutex, file, running, semid, starts, failing, hist>>

\* EAGAIN: the loop sleeps and tries again.
Again(p) ==
    /\ pc[p] = "take"
    /\ Attached(p)
    /\ TokensFor(p) = 0
    /\ Goto(p, "loop")
    /\ UNCHANGED <<version, sems, file, running, semid, starts, failing, hist>>

MutexFree == mutex > 0

Lock(p) ==
    /\ pc[p] = "lock"
    /\ Attached(p)
    /\ MutexFree
    /\ mutex' = mutex - 1
    /\ Goto(p, "io")
    /\ UNCHANGED <<version, set, empty, full, file, running, semid, starts, failing, hist>>

\* write(): a line is appended, or the call fails, which is looked at only later.
Write ==
    /\ pc[writer] = "io"
    /\ \/ lines' = lines + 1 /\ UNCHANGED <<failing, wrong>>
       \/ failing' = [failing EXCEPT ![writer] = TRUE] /\ wrong' = TRUE /\ UNCHANGED lines
    /\ Goto(writer, "unlock")
    /\ UNCHANGED <<version, sems, offset, running, semid, starts, stale, spoiled, orphan>>

\* read(): the next line, or nothing at the end of the file, which is not looked at:
\* the buffer then holds what it held before.  Or the call fails.
Read ==
    /\ pc[reader] = "io"
    /\ \/ offset < lines /\ offset' = offset + 1 /\ UNCHANGED <<stale, failing>>
       \/ offset = lines /\ stale' = stale + 1 /\ UNCHANGED <<offset, failing>>
       \/ failing' = [failing EXCEPT ![reader] = TRUE] /\ UNCHANGED <<offset, stale>>
    /\ Goto(reader, "unlock")
    /\ UNCHANGED <<version, sems, lines, running, semid, starts, wrong, spoiled, orphan>>

\* Where the end of put_data() and get_data() leads; a failed write() or read() is fatal.
Done(p) == IF failing[p] THEN End(p) ELSE "loop"

\* Only 09 has a second sem_post() to do, also after a write() that failed.
NeverGives(p) == Done(p)
AfterUnlock(p) == IF version = "08" THEN Done(p) ELSE "give"

NotReleased == mutex
Released == mutex + 1

Unlock(p) ==
    /\ pc[p] = "unlock"
    /\ Attached(p)
    /\ mutex' = Released
    /\ Goto(p, AfterUnlock(p))
    /\ UNCHANGED <<version, set, empty, full, file, running, semid, starts, failing, hist>>

\* 09: the sem_post() of full by the writer, of empty by the reader.
Give(p) ==
    /\ pc[p] = "give"
    /\ Given(p)
    /\ IF p = writer THEN empty' = empty ELSE full' = full
    /\ Goto(p, Done(p))
    /\ UNCHANGED <<version, set, mutex, file, running, semid, starts, failing, hist>>

\* A semop() of the reader on a set that was removed fails.
SetGone(p) ==
    /\ pc[p] \in {"take", "lock", "unlock"}
    /\ ~Attached(p)
    /\ Return(p)
    /\ UNCHANGED <<version, sems, file, running, semid, starts, failing, hist>>
-----------------------------------------------------------------------------
(* Signals. *)

Interrupt(p) ==
    /\ Active(p) /\ running[p]
    /\ running' = [running EXCEPT ![p] = FALSE]
    /\ UNCHANGED <<version, sems, file, pc, semid, starts, failing, hist>>

\* semop() is not restarted after the handler, sem_wait() is (SA_RESTART).
InterruptAsleep(p) ==
    /\ version = "08"
    /\ pc[p] = "lock" /\ Attached(p) /\ ~MutexFree
    /\ running' = [running EXCEPT ![p] = FALSE]
    /\ Return(p)
    /\ UNCHANGED <<version, sems, file, semid, starts, failing, hist>>

\* SIGKILL: the semaphores stay as they are.
HasMutex(p) == pc[p] \in {"io", "unlock"} /\ Attached(p)

Kill(p) ==
    /\ Active(p)
    /\ Goto(p, "off")
    /\ spoiled' = (spoiled \/ Attached(p))
    /\ orphan' = IF HasMutex(p) THEN set ELSE orphan
    /\ UNCHANGED <<version, sems, file, running, semid, starts, failing, stale, wrong>>

Step(p) ==
    \/ Loop(p) \/ Move(p) \/ TryWait(p) \/ Again(p) \/ Lock(p)
    \/ Unlock(p) \/ Give(p) \/ SetGone(p)
    \/ p = writer /\ (Write \/ Close)
    \/ p = reader /\ Read

Environment ==
    \/ StartWriter \/ SetupFails \/ StartFails \/ StartReader
    \/ \E p \in Procs : Interrupt(p) \/ InterruptAsleep(p) \/ Kill(p)

Next == (\E p \in Procs : Step(p)) \/ Environment

Spec == Init /\ [][Next]_vars

\* Processes that run keep being scheduled; nothing is started or sent a signal for sure.
FairSpec == Spec /\ \A p \in Procs : WF_vars(Step(p))
-----------------------------------------------------------------------------
(* Properties. *)

TypeOK ==
    /\ version \in {"08", "09"}
    /\ set \in 0..MaxStarts
    /\ mutex \in 0..1 /\ empty \in 0..EmptyMax /\ full \in 0..EmptyMax
    /\ lines \in 0..MaxLines /\ offset \in 0..lines
    /\ pc \in [Procs -> {"off", "loop", "take", "lock", "io", "unlock", "give", "close"}]
    /\ running \in [Procs -> BOOLEAN]
    /\ semid \in [Procs -> 0..MaxStarts]
    /\ failing \in [Procs -> BOOLEAN] /\ wrong \in BOOLEAN
    /\ spoiled \in BOOLEAN /\ orphan \in 0..MaxStarts
    /\ starts \in [Procs -> 0..MaxStarts]
    /\ stale \in Nat

(* A line is announced too early in 08 only, and a reader is taken in at most once:
   it evaluates the buffer without having read a line at most one time, as it is one
   line behind from then on.  In 09 that takes a write() that failed. *)
StaleOnce == stale <= 1 /\ (stale = 1 => (version = "08" \/ wrong))

(* StaleOnce, and no token promises more than is in the file: when both are between two rounds, the
   lines the reader has not read are at least the tokens in full, and one more for its
   stale read, which no token will ever announce. *)
LinesOwed ==
    /\ StaleOnce
    /\ (Attached(reader) /\ pc[reader] \in {"loop", "take"} /\ pc[writer] \in {"loop", "take"})
          => lines - offset >= full + stale

(* Tokens are neither made nor lost, in semaphores that were filled and of which no process
   was killed: each is in empty, in full, or, in 09, in the hands of a process between its
   two semaphores. *)
Holding(p) ==
    IF version = "09" /\ pc[p] \in {"lock", "io", "unlock", "give"} THEN 1 ELSE 0
TokensStay ==
    /\ TypeOK
    /\ (set # 0 /\ ~spoiled) => empty + full + Holding(writer) + Holding(reader) = EmptyMax

\* It sleeps at a mutex that was taken by a process that was killed with it.
Orphaned(p) == pc[p] = "lock" /\ Attached(p) /\ orphan = set

(* A process that got SIGINT, or whose set was removed by the other one, ends: nothing it
   sleeps in lasts, but for a mutex that a process was killed with. *)
StopsWhenTold == \A p \in Procs :
    (Active(p) /\ (~running[p] \/ ~Attached(p))) ~> (~Active(p) \/ Orphaned(p))
=============================================================================
