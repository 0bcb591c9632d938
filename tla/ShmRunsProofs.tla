--------------------------- MODULE ShmRunsProofs ---------------------------
(***************************************************************************)
(* Proofs about ShmRuns, for any number of writers, readers and tokens:    *)
(* a run keeps its segment and its semaphores until it removes them, only  *)
(* a kill or a failed shmat(), mmap() or SETVAL leaves some behind, and a  *)
(* reader uses the objects of one run.                                     *)
(*                                                                         *)
(* No writer looks at another one, so the invariant has one part that says *)
(* for each writer what it has made, knows and must remove, depending on   *)
(* where it is.  The semaphores are what the processes that know the set   *)
(* have made of them since SETVAL.                                         *)
(***************************************************************************)
EXTENDS ShmRuns, TLAPS

Working == {"loop", "lock", "use", "unlock"}

\* What a writer has made is there, and it knows what is to be removed, but for what it
\* has forgotten in a failure.
KnowsSegment(w) ==
    \/ shmid[w] = w /\ seg = w
    \/ shmid[w] = None /\ (seg # w \/ w \in failed)
KnowsSet(w) ==
    \/ semid[w] = w /\ set = w
    \/ semid[w] = None /\ (set # w \/ w \in failed)

WriterInv(w) ==
    /\ pc[w] # "sem"
    /\ pc[w] \in {"new", "shm"} =>
          seg # w /\ set # w /\ shmid[w] = None /\ semid[w] = None
    /\ pc[w] = "attach" => seg = w /\ set # w /\ shmid[w] = None /\ semid[w] = None
    /\ pc[w] = "semget" =>
          seg = w /\ set # w /\ shmid[w] = w /\ shared[w] = w /\ semid[w] = None
    /\ pc[w] = "setval" =>
          seg = w /\ set = w /\ shmid[w] = w /\ shared[w] = w /\ semid[w] = None
    /\ pc[w] \in Working \cup {"fork"} =>
          seg = w /\ set = w /\ shmid[w] = w /\ shared[w] = w /\ semid[w] = w
    /\ pc[w] = "cleanup" => KnowsSegment(w) /\ KnowsSet(w)
    /\ pc[w] = "rmshm" => KnowsSegment(w) /\ (set # w \/ w \in failed)
    /\ pc[w] = "ended" => (seg # w /\ set # w) \/ w \in killed \cup failed

\* A set belongs to the segment that can be found, or was left by a failed SETVAL.
SetHasSegment == set # None => set \in failed \/ set = seg

\* Nobody knows a set that was not made yet.
Unmade(w) == pc[w] \in {"new", "shm", "attach", "semget"}
KnownIsMade == \A w \in Writers, p \in Procs : semid[p] = w => ~Unmade(w)

\* A reader between its two steps finds no segment but its own, unless it was overtaken.
ReaderInv(r) ==
    /\ pc[r] \in Working \cup {"new", "sem", "ended"}
    /\ pc[r] = "sem" /\ r \notin overtaken => seg \in {shared[r], None}
    /\ pc[r] \in Working =>
          /\ semid[r] \in Writers
          /\ r \notin overtaken => shared[r] = semid[r] \/ semid[r] \in failed

\* The mutex of the set is taken by the one process that is behind Lock with it.
Using(p) == pc[p] \in {"use", "unlock"} /\ semid[p] = set
MutexInv ==
    /\ \A p \in Procs : Using(p) => mutex = 0
    /\ \A p, q \in Procs : Using(p) /\ Using(q) => p = q

\* Before SETVAL there are no tokens and nobody behind Lock.
NotSet ==
    \A w \in Writers : pc[w] = "setval" =>
        mutex = 0 /\ full = 0 /\ \A p \in Procs : ~Using(p)

Tokens == empty + full <= EmptyMax

IInv ==
    /\ TypeOK
    /\ \A w \in Writers : WriterInv(w)
    /\ \A r \in Readers : ReaderInv(r)
    /\ SetHasSegment
    /\ KnownIsMade
    /\ MutexInv
    /\ NotSet
    /\ Tokens
-----------------------------------------------------------------------------
\* Before anything was started, nothing is there.
LEMMA InitInv == Init => IInv
  BY ProcessAssumption, EmptyMaxAssumption
  DEF Init, IInv, TypeOK, Procs, Objects, Working, WriterInv, ReaderInv, SetHasSegment,
      KnownIsMade, MutexInv, Using, NotSet, Tokens, Unmade, States

\* A process that ends forgets everything; nobody else is touched.
LEMMA ExitTypes ==
    ASSUME TypeOK, NEW p \in Procs, Exit(p)
    PROVE  /\ pc' \in [Procs -> States] /\ running' \in [Procs -> BOOLEAN]
           /\ shmid' \in [Procs -> Objects] /\ shared' \in [Procs -> Objects]
           /\ semid' \in [Procs -> Objects] /\ calls' \in [Procs -> 0..1]
<1>1. pc' \in [Procs -> States] /\ running' \in [Procs -> BOOLEAN]
  BY DEF TypeOK, Exit, Goto, States
<1>2. shmid' \in [Procs -> Objects]
  BY DEF TypeOK, Exit, Objects
<1>3. shared' \in [Procs -> Objects]
  BY DEF TypeOK, Exit, Objects
<1>4. semid' \in [Procs -> Objects]
  BY DEF TypeOK, Exit, Objects
<1>5. calls' \in [Procs -> 0..1]
  BY DEF TypeOK, Exit
<1> QED BY <1>1, <1>2, <1>3, <1>4, <1>5

\* Every step keeps the invariant.  What makes a step of another process harmless to a writer
\* is IPC_EXCL: seg and set are only taken when they are None, and only given up by a writer
\* that knows their name.
LEMMA StepInv == IInv /\ [Next]_vars => IInv'
<1> SUFFICES ASSUME IInv, [Next]_vars PROVE IInv'
  OBVIOUS
<1> USE ProcessAssumption, EmptyMaxAssumption DEF IInv, TypeOK, Procs, Objects, Goto, States,
      sems, ids, hist
<1>1. ASSUME NEW w \in Writers, StartWriter(w) PROVE IInv'
  <2> USE <1>1 DEF StartWriter
  <2>1. TypeOK'
    OBVIOUS
  <2>2. ASSUME NEW v \in Writers PROVE WriterInv(v)'
    BY DEF WriterInv, KnowsSegment, KnowsSet, Working
  <2>3. ASSUME NEW q \in Readers PROVE ReaderInv(q)'
    BY DEF ReaderInv, WriterInv, SetHasSegment, Working
  <2>4. KnownIsMade'
    BY DEF KnownIsMade, Unmade, WriterInv, KnowsSet, Working
  <2>5. SetHasSegment' /\ MutexInv' /\ NotSet' /\ Tokens'
    BY DEF SetHasSegment, WriterInv, KnowsSegment, KnowsSet, MutexInv, Using, NotSet,
           ReaderInv, Working, KnownIsMade, Unmade, Tokens
  <2> QED BY <2>1, <2>2, <2>3, <2>4, <2>5
<1>2. ASSUME NEW w \in Writers, ShmGet(w) PROVE IInv'
  <2> USE <1>2 DEF ShmGet, AfterFailure, Overtaken
  <2>1. TypeOK'
    OBVIOUS
  <2>2. ASSUME NEW v \in Writers PROVE WriterInv(v)'
    BY DEF WriterInv, KnowsSegment, KnowsSet, Working
  <2>3. ASSUME NEW q \in Readers PROVE ReaderInv(q)'
    BY DEF ReaderInv, WriterInv, SetHasSegment, Working
  <2>4. SetHasSegment'
    BY DEF SetHasSegment, WriterInv, KnowsSegment, KnowsSet
  <2>5. KnownIsMade'
    BY DEF KnownIsMade, Unmade, WriterInv, KnowsSet, Working
  <2>6. MutexInv' /\ NotSet' /\ Tokens'
    BY DEF MutexInv, Using, NotSet, WriterInv, ReaderInv, Working, KnownIsMade, Unmade, Tokens
  <2> QED BY <2>1, <2>2, <2>3, <2>4, <2>5, <2>6
<1>3. ASSUME NEW w \in Writers, Attach(w) PROVE IInv'
  <2> USE <1>3 DEF Attach, AfterFailure
  <2>1. TypeOK'
    OBVIOUS
  <2>2. ASSUME NEW v \in Writers PROVE WriterInv(v)'
    BY DEF WriterInv, KnowsSegment, KnowsSet, Working
  <2>3. ASSUME NEW q \in Readers PROVE ReaderInv(q)'
    BY DEF ReaderInv, WriterInv, SetHasSegment, Working
  <2>4. SetHasSegment'
    BY DEF SetHasSegment, WriterInv, KnowsSegment, KnowsSet
  <2>5. KnownIsMade'
    BY DEF KnownIsMade, Unmade, WriterInv, KnowsSet, Working
  <2>6. MutexInv' /\ NotSet' /\ Tokens'
    BY DEF MutexInv, Using, NotSet, WriterInv, ReaderInv, Working, KnownIsMade, Unmade, Tokens
  <2> QED BY <2>1, <2>2, <2>3, <2>4, <2>5, <2>6
<1>4. ASSUME NEW w \in Writers, SemGet(w) PROVE IInv'
  <2> USE <1>4 DEF SemGet, AfterFailure
  <2>1. TypeOK'
    OBVIOUS
  <2>2. ASSUME NEW v \in Writers PROVE WriterInv(v)'
    BY DEF WriterInv, KnowsSegment, KnowsSet, Working
  <2>3. ASSUME NEW q \in Readers PROVE ReaderInv(q)'
    BY DEF ReaderInv, WriterInv, SetHasSegment, Working
  <2>4. SetHasSegment'
    BY DEF SetHasSegment, WriterInv, KnowsSegment, KnowsSet
  <2>5. KnownIsMade'
    BY DEF KnownIsMade, Unmade, WriterInv, KnowsSet, Working
  <2>6. MutexInv'
    BY DEF MutexInv, Using, NotSet, WriterInv, ReaderInv, Working, KnownIsMade, Unmade
  <2>7. NotSet'
    BY DEF NotSet, Using, WriterInv, ReaderInv, Working, KnownIsMade, Unmade
  <2>8. Tokens'
    BY DEF Tokens, WriterInv, NotSet
  <2> QED BY <2>1, <2>2, <2>3, <2>4, <2>5, <2>6, <2>7, <2>8
<1>5. ASSUME NEW w \in Writers, SetVal(w) PROVE IInv'
  <2> USE <1>5 DEF SetVal, AfterFailure
  <2>1. TypeOK'
    OBVIOUS
  <2>2. ASSUME NEW v \in Writers PROVE WriterInv(v)'
    BY DEF WriterInv, KnowsSegment, KnowsSet, Working
  <2>3. ASSUME NEW q \in Readers PROVE ReaderInv(q)'
    BY DEF ReaderInv, WriterInv, SetHasSegment, Working
  <2>4. SetHasSegment'
    BY DEF SetHasSegment, WriterInv, KnowsSegment, KnowsSet
  <2>5. KnownIsMade'
    BY DEF KnownIsMade, Unmade, WriterInv, KnowsSet, Working
  <2>6. MutexInv'
    BY DEF MutexInv, Using, NotSet, WriterInv, ReaderInv, Working, KnownIsMade, Unmade
  <2>7. NotSet'
    BY DEF NotSet, Using, WriterInv, ReaderInv, Working, KnownIsMade, Unmade
  <2>8. Tokens'
    BY DEF Tokens, WriterInv, NotSet
  <2> QED BY <2>1, <2>2, <2>3, <2>4, <2>5, <2>6, <2>7, <2>8
<1>6. ASSUME NEW w \in Writers, Fork(w) PROVE IInv'
  <2> USE <1>6 DEF Fork, AfterFailure
  <2>1. TypeOK'
    OBVIOUS
  <2>2. ASSUME NEW v \in Writers PROVE WriterInv(v)'
    BY DEF WriterInv, KnowsSegment, KnowsSet, Working
  <2>3. ASSUME NEW q \in Readers PROVE ReaderInv(q)'
    BY DEF ReaderInv, WriterInv, SetHasSegment, Working
  <2>4. KnownIsMade'
    BY DEF KnownIsMade, Unmade, WriterInv, KnowsSet, Working
  <2>5. MutexInv'
    BY DEF MutexInv, Using, NotSet, WriterInv, ReaderInv, Working, KnownIsMade, Unmade
  <2>6. SetHasSegment' /\ NotSet' /\ Tokens'
    BY DEF SetHasSegment, WriterInv, KnowsSegment, KnowsSet, NotSet, Using, ReaderInv,
           Working, KnownIsMade, Unmade, Tokens
  <2> QED BY <2>1, <2>2, <2>3, <2>4, <2>5, <2>6
<1>7. ASSUME NEW w \in Writers, Push(w) PROVE IInv'
  <2> USE <1>7 DEF Push, Attached
  <2>1. TypeOK'
    BY DEF Tokens
  <2>2. ASSUME NEW v \in Writers PROVE WriterInv(v)'
    BY DEF WriterInv, KnowsSegment, KnowsSet, Working
  <2>3. ASSUME NEW q \in Readers PROVE ReaderInv(q)'
    BY DEF ReaderInv, WriterInv, SetHasSegment, Working
  <2>4. Tokens'
    BY DEF Tokens, WriterInv, NotSet
  <2>5. SetHasSegment' /\ KnownIsMade' /\ MutexInv' /\ NotSet'
    BY DEF SetHasSegment, WriterInv, KnowsSegment, KnowsSet, KnownIsMade, Unmade, Working,
           MutexInv, Using, NotSet, ReaderInv
  <2> QED BY <2>1, <2>2, <2>3, <2>4, <2>5
<1>8. ASSUME NEW w \in Writers, CleanUp(w) PROVE IInv'
  <2> USE <1>8 DEF CleanUp, SetAfter
  <2>1. TypeOK'
    OBVIOUS
  <2>2. ASSUME NEW v \in Writers PROVE WriterInv(v)'
    BY DEF WriterInv, KnowsSegment, KnowsSet, Working
  <2>3. ASSUME NEW q \in Readers PROVE ReaderInv(q)'
    BY DEF ReaderInv, WriterInv, SetHasSegment, Working
  <2>4. SetHasSegment'
    BY DEF SetHasSegment, WriterInv, KnowsSegment, KnowsSet
  <2>5. MutexInv'
    BY DEF MutexInv, Using, NotSet, WriterInv, ReaderInv, Working, KnownIsMade, Unmade
  <2>6. KnownIsMade' /\ NotSet' /\ Tokens'
    BY DEF KnownIsMade, Unmade, WriterInv, KnowsSet, Working, NotSet, Using, ReaderInv, Tokens
  <2> QED BY <2>1, <2>2, <2>3, <2>4, <2>5, <2>6
<1>9. ASSUME NEW w \in Writers, RemoveShm(w) PROVE IInv'
  <2> USE <1>9 DEF RemoveShm, Removes
  <2>1. TypeOK'
    BY ExitTypes
  <2> USE DEF Exit
  <2>2. ASSUME NEW v \in Writers PROVE WriterInv(v)'
    BY DEF WriterInv, KnowsSegment, KnowsSet, Working
  <2>3. ASSUME NEW q \in Readers PROVE ReaderInv(q)'
    BY DEF ReaderInv, WriterInv, SetHasSegment, Working
  <2>4. SetHasSegment'
    BY DEF SetHasSegment, WriterInv, KnowsSegment, KnowsSet
  <2>5. KnownIsMade'
    BY DEF KnownIsMade, Unmade, WriterInv, KnowsSet, Working
  <2>6. MutexInv'
    BY DEF MutexInv, Using, NotSet, WriterInv, ReaderInv, Working, KnownIsMade, Unmade
  <2>7. NotSet' /\ Tokens'
    BY DEF NotSet, Using, WriterInv, ReaderInv, Working, KnownIsMade, Unmade, Tokens
  <2> QED BY <2>1, <2>2, <2>3, <2>4, <2>5, <2>6, <2>7
<1>10. ASSUME NEW r \in Readers, StartReader(r) PROVE IInv'
  <2> USE <1>10 DEF StartReader
  <2>1. TypeOK'
    <3>1. CASE seg # None
      BY <3>1
    <3>2. CASE seg = None
      BY <3>2, ExitTypes
    <3> QED BY <3>1, <3>2
  <2> USE DEF Exit
  <2>2. ASSUME NEW v \in Writers PROVE WriterInv(v)'
    BY DEF WriterInv, KnowsSegment, KnowsSet, Working
  <2>3. ASSUME NEW q \in Readers PROVE ReaderInv(q)'
    BY DEF ReaderInv, WriterInv, SetHasSegment, Working
  <2>4. SetHasSegment' /\ KnownIsMade' /\ MutexInv' /\ NotSet' /\ Tokens'
    BY DEF SetHasSegment, WriterInv, KnowsSegment, KnowsSet, KnownIsMade, Unmade, Working,
           MutexInv, Using, NotSet, ReaderInv, Tokens
  <2> QED BY <2>1, <2>2, <2>3, <2>4
<1>11. ASSUME NEW r \in Readers, FindSet(r) PROVE IInv'
  <2> USE <1>11 DEF FindSet
  <2>1. TypeOK'
    <3>1. CASE set # None
      BY <3>1
    <3>2. CASE set = None
      BY <3>2, ExitTypes
    <3> QED BY <3>1, <3>2
  <2> USE DEF Exit
  <2>2. ASSUME NEW v \in Writers PROVE WriterInv(v)'
    BY DEF WriterInv, KnowsSegment, KnowsSet, Working
  <2>3. ASSUME NEW q \in Readers PROVE ReaderInv(q)'
    BY DEF ReaderInv, WriterInv, SetHasSegment, Working
  <2>4. KnownIsMade'
    BY DEF KnownIsMade, Unmade, WriterInv, KnowsSet, Working
  <2>5. NotSet'
    BY DEF NotSet, Using, WriterInv, ReaderInv, Working, KnownIsMade, Unmade
  <2>6. SetHasSegment' /\ MutexInv' /\ Tokens'
    BY DEF SetHasSegment, WriterInv, KnowsSegment, KnowsSet, MutexInv, Using, NotSet,
           ReaderInv, Working, KnownIsMade, Unmade, Tokens
  <2> QED BY <2>1, <2>2, <2>3, <2>4, <2>5, <2>6
<1>12. ASSUME NEW r \in Readers, Pop(r) PROVE IInv'
  <2> USE <1>12 DEF Pop, Attached
  <2>1. TypeOK'
    BY DEF Tokens
  <2>2. ASSUME NEW v \in Writers PROVE WriterInv(v)'
    BY DEF WriterInv, KnowsSegment, KnowsSet, Working
  <2>3. ASSUME NEW q \in Readers PROVE ReaderInv(q)'
    BY DEF ReaderInv, WriterInv, SetHasSegment, Working
  <2>4. MutexInv'
    BY DEF MutexInv, Using, NotSet, WriterInv, ReaderInv, Working, KnownIsMade, Unmade
  <2>5. NotSet'
    BY DEF NotSet, Using, WriterInv, ReaderInv, Working, KnownIsMade, Unmade
  <2>6. Tokens'
    BY DEF Tokens, WriterInv, NotSet
  <2>7. SetHasSegment' /\ KnownIsMade'
    BY DEF SetHasSegment, WriterInv, KnowsSegment, KnowsSet, KnownIsMade, Unmade, Working
  <2> QED BY <2>1, <2>2, <2>3, <2>4, <2>5, <2>6, <2>7
<1>13. ASSUME NEW p \in Procs, Stop(p) PROVE IInv'
  <2> USE <1>13 DEF Stop, Return
  <2>1. TypeOK'
    <3>1. CASE p \in Writers
      BY <3>1
    <3>2. CASE p \in Readers /\ calls[p] > 0
      BY <3>2
    <3>3. CASE p \in Readers /\ calls[p] = 0
      BY <3>3, ExitTypes
    <3> QED BY <3>1, <3>2, <3>3
  <2> USE DEF Exit
  <2>2. ASSUME NEW v \in Writers PROVE WriterInv(v)'
    BY DEF WriterInv, KnowsSegment, KnowsSet, Working
  <2>3. ASSUME NEW q \in Readers PROVE ReaderInv(q)'
    BY DEF ReaderInv, WriterInv, SetHasSegment, Working
  <2>4. KnownIsMade'
    BY DEF KnownIsMade, Unmade, WriterInv, KnowsSet, Working
  <2>5. SetHasSegment' /\ MutexInv' /\ NotSet' /\ Tokens'
    BY DEF SetHasSegment, WriterInv, KnowsSegment, KnowsSet, MutexInv, Using, NotSet,
           ReaderInv, Working, KnownIsMade, Unmade, Tokens
  <2> QED BY <2>1, <2>2, <2>3, <2>4, <2>5
<1>14. ASSUME NEW p \in Procs, Lock(p) PROVE IInv'
  <2> USE <1>14 DEF Lock, Attached
  <2>1. TypeOK'
    OBVIOUS
  <2>2. ASSUME NEW v \in Writers PROVE WriterInv(v)'
    BY DEF WriterInv, KnowsSegment, KnowsSet, Working
  <2>3. ASSUME NEW q \in Readers PROVE ReaderInv(q)'
    BY DEF ReaderInv, WriterInv, SetHasSegment, Working
  <2>4. MutexInv'
    BY DEF MutexInv, Using, NotSet, WriterInv, ReaderInv, Working, KnownIsMade, Unmade
  <2>5. NotSet'
    BY DEF NotSet, Using, WriterInv, ReaderInv, Working, KnownIsMade, Unmade
  <2>6. SetHasSegment' /\ KnownIsMade' /\ Tokens'
    BY DEF SetHasSegment, WriterInv, KnowsSegment, KnowsSet, KnownIsMade, Unmade, Working,
           Tokens, NotSet
  <2> QED BY <2>1, <2>2, <2>3, <2>4, <2>5, <2>6
<1>15. ASSUME NEW p \in Procs, Use(p) PROVE IInv'
  <2> USE <1>15 DEF Use
  <2>1. TypeOK'
    OBVIOUS
  <2>2. ASSUME NEW v \in Writers PROVE WriterInv(v)'
    BY DEF WriterInv, KnowsSegment, KnowsSet, Working
  <2>3. ASSUME NEW q \in Readers PROVE ReaderInv(q)'
    BY DEF ReaderInv, WriterInv, SetHasSegment, Working
  <2>4. MutexInv'
    BY DEF MutexInv, Using, NotSet, WriterInv, ReaderInv, Working, KnownIsMade, Unmade
  <2>5. SetHasSegment' /\ KnownIsMade' /\ NotSet' /\ Tokens'
    BY DEF SetHasSegment, WriterInv, KnowsSegment, KnowsSet, KnownIsMade, Unmade, Working,
           NotSet, Using, ReaderInv, Tokens
  <2> QED BY <2>1, <2>2, <2>3, <2>4, <2>5
<1>16. ASSUME NEW p \in Procs, Unlock(p) PROVE IInv'
  <2> USE <1>16 DEF Unlock, Attached
  <2>1. TypeOK'
    BY DEF MutexInv, Using
  <2>2. ASSUME NEW v \in Writers PROVE WriterInv(v)'
    BY DEF WriterInv, KnowsSegment, KnowsSet, Working
  <2>3. ASSUME NEW q \in Readers PROVE ReaderInv(q)'
    BY DEF ReaderInv, WriterInv, SetHasSegment, Working
  <2>4. MutexInv'
    BY DEF MutexInv, Using, NotSet, WriterInv, ReaderInv, Working, KnownIsMade, Unmade
  <2>5. NotSet'
    BY DEF NotSet, Using, WriterInv, ReaderInv, Working, KnownIsMade, Unmade
  <2>6. SetHasSegment' /\ KnownIsMade' /\ Tokens'
    BY DEF SetHasSegment, WriterInv, KnowsSegment, KnowsSet, KnownIsMade, Unmade, Working,
           Tokens, NotSet
  <2> QED BY <2>1, <2>2, <2>3, <2>4, <2>5, <2>6
<1>17. ASSUME NEW p \in Procs, SetGone(p) PROVE IInv'
  <2> USE <1>17 DEF SetGone, Attached, Return
  <2>1. TypeOK'
    <3>1. CASE p \in Writers
      BY <3>1
    <3>2. CASE p \in Readers /\ calls[p] > 0
      BY <3>2
    <3>3. CASE p \in Readers /\ calls[p] = 0
      BY <3>3, ExitTypes
    <3> QED BY <3>1, <3>2, <3>3
  <2> USE DEF Exit
  <2>2. ASSUME NEW v \in Writers PROVE WriterInv(v)'
    BY DEF WriterInv, KnowsSegment, KnowsSet, Working
  <2>3. ASSUME NEW q \in Readers PROVE ReaderInv(q)'
    BY DEF ReaderInv, WriterInv, SetHasSegment, Working
  <2>4. KnownIsMade'
    BY DEF KnownIsMade, Unmade, WriterInv, KnowsSet, Working
  <2>5. SetHasSegment' /\ MutexInv' /\ NotSet' /\ Tokens'
    BY DEF SetHasSegment, WriterInv, KnowsSegment, KnowsSet, MutexInv, Using, NotSet,
           ReaderInv, Working, KnownIsMade, Unmade, Tokens
  <2> QED BY <2>1, <2>2, <2>3, <2>4, <2>5
<1>18. ASSUME NEW p \in Procs, Interrupt(p) PROVE IInv'
  <2> USE <1>18 DEF Interrupt, Active
  <2>1. TypeOK'
    OBVIOUS
  <2>2. ASSUME NEW v \in Writers PROVE WriterInv(v)'
    BY DEF WriterInv, KnowsSegment, KnowsSet, Working
  <2>3. ASSUME NEW q \in Readers PROVE ReaderInv(q)'
    BY DEF ReaderInv, WriterInv, SetHasSegment, Working
  <2>4. SetHasSegment' /\ KnownIsMade' /\ MutexInv' /\ NotSet' /\ Tokens'
    BY DEF SetHasSegment, WriterInv, KnowsSegment, KnowsSet, KnownIsMade, Unmade, Working,
           MutexInv, Using, NotSet, ReaderInv, Tokens
  <2> QED BY <2>1, <2>2, <2>3, <2>4
<1>19. ASSUME NEW p \in Procs, InterruptAsleep(p) PROVE IInv'
  <2> USE <1>19 DEF InterruptAsleep, Attached
  <2>1. TypeOK'
    <3>1. CASE p \in Writers \/ calls[p] > 0
      <4>1. running' = [running EXCEPT ![p] = FALSE] /\ calls' = [calls EXCEPT ![p] = 0]
        BY <3>1, ProcessAssumption
      <4>2. pc' = [pc EXCEPT ![p] = IF p \in Writers THEN "cleanup" ELSE "loop"] /\ UNCHANGED ids
        BY <3>1, ProcessAssumption
      <4>3. pc' \in [Procs -> States] /\ running' \in [Procs -> BOOLEAN]
        BY <4>1, <4>2
      <4>4. calls' \in [Procs -> 0..1]
        BY <4>1
      <4> QED BY <4>2, <4>3, <4>4
    <3>2. CASE p \in Readers /\ calls[p] = 0
      BY <3>2, ExitTypes
    <3> QED BY <3>1, <3>2
  <2> USE DEF Exit
  <2>2. ASSUME NEW v \in Writers PROVE WriterInv(v)'
    BY DEF WriterInv, KnowsSegment, KnowsSet, Working
  <2>3. ASSUME NEW q \in Readers PROVE ReaderInv(q)'
    BY DEF ReaderInv, WriterInv, SetHasSegment, Working
  <2>4. KnownIsMade'
    BY DEF KnownIsMade, Unmade, WriterInv, KnowsSet, Working
  <2>5. SetHasSegment' /\ MutexInv' /\ NotSet' /\ Tokens'
    BY DEF SetHasSegment, WriterInv, KnowsSegment, KnowsSet, MutexInv, Using, NotSet,
           ReaderInv, Working, KnownIsMade, Unmade, Tokens
  <2> QED BY <2>1, <2>2, <2>3, <2>4, <2>5
<1>20. ASSUME NEW p \in Procs, Kill(p) PROVE IInv'
  <2> USE <1>20 DEF Kill, Active
  <2>1. TypeOK'
    BY ExitTypes
  <2> USE DEF Exit
  <2>2. ASSUME NEW v \in Writers PROVE WriterInv(v)'
    BY DEF WriterInv, KnowsSegment, KnowsSet, Working
  <2>3. ASSUME NEW q \in Readers PROVE ReaderInv(q)'
    BY DEF ReaderInv, WriterInv, SetHasSegment, Working
  <2>4. KnownIsMade'
    BY DEF KnownIsMade, Unmade, WriterInv, KnowsSet, Working
  <2>5. MutexInv'
    BY DEF MutexInv, Using, NotSet, WriterInv, ReaderInv, Working, KnownIsMade, Unmade
  <2>6. SetHasSegment' /\ NotSet' /\ Tokens'
    BY DEF SetHasSegment, WriterInv, KnowsSegment, KnowsSet, NotSet, Using, ReaderInv,
           Working, KnownIsMade, Unmade, Tokens
  <2> QED BY <2>1, <2>2, <2>3, <2>4, <2>5, <2>6
<1>21. CASE UNCHANGED vars
  BY <1>21 DEF vars, WriterInv, KnowsSegment, KnowsSet, ReaderInv, SetHasSegment,
     KnownIsMade, Unmade, MutexInv, Using, NotSet, Tokens, Overtaken
<1> QED BY <1>1, <1>2, <1>3, <1>4, <1>5, <1>6, <1>7, <1>8, <1>9, <1>10, <1>11, <1>12, <1>13,
  <1>14, <1>15, <1>16, <1>17, <1>18, <1>19, <1>20, <1>21 DEF Next, Writer, Reader, Either

\* The invariant holds in every state.
THEOREM Invariant == Spec => []IInv
<1> QED BY InitInv, StepInv, PTL DEF Spec

\* 10, 11 and 10/obsolete, any number of starts: a writer that has its segment and its
\* semaphores keeps both until it removes them itself, in every version, although 11 removes
\* the segment by a name that others use: who fails at O_EXCL has no shmid to clean up with.
THEOREM RunsKeepTheirOwn == Spec => []OwnUntilRemoved
<1>1. IInv => OwnUntilRemoved
  BY DEF IInv, OwnUntilRemoved, WriterInv, Working
<1> QED BY <1>1, Invariant, PTL

\* Every start of a writer that fails, and every run that ends by itself, leaves no segment and
\* no semaphores to the next one, but for a failed shmat(), mmap() or SETVAL and for a kill.
THEOREM NothingIsLeft == Spec => []NothingLeftBehind
<1>1. IInv => NothingLeftBehind
  BY DEF IInv, NothingLeftBehind, WriterInv
<1> QED BY <1>1, Invariant, PTL

\* A reader works with the tokens and the arrays of one run, however many there were before,
\* unless a run ended and another began between its shm_init() and its sem_init().
THEOREM ReadersUseOneRun == Spec => []ReadsOneRun
<1>1. IInv => ReadsOneRun
  BY DEF IInv, ReadsOneRun, ReaderInv, Working
<1> QED BY <1>1, Invariant, PTL
=============================================================================
