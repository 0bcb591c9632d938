-------------------------- MODULE ShmBufferProofs --------------------------
(***************************************************************************)
(* Proofs about ShmBuffer for every number of tokens, every number of      *)
(* arrays and every choice of processes that may be killed.                *)
(***************************************************************************)
EXTENDS ShmBuffer, TLAPS

USE EmptyMaxAssumption, MaxBlocksAssumption, KillableAssumption

WriterPcs == {"loop", "push", "lock", "check", "store", "copy", "unlock",
              "rmsem", "rmshm", "exit", "killed"}
ReaderPcs == {"loop", "pop", "lock", "scan", "mark", "unlock", "exit", "killed"}

\* Where a process holds the mutex.
WriterInside == pc[writer] \in {"check", "store", "copy", "unlock"}
ReaderInside == pc[reader] \in {"scan", "mark", "unlock"}

\* The control state: who is where, who holds the mutex, and that a token is
\* always in one of its two semaphores.
ControlInv ==
    /\ TypeOK
    /\ pc[writer] \in WriterPcs /\ pc[reader] \in ReaderPcs
    /\ WriterInside => mutex = 0
    /\ ReaderInside => mutex = 0
    /\ ~(WriterInside /\ ReaderInside)
    /\ empty + full = EmptyMax

\* The record is whole whenever someone may look at it.
RecordInv ==
    /\ (mutex = 1 \/ ReaderInside \/ pc[writer] \in {"check", "store", "unlock"})
           => (size > 0 => numbers = size)
    /\ pc[writer] \in {"lock", "check", "store", "copy"} => block > 0
    /\ pc[writer] = "copy" => size = block
    /\ pc[reader] = "mark" => (size > 0 /\ minmax = size)

\* The number of published answers that are not collected: one if the record is
\* marked, except between the writer's count and its store.
AnswerInv ==
    /\ scanned = data_processed \/ scanned = data_processed + 1
    /\ size # ANSWERED => scanned = data_processed
    /\ (size = ANSWERED /\ pc[writer] \notin {"store", "killed"})
           => scanned = data_processed + 1
    /\ pc[writer] = "store" => scanned = data_processed
    /\ scanned = data_processed + 1 => minmax > 0

\* Every token is a push not yet popped; every store follows its own push.
TokenInv ==
    /\ block = pops + full
    /\ stored <= block
    /\ pc[writer] \in {"lock", "check", "store"} => block = stored + 1
    /\ pc[writer] \in {"loop", "push", "copy", "unlock"} => block = stored
    /\ stored = scanned + lost + (IF size > 0 THEN 1 ELSE 0)

IInv == ControlInv /\ RecordInv /\ AnswerInv /\ TokenInv

-----------------------------------------------------------------------------
\* Only a process that took the mutex is inside, and only one.
LEMMA ControlStep ==
    ASSUME ControlInv, [Next]_vars
    PROVE  ControlInv'
<1> USE DEF ControlInv, TypeOK, WriterPcs, ReaderPcs, WriterInside, ReaderInside, Procs, writer, reader, sems, shared, hist, ANSWERED
<1>1. ASSUME NEW p \in Procs, Loop(p) PROVE ControlInv'
  BY <1>1 DEF Loop, Goto, Return
<1>2. ASSUME NEW p \in Procs, Lock(p) PROVE ControlInv'
  BY <1>2 DEF Lock, Goto, MutexFree, SemExists
<1>3. ASSUME NEW p \in Procs, Unlock(p) PROVE ControlInv'
  BY <1>3 DEF Unlock, Goto, Released
<1>4. ASSUME NEW p \in Procs, SemopFails(p) PROVE ControlInv'
  BY <1>4 DEF SemopFails, Fail, Return, Goto
<1>5. ASSUME NEW p \in Procs, Again(p) PROVE ControlInv'
  BY <1>5 DEF Again, Goto
<1>6. CASE Push
  BY <1>6 DEF Push, Goto, HasEmpty
<1>7. CASE Check
  BY <1>7 DEF Check, Goto, AnswerThere
<1>8. CASE Store
  BY <1>8 DEF Store, Goto, Unread
<1>9. CASE Copy
  BY <1>9 DEF Copy, Goto
<1>10. CASE RemoveSem
  BY <1>10 DEF RemoveSem, Goto
<1>11. CASE RemoveShm
  BY <1>11 DEF RemoveShm, Goto
<1>12. CASE Pop
  BY <1>12 DEF Pop, Goto
<1>13. CASE Scan
  BY <1>13 DEF Scan, Goto, Unread
<1>14. CASE Mark
  BY <1>14 DEF Mark, Goto
<1>15. ASSUME NEW p \in Procs, Interrupt(p) PROVE ControlInv'
  BY <1>15 DEF Interrupt
<1>16. ASSUME NEW p \in Procs, InterruptAsleep(p) PROVE ControlInv'
  BY <1>16 DEF InterruptAsleep, Return, Goto
<1>17. ASSUME NEW p \in Procs, Kill(p) PROVE ControlInv'
  BY <1>17 DEF Kill, Goto
<1>18. CASE UNCHANGED vars
  BY <1>18 DEF vars
<1>. QED
  BY <1>1, <1>2, <1>3, <1>4, <1>5, <1>6, <1>7, <1>8, <1>9, <1>10, <1>11, <1>12, <1>13, <1>14, <1>15, <1>16, <1>17, <1>18
     DEF Next, WriterStep, ReaderStep, Shared, Signal

\* A half-written record is seen by nobody but the writer.
LEMMA RecordStep ==
    ASSUME ControlInv, RecordInv, [Next]_vars
    PROVE  RecordInv'
<1> USE DEF ControlInv, RecordInv, TypeOK, WriterPcs, ReaderPcs, WriterInside, ReaderInside, Procs, writer, reader, sems, shared, hist, ANSWERED
<1>1. ASSUME NEW p \in Procs, Loop(p) PROVE RecordInv'
  BY <1>1 DEF Loop, Goto, Return
<1>2. ASSUME NEW p \in Procs, Lock(p) PROVE RecordInv'
  BY <1>2 DEF Lock, Goto, MutexFree, SemExists
<1>3. ASSUME NEW p \in Procs, Unlock(p) PROVE RecordInv'
  BY <1>3 DEF Unlock, Goto, Released
<1>4. ASSUME NEW p \in Procs, SemopFails(p) PROVE RecordInv'
  BY <1>4 DEF SemopFails, Fail, Return, Goto
<1>5. ASSUME NEW p \in Procs, Again(p) PROVE RecordInv'
  BY <1>5 DEF Again, Goto
<1>6. CASE Push
  BY <1>6 DEF Push, Goto, HasEmpty
<1>7. CASE Check
  BY <1>7 DEF Check, Goto, AnswerThere
<1>8. CASE Store
  BY <1>8 DEF Store, Goto, Unread
<1>9. CASE Copy
  BY <1>9 DEF Copy, Goto
<1>10. CASE RemoveSem
  BY <1>10 DEF RemoveSem, Goto
<1>11. CASE RemoveShm
  BY <1>11 DEF RemoveShm, Goto
<1>12. CASE Pop
  BY <1>12 DEF Pop, Goto
<1>13. CASE Scan
  BY <1>13 DEF Scan, Goto, Unread
<1>14. CASE Mark
  BY <1>14 DEF Mark, Goto
<1>15. ASSUME NEW p \in Procs, Interrupt(p) PROVE RecordInv'
  BY <1>15 DEF Interrupt
<1>16. ASSUME NEW p \in Procs, InterruptAsleep(p) PROVE RecordInv'
  BY <1>16 DEF InterruptAsleep, Return, Goto
<1>17. ASSUME NEW p \in Procs, Kill(p) PROVE RecordInv'
  BY <1>17 DEF Kill, Goto
<1>18. CASE UNCHANGED vars
  BY <1>18 DEF vars
<1>. QED
  BY <1>1, <1>2, <1>3, <1>4, <1>5, <1>6, <1>7, <1>8, <1>9, <1>10, <1>11, <1>12, <1>13, <1>14, <1>15, <1>16, <1>17, <1>18
     DEF Next, WriterStep, ReaderStep, Shared, Signal

\* The writer counts an answer exactly when there is one, before it stores.
LEMMA AnswerStep ==
    ASSUME ControlInv, RecordInv, AnswerInv, [Next]_vars
    PROVE  AnswerInv'
<1> USE DEF ControlInv, RecordInv, AnswerInv, TypeOK, WriterPcs, ReaderPcs, WriterInside, ReaderInside, Procs, writer, reader, sems, shared, hist, ANSWERED
<1>1. ASSUME NEW p \in Procs, Loop(p) PROVE AnswerInv'
  BY <1>1 DEF Loop, Goto, Return
<1>2. ASSUME NEW p \in Procs, Lock(p) PROVE AnswerInv'
  BY <1>2 DEF Lock, Goto, MutexFree, SemExists
<1>3. ASSUME NEW p \in Procs, Unlock(p) PROVE AnswerInv'
  BY <1>3 DEF Unlock, Goto, Released
<1>4. ASSUME NEW p \in Procs, SemopFails(p) PROVE AnswerInv'
  BY <1>4 DEF SemopFails, Fail, Return, Goto
<1>5. ASSUME NEW p \in Procs, Again(p) PROVE AnswerInv'
  BY <1>5 DEF Again, Goto
<1>6. CASE Push
  BY <1>6 DEF Push, Goto, HasEmpty
<1>7. CASE Check
  BY <1>7 DEF Check, Goto, AnswerThere
<1>8. CASE Store
  BY <1>8 DEF Store, Goto, Unread
<1>9. CASE Copy
  BY <1>9 DEF Copy, Goto
<1>10. CASE RemoveSem
  BY <1>10 DEF RemoveSem, Goto
<1>11. CASE RemoveShm
  BY <1>11 DEF RemoveShm, Goto
<1>12. CASE Pop
  BY <1>12 DEF Pop, Goto
<1>13. CASE Scan
  BY <1>13 DEF Scan, Goto, Unread
<1>14. CASE Mark
  BY <1>14 DEF Mark, Goto
<1>15. ASSUME NEW p \in Procs, Interrupt(p) PROVE AnswerInv'
  BY <1>15 DEF Interrupt
<1>16. ASSUME NEW p \in Procs, InterruptAsleep(p) PROVE AnswerInv'
  BY <1>16 DEF InterruptAsleep, Return, Goto
<1>17. ASSUME NEW p \in Procs, Kill(p) PROVE AnswerInv'
  BY <1>17 DEF Kill, Goto
<1>18. CASE UNCHANGED vars
  BY <1>18 DEF vars
<1>. QED
  BY <1>1, <1>2, <1>3, <1>4, <1>5, <1>6, <1>7, <1>8, <1>9, <1>10, <1>11, <1>12, <1>13, <1>14, <1>15, <1>16, <1>17, <1>18
     DEF Next, WriterStep, ReaderStep, Shared, Signal

\* Tokens, pushes, pops and stores stay in step.
LEMMA TokenStep ==
    ASSUME ControlInv, RecordInv, TokenInv, [Next]_vars
    PROVE  TokenInv'
<1> USE DEF ControlInv, RecordInv, TokenInv, TypeOK, WriterPcs, ReaderPcs, WriterInside, ReaderInside, Procs, writer, reader, sems, shared, hist, ANSWERED
<1>1. ASSUME NEW p \in Procs, Loop(p) PROVE TokenInv'
  BY <1>1 DEF Loop, Goto, Return
<1>2. ASSUME NEW p \in Procs, Lock(p) PROVE TokenInv'
  BY <1>2 DEF Lock, Goto, MutexFree, SemExists
<1>3. ASSUME NEW p \in Procs, Unlock(p) PROVE TokenInv'
  BY <1>3 DEF Unlock, Goto, Released
<1>4. ASSUME NEW p \in Procs, SemopFails(p) PROVE TokenInv'
  BY <1>4 DEF SemopFails, Fail, Return, Goto
<1>5. ASSUME NEW p \in Procs, Again(p) PROVE TokenInv'
  BY <1>5 DEF Again, Goto
<1>6. CASE Push
  BY <1>6 DEF Push, Goto, HasEmpty
<1>7. CASE Check
  BY <1>7 DEF Check, Goto, AnswerThere
<1>8. CASE Store
  BY <1>8 DEF Store, Goto, Unread
<1>9. CASE Copy
  BY <1>9 DEF Copy, Goto
<1>10. CASE RemoveSem
  BY <1>10 DEF RemoveSem, Goto
<1>11. CASE RemoveShm
  BY <1>11 DEF RemoveShm, Goto
<1>12. CASE Pop
  BY <1>12 DEF Pop, Goto
<1>13. CASE Scan
  BY <1>13 DEF Scan, Goto, Unread
<1>14. CASE Mark
  BY <1>14 DEF Mark, Goto
<1>15. ASSUME NEW p \in Procs, Interrupt(p) PROVE TokenInv'
  BY <1>15 DEF Interrupt
<1>16. ASSUME NEW p \in Procs, InterruptAsleep(p) PROVE TokenInv'
  BY <1>16 DEF InterruptAsleep, Return, Goto
<1>17. ASSUME NEW p \in Procs, Kill(p) PROVE TokenInv'
  BY <1>17 DEF Kill, Goto
<1>18. CASE UNCHANGED vars
  BY <1>18 DEF vars
<1>. QED
  BY <1>1, <1>2, <1>3, <1>4, <1>5, <1>6, <1>7, <1>8, <1>9, <1>10, <1>11, <1>12, <1>13, <1>14, <1>15, <1>16, <1>17, <1>18
     DEF Next, WriterStep, ReaderStep, Shared, Signal

-----------------------------------------------------------------------------
LEMMA InitIInv == Init => IInv
<1> SUFFICES ASSUME Init PROVE IInv
  OBVIOUS
<1> USE DEF Init, Procs, writer, reader, ANSWERED
<1>1. ControlInv
  BY DEF ControlInv, TypeOK, WriterPcs, ReaderPcs, WriterInside, ReaderInside
<1>2. RecordInv /\ AnswerInv /\ TokenInv
  BY DEF RecordInv, AnswerInv, TokenInv
<1>. QED
  BY <1>1, <1>2 DEF IInv

(* The invariant on which everything else rests holds in every state. *)
THEOREM Invariance == Spec => []IInv
<1>1. IInv /\ [Next]_vars => IInv'
  BY ControlStep, RecordStep, AnswerStep, TokenStep DEF IInv
<1>. QED
  BY InitIInv, <1>1, PTL DEF Spec

(* Types: in particular the mutex stays 0 or 1 and the token semaphores stay
   between 0 and EmptyMax, also after a process was killed or interrupted. *)
THEOREM TypeCorrect == Spec => []TypeOK
<1>1. IInv => TypeOK
  BY DEF IInv, ControlInv
<1>. QED
  BY Invariance, <1>1, PTL

(* get_data() only publishes answers to a complete array. *)
THEOREM ScansAreWhole == Spec => []NoTornScan
<1>1. IInv => NoTornScan
  BY DEF IInv, RecordInv, NoTornScan
<1>. QED
  BY Invariance, <1>1, PTL

(* put_data() counts every published answer once, and overwrites none. *)
THEOREM AnswersAreKept == Spec => []AnswerNotLost
<1>1. IInv => AnswerNotLost
  BY DEF IInv, ControlInv, TypeOK, AnswerInv, AnswerNotLost
<1>. QED
  BY Invariance, <1>1, PTL

(* The tokens bound the number of arrays lost to overwriting. *)
THEOREM LossIsBounded == Spec => []LossBound
<1>1. ASSUME IInv PROVE LossBound
  <2>1. lost + (IF size > 0 THEN 1 ELSE 0) = stored - scanned
    BY <1>1 DEF IInv, ControlInv, TypeOK, TokenInv, ANSWERED
  <2>2. stored - scanned <= (pops - scanned) + full
    BY <1>1 DEF IInv, ControlInv, TypeOK, TokenInv
  <2>3. full <= EmptyMax /\ full \in Nat /\ pops \in Nat /\ scanned \in Nat /\ stored \in Nat
    BY <1>1, EmptyMaxAssumption DEF IInv, ControlInv, TypeOK
  <2>. QED
    BY <2>1, <2>2, <2>3, EmptyMaxAssumption DEF LossBound
<1>. QED
  BY Invariance, <1>1, PTL
-----------------------------------------------------------------------------
(* The two loops implement the mailbox.  Check collects, Store puts, Mark takes;
   every other step leaves the mailbox as it is. *)

LEMMA MailboxStep ==
    ASSUME IInv, IInv', [Next]_vars
    PROVE  [Mailbox!ANext]_(Mailbox!avars)
<1> USE DEF IInv, ControlInv, RecordInv, AnswerInv, TokenInv, TypeOK, WriterInside,
            ReaderInside, Mailbox!avars, Procs, writer, reader, sems, shared, hist, ANSWERED
<1>1. ASSUME NEW p \in Procs, Loop(p) PROVE UNCHANGED Mailbox!avars
  BY <1>1 DEF Loop
<1>2. ASSUME NEW p \in Procs, Lock(p) PROVE UNCHANGED Mailbox!avars
  BY <1>2 DEF Lock
<1>3. ASSUME NEW p \in Procs, Unlock(p) PROVE UNCHANGED Mailbox!avars
  BY <1>3 DEF Unlock
<1>4. ASSUME NEW p \in Procs, SemopFails(p) PROVE UNCHANGED Mailbox!avars
  BY <1>4 DEF SemopFails, Fail
<1>5. ASSUME NEW p \in Procs, Again(p) PROVE UNCHANGED Mailbox!avars
  BY <1>5 DEF Again
<1>6. CASE Push
  BY <1>6 DEF Push
<1>7. CASE Check
  <2>1. CASE size = ANSWERED
    BY <1>7, <2>1 DEF Check, AnswerThere, Goto, Mailbox!ANext, Mailbox!Collect
  <2>2. CASE size # ANSWERED
    BY <1>7, <2>2 DEF Check, AnswerThere
  <2>. QED
    BY <2>1, <2>2
<1>8. CASE Store
  BY <1>8 DEF Store, Mailbox!ANext, Mailbox!Put
<1>9. CASE Copy
  BY <1>9 DEF Copy
<1>10. CASE RemoveSem
  BY <1>10 DEF RemoveSem
<1>11. CASE RemoveShm
  BY <1>11 DEF RemoveShm
<1>12. CASE Pop
  BY <1>12 DEF Pop
<1>13. CASE Scan
  BY <1>13 DEF Scan, Unread
<1>14. CASE Mark
  BY <1>14 DEF Mark, Mailbox!ANext, Mailbox!Take
<1>15. ASSUME NEW p \in Procs, Interrupt(p) PROVE UNCHANGED Mailbox!avars
  BY <1>15 DEF Interrupt
<1>16. ASSUME NEW p \in Procs, InterruptAsleep(p) PROVE UNCHANGED Mailbox!avars
  BY <1>16 DEF InterruptAsleep
<1>17. ASSUME NEW p \in Procs, Kill(p) PROVE UNCHANGED Mailbox!avars
  BY <1>17 DEF Kill
<1>18. CASE UNCHANGED vars
  BY <1>18 DEF vars
<1>. QED
  BY <1>1, <1>2, <1>3, <1>4, <1>5, <1>6, <1>7, <1>8, <1>9, <1>10, <1>11, <1>12, <1>13, <1>14, <1>15, <1>16, <1>17, <1>18
     DEF Next, WriterStep, ReaderStep, Shared, Signal

(* Refinement: every behaviour of the two processes is one of the mailbox. *)
THEOREM Refinement == Spec => ImplementsMailbox
<1>1. Init => Mailbox!AInit
  BY DEF Init, Mailbox!AInit
<1>2. IInv /\ IInv' /\ [Next]_vars => [Mailbox!ANext]_(Mailbox!avars)
  BY MailboxStep
<1>. QED
  BY Invariance, <1>1, <1>2, PTL DEF Spec, ImplementsMailbox, Mailbox!ASpec
=============================================================================
