--------------------------- MODULE FilePipeProofs ---------------------------
(***************************************************************************)
(* Proofs about FilePipe, for any number of tokens, lines and starts: both *)
(* programs keep the tokens of semaphores that were filled, as long as     *)
(* nobody who has them is killed, and no token promises a line that is not *)
(* there, but for one.                                                     *)
(*                                                                         *)
(* The second needs no mutex: it is a balance of lines and tokens.  Each   *)
(* token in full, or in the hands of a reader that has not read yet, has a *)
(* line of its own in the file behind the place of the reader.  In 08 one  *)
(* token may be ahead of its line, from Move to Write or for ever when the *)
(* line does not come; in 09 only a failed write() lets one be.            *)
(***************************************************************************)
EXTENDS FilePipe, TLAPS

\* An active writer has the set that is there, and an old set has an old number.
Sets ==
    /\ set <= starts[writer]
    /\ \A p \in Procs : semid[p] <= starts[writer]
    /\ \A p \in Procs : Active(p) => semid[p] # 0
    /\ Active(writer) => Attached(writer)
    /\ version = "09" => \A p \in Procs : Active(p) => Attached(p)

\* Who is between Lock and Unlock with the set that is there has taken its mutex.
Locked(p) == pc[p] \in {"io", "unlock"} /\ Attached(p)
MutexTaken ==
    /\ \A p \in Procs : Locked(p) => mutex = 0
    /\ ~(Locked(writer) /\ Locked(reader))

\* Tokens are never more than there were at first, nor less unless some were spoiled.
TokensLeft == empty + full + Holding(writer) + Holding(reader) <= EmptyMax
TokensExact ==
    set # 0 /\ ~spoiled => empty + full + Holding(writer) + Holding(reader) = EmptyMax

\* After a failed write() the writer comes to its end; in 09 it is not started again.
FailedEnds ==
    /\ failing[writer] => wrong /\ pc[writer] \in {"unlock", "give", "close", "off"}
    /\ version = "09" /\ wrong => failing[writer] /\ set # 0
    /\ version = "08" => \A p \in Procs : pc[p] # "give"
    /\ pc[reader] # "close"

\* The writer goes on only as long as there is room for a line.
RoomForLine == pc[writer] \in {"take", "lock", "io"} => lines < MaxLines

\* Tokens that are ahead of their line, lines whose token was not given yet, and tokens
\* that the reader has taken for the line it is about to read.
Ahead ==
    IF version = "08"
    THEN IF pc[writer] \in {"loop", "take"} \/ (pc[writer] = "unlock" /\ ~failing[writer]) THEN 0 ELSE 1
    ELSE IF wrong /\ pc[writer] \notin {"unlock", "give"} THEN 1 ELSE 0
Unannounced ==
    IF version = "09" /\ pc[writer] \in {"unlock", "give"} /\ ~failing[writer] THEN 1 ELSE 0
Reading == IF pc[reader] \in {"lock", "io"} THEN 1 ELSE 0

\* The balance as a reader would find it that is started now, for the reader that is there,
\* and what is left of it for one whose set was removed.
BalanceAtStart == set # 0 => lines + Ahead >= full + Unannounced
Balance ==
    Active(reader) /\ Attached(reader) =>
        lines + Ahead >= offset + full + Unannounced + Reading + stale
BalanceDetached == Active(reader) => lines + 1 >= offset + Reading + stale

IInv ==
    /\ TypeOK
    /\ Sets
    /\ MutexTaken
    /\ TokensLeft
    /\ TokensExact
    /\ FailedEnds
    /\ RoomForLine
    /\ BalanceAtStart
    /\ Balance
    /\ BalanceDetached
    /\ StaleOnce
-----------------------------------------------------------------------------
\* Nothing was started yet.
LEMMA InitInv == Init => IInv
<1> SUFFICES ASSUME Init PROVE IInv
  OBVIOUS
<1> USE EmptyMaxAssumption, BoundsAssumption DEF Init, Procs, writer, reader, Active, Attached
<1>1. TypeOK
  <2>1. pc \in [Procs -> {"off", "loop", "take", "lock", "io", "unlock", "give", "close"}]
    OBVIOUS
  <2>2. running \in [Procs -> BOOLEAN]
    OBVIOUS
  <2>3. semid \in [Procs -> 0..MaxStarts] /\ starts \in [Procs -> 0..MaxStarts]
    OBVIOUS
  <2>4. /\ set \in 0..MaxStarts /\ mutex \in 0..1 /\ empty \in 0..EmptyMax
        /\ full \in 0..EmptyMax /\ lines \in 0..MaxLines /\ offset \in 0..lines
    OBVIOUS
  <2> QED BY <2>1, <2>2, <2>3, <2>4 DEF TypeOK
<1>2. Sets /\ FailedEnds /\ RoomForLine
  BY DEF Sets, FailedEnds, RoomForLine
<1>3. MutexTaken /\ TokensLeft /\ TokensExact
  BY DEF MutexTaken, Locked, TokensLeft, TokensExact, Holding
<1>4. BalanceAtStart /\ Balance /\ BalanceDetached /\ StaleOnce
  BY DEF BalanceAtStart, Balance, BalanceDetached, StaleOnce
<1> QED BY <1>1, <1>2, <1>3, <1>4 DEF IInv

\* Every step keeps the invariant.
LEMMA StepInv == IInv /\ [Next]_vars => IInv'
<1> SUFFICES ASSUME IInv, [Next]_vars PROVE IInv'
  OBVIOUS
<1> USE EmptyMaxAssumption, BoundsAssumption
    DEF IInv, TypeOK, Procs, writer, reader, Active, Attached, Goto, sems, file, procs, hist
<1>1. ASSUME NEW p \in Procs, Loop(p) PROVE IInv'
  <2> USE <1>1 DEF Loop, Return, End
  <2>1. TypeOK'
    BY DEF Holding, TokensLeft, RoomForLine, MutexTaken, Locked
  <2>2. RoomForLine'
    BY DEF RoomForLine
  <2>3. Sets' /\ MutexTaken' /\ TokensLeft' /\ TokensExact' /\ FailedEnds' /\
     BalanceAtStart' /\ Balance' /\ BalanceDetached' /\ StaleOnce'
    BY DEF Sets, MutexTaken, Locked, TokensLeft, Holding, TokensExact, FailedEnds,
       BalanceAtStart, Ahead, Unannounced, Balance, Reading, BalanceDetached, StaleOnce
  <2> QED BY <2>1, <2>2, <2>3
\* 08: the token goes from the one to the other before the mutex is taken, so for the writer it
\* is ahead of its line from now on, and for the reader it stands for the line it will read.
<1>2. ASSUME NEW p \in Procs, Move(p) PROVE IInv'
  <2> USE <1>2 DEF Move, TokensFor, Taken, Given
  <2>1. TypeOK'
    BY DEF Holding, TokensLeft, RoomForLine, MutexTaken, Locked
  <2>2. TokensLeft'
    BY DEF TokensLeft, Holding, Sets
  <2>3. TokensExact'
    BY DEF TokensExact, Holding, Sets
  <2>4. BalanceAtStart'
    BY DEF BalanceAtStart, Ahead, Unannounced, FailedEnds, Sets
  <2>5. Balance'
    BY DEF Balance, BalanceAtStart, Ahead, Unannounced, Reading, FailedEnds, Sets
  <2>6. BalanceDetached'
    BY DEF BalanceDetached, Balance, Ahead, Unannounced, Reading, Sets
  <2>7. Sets' /\ MutexTaken' /\ FailedEnds' /\ RoomForLine' /\ StaleOnce'
    BY DEF Sets, MutexTaken, Locked, FailedEnds, RoomForLine, StaleOnce, Balance,
       BalanceDetached, Ahead, Unannounced, Reading
  <2> QED BY <2>1, <2>2, <2>3, <2>4, <2>5, <2>6, <2>7
\* 09: the token is in the hands of the process.
<1>3. ASSUME NEW p \in Procs, TryWait(p) PROVE IInv'
  <2> USE <1>3 DEF TryWait, TokensFor, Taken, OtherKept
  <2>1. TypeOK'
    BY DEF Holding, TokensLeft, RoomForLine, MutexTaken, Locked
  <2>2. TokensLeft'
    BY DEF TokensLeft, Holding, Sets
  <2>3. TokensExact'
    BY DEF TokensExact, Holding, Sets
  <2>4. BalanceAtStart'
    BY DEF BalanceAtStart, Ahead, Unannounced, FailedEnds, Sets
  <2>5. Balance'
    BY DEF Balance, BalanceAtStart, Ahead, Unannounced, Reading, FailedEnds, Sets
  <2>6. BalanceDetached'
    BY DEF BalanceDetached, Balance, Ahead, Unannounced, Reading, Sets
  <2>7. Sets' /\ MutexTaken' /\ FailedEnds' /\ RoomForLine' /\ StaleOnce'
    BY DEF Sets, MutexTaken, Locked, FailedEnds, RoomForLine, StaleOnce, Balance,
       BalanceDetached, Ahead, Unannounced, Reading
  <2> QED BY <2>1, <2>2, <2>3, <2>4, <2>5, <2>6, <2>7
<1>4. ASSUME NEW p \in Procs, Again(p) PROVE IInv'
  <2> USE <1>4 DEF Again, TokensFor
  <2>1. TypeOK'
    BY DEF Holding, TokensLeft, RoomForLine, MutexTaken, Locked
  <2>2. Sets' /\ MutexTaken' /\ TokensLeft' /\ TokensExact' /\ FailedEnds' /\ RoomForLine'
     /\ BalanceAtStart' /\ Balance' /\ BalanceDetached' /\ StaleOnce'
    BY DEF Sets, MutexTaken, Locked, TokensLeft, Holding, TokensExact, FailedEnds,
       RoomForLine, BalanceAtStart, Ahead, Unannounced, Balance, Reading, BalanceDetached,
       StaleOnce
  <2> QED BY <2>1, <2>2
<1>5. ASSUME NEW p \in Procs, Lock(p) PROVE IInv'
  <2> USE <1>5 DEF Lock, MutexFree
  <2>1. TypeOK'
    BY DEF Holding, TokensLeft, RoomForLine, MutexTaken, Locked
  <2>2. MutexTaken'
    BY DEF MutexTaken, Locked, Sets
  <2>3. Sets' /\ TokensLeft' /\ TokensExact' /\ FailedEnds' /\ RoomForLine' /\
     BalanceAtStart' /\ Balance' /\ BalanceDetached' /\ StaleOnce'
    BY DEF Sets, TokensLeft, Holding, TokensExact, FailedEnds, RoomForLine, BalanceAtStart,
       Ahead, Unannounced, Balance, Reading, BalanceDetached, StaleOnce
  <2> QED BY <2>1, <2>2, <2>3
\* The line comes for the token that is ahead of it (08), or is not announced yet (09); if the
\* call fails, the token stays ahead of it.
<1>6. ASSUME Write PROVE IInv'
  <2> USE <1>6 DEF Write
  <2>1. TypeOK'
    <3>1. lines < MaxLines
      BY DEF RoomForLine
    <3>2. lines' \in 0..MaxLines /\ offset' \in 0..lines'
      BY <3>1
    <3>3. pc' \in [Procs -> {"off", "loop", "take", "lock", "io", "unlock", "give", "close"}]
      OBVIOUS
    <3> QED BY <3>2, <3>3
  <2>2. FailedEnds'
    BY DEF FailedEnds, Sets
  <2>3. BalanceAtStart'
    BY DEF BalanceAtStart, Ahead, Unannounced, FailedEnds, Sets
  <2>4. Balance'
    BY DEF Balance, BalanceAtStart, Ahead, Unannounced, Reading, FailedEnds, Sets
  <2>5. BalanceDetached'
    BY DEF BalanceDetached, Balance, Ahead, Unannounced, Reading, Sets
  <2>6. StaleOnce'
    BY DEF StaleOnce, Balance, BalanceDetached, Ahead, Unannounced, Reading, Sets,
       FailedEnds
  <2>7. Sets' /\ MutexTaken' /\ TokensLeft' /\ TokensExact' /\ RoomForLine'
    BY DEF Sets, MutexTaken, Locked, TokensLeft, Holding, TokensExact, RoomForLine
  <2> QED BY <2>1, <2>2, <2>3, <2>4, <2>5, <2>6, <2>7
\* At the end of the file only a token that is ahead of its line can have let the reader in,
\* and there is one at most.
<1>7. ASSUME Read PROVE IInv'
  <2> USE <1>7 DEF Read
  <2>1. TypeOK'
    <3>1. offset' \in 0..lines /\ stale' \in Nat
      OBVIOUS
    <3>2. failing' \in [Procs -> BOOLEAN]
      OBVIOUS
    <3>3. pc' \in [Procs -> {"off", "loop", "take", "lock", "io", "unlock", "give", "close"}]
      OBVIOUS
    <3>4. UNCHANGED <<version, sems, lines, running, semid, starts, wrong, spoiled, orphan>>
      OBVIOUS
    <3> HIDE DEF Read
    <3> QED BY <3>1, <3>2, <3>3, <3>4
  <2>2. Balance'
    BY DEF Balance, BalanceAtStart, Ahead, Unannounced, Reading, FailedEnds, Sets
  <2>3. BalanceDetached'
    BY DEF BalanceDetached, Balance, Ahead, Unannounced, Reading, Sets
  <2>4. StaleOnce'
    BY DEF StaleOnce, Balance, BalanceDetached, Ahead, Unannounced, Reading, Sets,
       FailedEnds
  <2>5. Sets' /\ MutexTaken' /\ TokensLeft' /\ TokensExact' /\ FailedEnds' /\ RoomForLine'
     /\ BalanceAtStart'
    BY DEF Sets, MutexTaken, Locked, TokensLeft, Holding, TokensExact, FailedEnds,
       RoomForLine, BalanceAtStart, Ahead, Unannounced
  <2> QED BY <2>1, <2>2, <2>3, <2>4, <2>5
<1>8. ASSUME NEW p \in Procs, Unlock(p) PROVE IInv'
  <2> USE <1>8 DEF Unlock, Released, AfterUnlock, Done, End
  <2>1. TypeOK'
    BY DEF Holding, TokensLeft, RoomForLine, MutexTaken, Locked
  <2>2. MutexTaken'
    BY DEF MutexTaken, Locked, Sets
  <2>3. Sets' /\ TokensLeft' /\ TokensExact' /\ FailedEnds' /\ RoomForLine' /\
     BalanceAtStart' /\ Balance' /\ BalanceDetached' /\ StaleOnce'
    BY DEF Sets, TokensLeft, Holding, TokensExact, FailedEnds, RoomForLine, BalanceAtStart,
       Ahead, Unannounced, Balance, Reading, BalanceDetached, StaleOnce
  <2> QED BY <2>1, <2>2, <2>3
\* 09: the writer announces its line, or one that it failed to write.
<1>9. ASSUME NEW p \in Procs, Give(p) PROVE IInv'
  <2> USE <1>9 DEF Give, Given, Done, End
  <2>1. TypeOK'
    <3>1. CASE p = writer
      BY <3>1 DEF Holding, TokensLeft, RoomForLine, MutexTaken, Locked, FailedEnds
    <3>2. CASE p = reader
      BY <3>2 DEF Holding, TokensLeft, RoomForLine, MutexTaken, Locked, FailedEnds
    <3> QED BY <3>1, <3>2
  <2>2. TokensLeft'
    <3>1. CASE p = writer
      BY <3>1 DEF TokensLeft, Holding, Sets, FailedEnds
    <3>2. CASE p = reader
      BY <3>2 DEF TokensLeft, Holding, Sets, FailedEnds
    <3> QED BY <3>1, <3>2
  <2>3. TokensExact'
    <3>1. CASE p = writer
      BY <3>1 DEF TokensExact, Holding, Sets, FailedEnds
    <3>2. CASE p = reader
      BY <3>2 DEF TokensExact, Holding, Sets, FailedEnds
    <3> QED BY <3>1, <3>2
  <2>4. BalanceAtStart'
    <3>1. CASE p = writer
      BY <3>1 DEF BalanceAtStart, Ahead, Unannounced, FailedEnds, Sets
    <3>2. CASE p = reader
      BY <3>2 DEF BalanceAtStart, Ahead, Unannounced, FailedEnds, Sets
    <3> QED BY <3>1, <3>2
  <2>5. Balance'
    <3>1. CASE p = writer
      BY <3>1 DEF Balance, BalanceAtStart, Ahead, Unannounced, Reading, FailedEnds, Sets
    <3>2. CASE p = reader
      BY <3>2 DEF Balance, BalanceAtStart, Ahead, Unannounced, Reading, FailedEnds, Sets
    <3> QED BY <3>1, <3>2
  <2>6. BalanceDetached'
    BY DEF BalanceDetached, Balance, Ahead, Unannounced, Reading, Sets
  <2>7. Sets' /\ MutexTaken' /\ FailedEnds' /\ RoomForLine' /\ StaleOnce'
    BY DEF Sets, MutexTaken, Locked, FailedEnds, RoomForLine, StaleOnce, Balance,
       BalanceDetached, Ahead, Unannounced, Reading
  <2> QED BY <2>1, <2>2, <2>3, <2>4, <2>5, <2>6, <2>7
<1>10. ASSUME NEW p \in Procs, SetGone(p) PROVE IInv'
  <2> USE <1>10 DEF SetGone, Return, End
  <2>1. TypeOK'
    BY DEF Holding, TokensLeft, RoomForLine, MutexTaken, Locked
  <2>2. BalanceDetached'
    BY DEF BalanceDetached, Balance, Ahead, Unannounced, Reading, Sets
  <2>3. Sets' /\ MutexTaken' /\ TokensLeft' /\ TokensExact' /\ FailedEnds' /\ RoomForLine'
     /\ BalanceAtStart' /\ Balance' /\ StaleOnce'
    BY DEF Sets, MutexTaken, Locked, TokensLeft, Holding, TokensExact, FailedEnds,
       RoomForLine, BalanceAtStart, Ahead, Unannounced, Balance, Reading, StaleOnce,
       BalanceDetached
  <2> QED BY <2>1, <2>2, <2>3
\* From now on the reader of 08 is on its own, with what is left of the balance.
<1>11. ASSUME Close PROVE IInv'
  <2> USE <1>11 DEF Close, Left
  <2>1. TypeOK'
    BY DEF Holding, TokensLeft, RoomForLine, MutexTaken, Locked
  <2>2. Sets'
    BY DEF Sets
  <2>3. MutexTaken'
    BY DEF MutexTaken, Locked, Sets
  <2>4. TokensLeft' /\ TokensExact' /\ FailedEnds' /\ RoomForLine' /\ BalanceAtStart' /\
     Balance' /\ BalanceDetached' /\ StaleOnce'
    BY DEF TokensLeft, Holding, Sets, TokensExact, FailedEnds, RoomForLine, BalanceAtStart,
       Ahead, Unannounced, Balance, Reading, BalanceDetached, StaleOnce
  <2> QED BY <2>1, <2>2, <2>3, <2>4
\* 08, or the first writer of 09: nobody else knows the new set.
<1>12. ASSUME StartWriter PROVE IInv'
  <2> USE <1>12 DEF StartWriter, Started
  <2>1. TypeOK'
    <3>1. starts[writer] + 1 \in 0..MaxStarts
      OBVIOUS
    <3>2. starts' \in [Procs -> 0..MaxStarts] /\ semid' \in [Procs -> 0..MaxStarts]
      BY <3>1
    <3>3. pc' \in [Procs -> {"off", "loop", "take", "lock", "io", "unlock", "give", "close"}]
      OBVIOUS
    <3>4. running' \in [Procs -> BOOLEAN]
      OBVIOUS
    <3>5. /\ set' \in 0..MaxStarts /\ mutex' \in 0..1
          /\ empty' \in 0..EmptyMax /\ full' \in 0..EmptyMax
      BY <3>1
    <3>6. /\ UNCHANGED <<version, lines, offset, wrong, stale, orphan>> /\ spoiled' = FALSE
          /\ failing' \in [Procs -> BOOLEAN]
      OBVIOUS
    <3> HIDE DEF StartWriter, Started
    <3> QED BY <3>2, <3>3, <3>4, <3>5, <3>6
  <2>2. Sets'
    BY DEF Sets
  <2>3. MutexTaken'
    BY DEF MutexTaken, Locked, Sets
  <2>4. TokensLeft'
    BY DEF TokensLeft, Holding, Sets
  <2>5. TokensExact'
    BY DEF TokensExact, Holding, Sets
  <2>6. BalanceAtStart'
    BY DEF BalanceAtStart, Ahead, Unannounced, FailedEnds, Sets
  <2>7. Balance'
    BY DEF Balance, BalanceAtStart, Ahead, Unannounced, Reading, FailedEnds, Sets
  <2>8. BalanceDetached'
    BY DEF BalanceDetached, Balance, Ahead, Unannounced, Reading, Sets
  <2>9. FailedEnds' /\ RoomForLine' /\ StaleOnce'
    BY DEF FailedEnds, Sets, RoomForLine, StaleOnce, Balance, BalanceDetached, Ahead,
       Unannounced, Reading
  <2> QED BY <2>1, <2>2, <2>3, <2>4, <2>5, <2>6, <2>7, <2>8, <2>9
\* Semaphores that were not all filled hold no token in full, and nobody had them before.
<1>19. ASSUME SetupFails PROVE IInv'
  <2> USE <1>19 DEF SetupFails
  <2>1. TypeOK'
    <3>1. starts[writer] + 1 \in 0..MaxStarts
      OBVIOUS
    <3>2. starts' \in [Procs -> 0..MaxStarts]
      BY <3>1
    <3>3. pc' \in [Procs -> {"off", "loop", "take", "lock", "io", "unlock", "give", "close"}]
      OBVIOUS
    <3>4. /\ set' \in 0..MaxStarts /\ mutex' \in 0..1
          /\ empty' \in 0..EmptyMax /\ full' \in 0..EmptyMax
      BY <3>1
    <3>5. UNCHANGED <<version, lines, offset, running, semid, failing, wrong, stale, orphan>>
          /\ spoiled' = TRUE
      OBVIOUS
    <3> HIDE DEF SetupFails
    <3> QED BY <3>2, <3>3, <3>4, <3>5
  <2>2. Sets'
    BY DEF Sets
  <2>3. MutexTaken'
    BY DEF MutexTaken, Locked, Sets
  <2>4. TokensLeft'
    BY DEF TokensLeft, Holding, Sets
  <2>5. TokensExact' /\ FailedEnds' /\ RoomForLine'
    BY DEF TokensExact, FailedEnds, RoomForLine
  <2>6. BalanceAtStart'
    BY DEF BalanceAtStart, Ahead, Unannounced, FailedEnds, Sets
  <2>7. Balance' /\ BalanceDetached' /\ StaleOnce'
    BY DEF Balance, BalanceDetached, StaleOnce, Reading, Sets
  <2> QED BY <2>1, <2>2, <2>3, <2>4, <2>5, <2>6, <2>7
<1>13. ASSUME StartFails PROVE IInv'
  <2> USE <1>13 DEF StartFails
  <2>1. TypeOK'
    BY DEF Holding, TokensLeft, RoomForLine, MutexTaken, Locked
  <2>2. Sets'
    BY DEF Sets
  <2>3. MutexTaken' /\ TokensLeft' /\ TokensExact' /\ FailedEnds' /\ RoomForLine' /\
     BalanceAtStart' /\ Balance' /\ BalanceDetached' /\ StaleOnce'
    BY DEF MutexTaken, Locked, Sets, TokensLeft, Holding, TokensExact, FailedEnds,
       RoomForLine, BalanceAtStart, Ahead, Unannounced, Balance, Reading, BalanceDetached,
       StaleOnce
  <2> QED BY <2>1, <2>2, <2>3
<1>14. ASSUME StartReader PROVE IInv'
  <2> USE <1>14 DEF StartReader, Started, AtStart
  <2>1. TypeOK'
    BY DEF Holding, TokensLeft, RoomForLine, MutexTaken, Locked
  <2>2. Sets'
    BY DEF Sets
  <2>3. MutexTaken'
    BY DEF MutexTaken, Locked, Sets
  <2>4. BalanceAtStart'
    BY DEF BalanceAtStart, Ahead, Unannounced, FailedEnds, Sets
  <2>5. Balance'
    BY DEF Balance, BalanceAtStart, Ahead, Unannounced, Reading, FailedEnds, Sets
  <2>6. BalanceDetached'
    BY DEF BalanceDetached, Balance, Ahead, Unannounced, Reading, Sets
  <2>7. TokensLeft' /\ TokensExact' /\ FailedEnds' /\ RoomForLine' /\ StaleOnce'
    BY DEF TokensLeft, Holding, Sets, TokensExact, FailedEnds, RoomForLine, StaleOnce,
       Balance, BalanceDetached, Ahead, Unannounced, Reading
  <2> QED BY <2>1, <2>2, <2>3, <2>4, <2>5, <2>6, <2>7
<1>15. ASSUME NEW p \in Procs, Interrupt(p) PROVE IInv'
  <2> USE <1>15 DEF Interrupt
  <2>1. TypeOK'
    BY DEF Holding, TokensLeft, RoomForLine, MutexTaken, Locked
  <2>2. Sets' /\ MutexTaken' /\ TokensLeft' /\ TokensExact' /\ FailedEnds' /\ RoomForLine'
     /\ BalanceAtStart' /\ Balance' /\ BalanceDetached' /\ StaleOnce'
    BY DEF Sets, MutexTaken, Locked, TokensLeft, Holding, TokensExact, FailedEnds,
       RoomForLine, BalanceAtStart, Ahead, Unannounced, Balance, Reading, BalanceDetached,
       StaleOnce
  <2> QED BY <2>1, <2>2
<1>16. ASSUME NEW p \in Procs, InterruptAsleep(p) PROVE IInv'
  <2> USE <1>16 DEF InterruptAsleep, Return, End, MutexFree
  <2>1. TypeOK'
    BY DEF Holding, TokensLeft, RoomForLine, MutexTaken, Locked
  <2>2. FailedEnds'
    BY DEF FailedEnds, Sets
  <2>3. BalanceAtStart'
    BY DEF BalanceAtStart, Ahead, Unannounced, FailedEnds, Sets
  <2>4. Balance'
    BY DEF Balance, BalanceAtStart, Ahead, Unannounced, Reading, FailedEnds, Sets
  <2>5. BalanceDetached'
    BY DEF BalanceDetached, Balance, Ahead, Unannounced, Reading, Sets
  <2>6. Sets' /\ MutexTaken' /\ TokensLeft' /\ TokensExact' /\ RoomForLine' /\ StaleOnce'
    BY DEF Sets, MutexTaken, Locked, TokensLeft, Holding, TokensExact, RoomForLine,
       StaleOnce, Balance, BalanceDetached, Ahead, Unannounced, Reading, FailedEnds
  <2> QED BY <2>1, <2>2, <2>3, <2>4, <2>5, <2>6
<1>17. ASSUME NEW p \in Procs, Kill(p) PROVE IInv'
  <2> USE <1>17 DEF Kill, HasMutex
  <2>1. TypeOK'
    BY DEF Holding, TokensLeft, RoomForLine, MutexTaken, Locked
  <2>2. Sets'
    BY DEF Sets
  <2>3. TokensLeft'
    BY DEF TokensLeft, Holding, Sets
  <2>4. TokensExact'
    BY DEF TokensExact, Holding, Sets
  <2>5. BalanceAtStart'
    BY DEF BalanceAtStart, Ahead, Unannounced, FailedEnds, Sets
  <2>6. Balance'
    BY DEF Balance, BalanceAtStart, Ahead, Unannounced, Reading, FailedEnds, Sets
  <2>7. BalanceDetached'
    BY DEF BalanceDetached, Balance, Ahead, Unannounced, Reading, Sets
  <2>8. MutexTaken' /\ FailedEnds' /\ RoomForLine' /\ StaleOnce'
    BY DEF MutexTaken, Locked, Sets, FailedEnds, RoomForLine, StaleOnce, Balance,
       BalanceDetached, Ahead, Unannounced, Reading
  <2> QED BY <2>1, <2>2, <2>3, <2>4, <2>5, <2>6, <2>7, <2>8
<1>18. CASE UNCHANGED vars
  BY <1>18 DEF vars, Holding, TokensLeft, RoomForLine, MutexTaken, Locked, Sets,
     TokensExact, FailedEnds, BalanceAtStart, Ahead, Unannounced, Balance, Reading,
     BalanceDetached, StaleOnce
<1> QED BY <1>1, <1>2, <1>3, <1>4, <1>5, <1>6, <1>7, <1>8, <1>9, <1>10, <1>11, <1>12, <1>13,
   <1>14, <1>15, <1>16, <1>17, <1>18, <1>19 DEF Next, Step, Environment

\* The invariant holds in every state.
THEOREM Invariant == Spec => []IInv
<1> QED BY InitInv, StepInv, PTL DEF Spec

\* 08 and 09, any number of tokens: in semaphores that were filled, and as long as nobody who has
\* them is killed, every token is in empty, in full, or in the hands of a process of 09, whatever
\* is interrupted and started again.
THEOREM TokensAreKept == Spec => []TokensStay
<1>1. IInv => TokensStay
  BY DEF IInv, TokensExact, TokensStay
<1> QED BY <1>1, Invariant, PTL

\* No token promises a line that the reader will not find, but for the one line that a reader
\* of 08 may miss, or one of 09 after a failed write(); and a reader is taken in once at most.
THEOREM LinesAreOwed == Spec => []LinesOwed
<1>1. IInv => LinesOwed
  BY DEF IInv, LinesOwed, Balance, Ahead, Unannounced, Reading, FailedEnds, TypeOK, Active,
     Procs, writer, reader
<1> QED BY <1>1, Invariant, PTL
=============================================================================
