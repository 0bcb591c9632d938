---------------------------- MODULE ShellProofs ----------------------------
(***************************************************************************)
(* Proofs about Shell, for lines of any length, any commands and pipes of  *)
(* any size: the ends of a pipe are held by its neighbours only, and when  *)
(* the shell prompts nothing of an earlier line is left.                   *)
(*                                                                         *)
(* The second is a count: the shell waits as many times as the line has    *)
(* commands, so there must never be more processes than calls of wait()    *)
(* to come; and whoever has a descriptor must be the shell, at a place     *)
(* where it will still close it, or a process that has not ended.          *)
(***************************************************************************)
EXTENDS Shell, FiniteSets, FiniteSetTheorems, TLAPS

\* The type invariant in four parts.
RunTypes ==
    /\ version \in {"02", "04"}
    /\ pc \in {"prompt", "parse", "pipe", "fork", "close", "wait", "gone"}
    /\ depth \in 1..MaxDepth
    /\ line \in Seq(Commands) /\ Len(line) <= MaxStages
    /\ i \in 1..MaxStages /\ prev \in 0..MaxStages /\ slot \in Nat /\ left \in 0..MaxStages
ProcTypes ==
    /\ proc \in [Stages -> {"none", "child", "running", "zombie"}]
    /\ prog \in [Stages -> Progs]
PipeTypes == rd \in [Stages -> SUBSET Holders] /\ wr \in [Stages -> SUBSET Holders]
DataTypes ==
    /\ data \in [Stages -> 0..Room] /\ input \in [Stages -> 0..Pieces]
    /\ piece \in [Stages -> BOOLEAN]

\* The shell is in the middle of a line.
InRun == pc \in {"parse", "pipe", "fork", "close"}

\* The command it is at is one of the line, prev is the pipe before it, and after the first
\* command was parsed there is something in the memory of argv.
Position ==
    /\ InRun => i <= Len(line) /\ prev = i - 1 /\ (i > 1 \/ pc # "parse" => slot > 0)
    /\ pc = "pipe" => ~IsLast(i)
    /\ pc = "wait" => i = Len(line)

\* 02 has one command in a line, which is what its child executes, and no pipes.
Single ==
    version = "02" =>
        /\ \A j \in Stages : rd[j] = {} /\ wr[j] = {}
        /\ InRun \/ pc = "wait" => Len(line) = 1
        /\ InRun => ~line[1].in /\ ~line[1].out
        /\ InRun \/ pc = "wait" => (line[1].prog = "missing" => depth < MaxDepth)
        /\ \A j \in Stages : proc[j] # "none" => j = 1
        /\ proc[1] = "child" => prog[1] = line[1].prog
        /\ pc \in {"fork", "close"} => prog[1] = line[1].prog

\* Who has write ends and read ends, and that only processes that are alive have any.
WriteEnds == \A j \in Stages :
    /\ wr[j] \subseteq {shell, j}
    /\ shell \in wr[j] => j = i /\ pc \in {"fork", "close"} /\ ~IsLast(i)
ReadEnds == \A j \in Stages :
    /\ rd[j] \subseteq {shell, j, j + 1}
    /\ shell \in rd[j] =>
          \/ j = i /\ pc \in {"fork", "close"} /\ ~IsLast(i)
          \/ j = prev /\ InRun
    /\ j \in rd[j] => proc[j] = "child"
Alive == \A j, k \in Stages : k \in rd[j] \cup wr[j] => proc[k] \in {"child", "running"}

\* The processes of the line, and how many there may be.
Processes == {j \in Stages : proc[j] # "none"}
Forked ==
    /\ pc = "prompt" => Processes = {}
    /\ pc \in {"parse", "pipe", "fork"} => Processes \subseteq 1..(i - 1)
    /\ pc = "close" => Processes \subseteq 1..i
    /\ pc = "wait" => Cardinality(Processes) <= left

IInv ==
    /\ RunTypes /\ ProcTypes /\ PipeTypes /\ DataTypes
    /\ Position
    /\ Single
    /\ WriteEnds /\ ReadEnds /\ Alive
    /\ Forked
-----------------------------------------------------------------------------
\* What can be typed is a line.
LEMMA TypedIs ==
    ASSUME NEW l \in Typed
    PROVE  /\ l \in Seq(Commands) /\ Len(l) \in 1..MaxStages
           /\ version = "02" => Len(l) = 1 /\ ~l[1].in /\ ~l[1].out
<1>1. CASE version = "04"
  <2>1. PICK m \in 0..MaxStages : l \in [1..m -> Commands]
    BY <1>1 DEF Typed, SeqOf
  <2>2. m # 0
    BY <1>1, <2>1 DEF Typed
  <2> QED BY <1>1, <2>1, <2>2, BoundsAssumption
<1>2. CASE version # "04"
  <2>1. PICK c \in Commands : l = <<c>> /\ ~c.in /\ ~c.out
    BY <1>2 DEF Typed
  <2> QED BY <2>1, BoundsAssumption
<1> QED BY <1>1, <1>2

\* The numbers from 1 to n are n.
LEMMA UpTo ==
    ASSUME NEW n \in Nat
    PROVE  IsFiniteSet(1..n) /\ Cardinality(1..n) = n
<1> n \in Int /\ 1 \in Int
  OBVIOUS
<1>1. IsFiniteSet(1..n) /\ Cardinality(1..n) = IF 1 > n THEN 0 ELSE n - 1 + 1
  BY FS_Interval
<1> QED BY <1>1

\* A counter per stage that changes for one stage stays one.
LEMMA Counts ==
    ASSUME NEW f, NEW m \in Nat, f \in [Stages -> 0..m], NEW k \in Stages, NEW n \in 0..m
    PROVE  [f EXCEPT ![k] = n] \in [Stages -> 0..m]
  OBVIOUS

\* There are never infinitely many processes.
LEMMA ProcessesFinite ==
    IsFiniteSet(Processes) /\ Cardinality(Processes) \in Nat
<1>1. Processes \in SUBSET (1..MaxStages)
  BY DEF Processes, Stages
<1>2. IsFiniteSet(1..MaxStages)
  BY FS_Interval, BoundsAssumption
<1> QED BY <1>1, <1>2, FS_Subset, FS_CardinalityType

\* 02 is always at the last command, which is the only one.
LEMMA OneStage ==
    ASSUME RunTypes, Position, Single, InRun, version = "02"
    PROVE  Len(line) = 1 /\ i = 1 /\ IsLast(i)
<1>1. Len(line) = 1
  BY DEF Single
<1>2. i <= Len(line) /\ i \in 1..MaxStages
  BY DEF Position, RunTypes
<1> QED BY <1>1, <1>2, BoundsAssumption DEF IsLast

\* There is no line yet.
LEMMA InitInv == Init => IInv
<1> SUFFICES ASSUME Init PROVE IInv
  OBVIOUS
<1> USE BoundsAssumption DEF Init, Stages
<1>1. RunTypes /\ ProcTypes
  BY DEF RunTypes, ProcTypes, Progs
<1>2. PipeTypes /\ DataTypes
  BY DEF PipeTypes, DataTypes, Holders
<1>3. Position /\ Single
  BY DEF Position, Single, InRun
<1>4. WriteEnds /\ ReadEnds /\ Alive
  BY DEF WriteEnds, ReadEnds, Alive
<1>5. Forked
  BY DEF Forked, Processes
<1> QED BY <1>1, <1>2, <1>3, <1>4, <1>5 DEF IInv

\* A process that ends closes all it has, and is still one until it was waited for.
LEMMA EndKeeps ==
    ASSUME IInv, NEW j \in Stages, proc[j] \in {"child", "running"}, End(j),
           UNCHANGED <<version, pc, depth, run, prog>>
    PROVE  /\ RunTypes' /\ ProcTypes' /\ PipeTypes'
           /\ input' \in [Stages -> 0..Pieces] /\ piece' \in [Stages -> BOOLEAN]
           /\ Position' /\ Single' /\ WriteEnds' /\ ReadEnds' /\ Alive' /\ Forked'
<1> USE BoundsAssumption DEF IInv, End, Stages, run
<1>1. RunTypes' /\ Position'
  BY DEF RunTypes, Position, InRun, IsLast
<1>2. ProcTypes' /\ PipeTypes'
  BY DEF ProcTypes, PipeTypes, Holders
<1>3. input' \in [Stages -> 0..Pieces] /\ piece' \in [Stages -> BOOLEAN]
  <2> input \in [Stages -> 0..Pieces] /\ 0 \in 0..Pieces
    BY DEF DataTypes
  <2>1. input' \in [Stages -> 0..Pieces]
    BY Counts
  <2> QED BY <2>1 DEF DataTypes
<1>4. Single'
  BY DEF Single, ProcTypes, PipeTypes, InRun
<1>5. WriteEnds'
  BY DEF WriteEnds, PipeTypes, IsLast
<1>6. ReadEnds'
  BY DEF ReadEnds, PipeTypes, ProcTypes, InRun, IsLast
<1>7. Alive'
  BY DEF Alive, PipeTypes, ProcTypes
<1>8. Forked'
  <2>1. Processes' = Processes
    BY DEF Processes, ProcTypes
  <2> QED BY <2>1 DEF Forked
<1> QED BY <1>1, <1>2, <1>3, <1>4, <1>5, <1>6, <1>7, <1>8

\* Every step keeps the invariant.
LEMMA StepInv == IInv /\ [Next]_vars => IInv'
<1> SUFFICES ASSUME IInv, [Next]_vars PROVE IInv'
  OBVIOUS
<1> USE CommandsAssumption, BoundsAssumption
    DEF IInv, Stages, Holders, shell, run, pipes, work
<1>1. ASSUME ReadLine PROVE IInv'
  <2> USE <1>1 DEF ReadLine
  <2>1. RunTypes'
    BY TypedIs DEF RunTypes, Position, InRun, IsLast
  <2>2. Position'
    BY TypedIs DEF RunTypes, Position, InRun, IsLast
  <2>3. Single'
    BY TypedIs DEF Single, ProcTypes, PipeTypes, RunTypes, Position, InRun, IsLast, Forked,
       Processes
  <2>4. Forked'
    BY DEF Forked, Processes, ProcTypes, RunTypes, Position, InRun, IsLast
  <2>5. ProcTypes'
    BY DEF ProcTypes
  <2>6. PipeTypes' /\ DataTypes'
    BY DEF PipeTypes, DataTypes
  <2>7. WriteEnds'
    BY DEF WriteEnds, PipeTypes, RunTypes, Position, InRun, IsLast
  <2>8. ReadEnds'
    BY DEF ReadEnds, PipeTypes, ProcTypes, RunTypes, Position, InRun, IsLast
  <2>9. Alive'
    BY DEF Alive, PipeTypes, ProcTypes
  <2> QED BY <2>1, <2>2, <2>3, <2>4, <2>5, <2>6, <2>7, <2>8, <2>9
<1>2. ASSUME Exit PROVE IInv'
  <2> USE <1>2 DEF Exit
  <2>1. RunTypes'
    BY DEF RunTypes, Position, InRun, IsLast
  <2>2. ProcTypes'
    BY DEF ProcTypes
  <2>3. PipeTypes' /\ DataTypes'
    BY DEF PipeTypes, DataTypes
  <2>4. Position' /\ Single'
    BY DEF RunTypes, Position, InRun, IsLast, Single, ProcTypes, PipeTypes
  <2>5. WriteEnds'
    BY DEF WriteEnds, PipeTypes, RunTypes, Position, InRun, IsLast
  <2>6. ReadEnds'
    BY DEF ReadEnds, PipeTypes, ProcTypes, RunTypes, Position, InRun, IsLast
  <2>7. Alive' /\ Forked'
    BY DEF Alive, PipeTypes, ProcTypes, Forked, Processes, RunTypes, Position, InRun, IsLast
  <2> QED BY <2>1, <2>2, <2>3, <2>4, <2>5, <2>6, <2>7
\* In 02 the child will execute what was typed: the one command has words of its own.
<1>3. ASSUME Parse PROVE IInv'
  <2> USE <1>3 DEF Parse, Kept
  <2>1. RunTypes'
    BY DEF RunTypes, Position, InRun, IsLast
  <2>2. ProcTypes'
    BY DEF ProcTypes
  <2>3. Position'
    BY DEF RunTypes, Position, InRun, IsLast
  <2>4. Single'
    <3>1. CASE version = "02"
      <4>1. i = 1 /\ 1 \in Stages /\ Len(line) = 1
        BY <3>1, OneStage, BoundsAssumption DEF InRun
      <4>2. line[1].words > 0
        BY <3>1, <4>1 DEF Single, InRun
      <4>3. prog'[1] = line[1].prog
        BY <4>1, <4>2 DEF ProcTypes
      <4> QED BY <3>1, <4>1, <4>3 DEF Single, InRun
    <3>2. CASE version # "02"
      BY <3>2 DEF Single
    <3> QED BY <3>1, <3>2
  <2>5. PipeTypes' /\ DataTypes'
    BY DEF PipeTypes, DataTypes
  <2>6. WriteEnds'
    BY DEF WriteEnds, PipeTypes, RunTypes, Position, InRun, IsLast
  <2>7. ReadEnds'
    BY DEF ReadEnds, PipeTypes, ProcTypes, RunTypes, Position, InRun, IsLast
  <2>8. Alive' /\ Forked'
    BY DEF Alive, PipeTypes, ProcTypes, Forked, Processes, RunTypes, Position, InRun, IsLast
  <2> QED BY <2>1, <2>2, <2>3, <2>4, <2>5, <2>6, <2>7, <2>8
<1>4. ASSUME ParseBlank PROVE IInv'
  <2> USE <1>4 DEF ParseBlank
  <2>1. PipeTypes'
    BY DEF PipeTypes
  <2>2. Single'
    BY DEF Single, ProcTypes, PipeTypes, RunTypes, Position, InRun, IsLast
  <2>3. WriteEnds'
    BY DEF WriteEnds, PipeTypes, RunTypes, Position, InRun, IsLast
  <2>4. ReadEnds'
    BY DEF ReadEnds, PipeTypes, ProcTypes, RunTypes, Position, InRun, IsLast
  <2>5. Forked'
    BY DEF Forked, Processes, ProcTypes, RunTypes, Position, InRun, IsLast, Single
  <2>6. RunTypes' /\ ProcTypes'
    BY DEF RunTypes, Position, InRun, IsLast, ProcTypes
  <2>7. DataTypes'
    BY DEF DataTypes
  <2>8. Position'
    BY DEF RunTypes, Position, InRun, IsLast
  <2>9. Alive'
    BY DEF Alive, PipeTypes, ProcTypes
  <2> QED BY <2>1, <2>2, <2>3, <2>4, <2>5, <2>6, <2>7, <2>8, <2>9
\* There is no pipe in 02, as its one command is the last.
<1>5. ASSUME Pipe PROVE IInv'
  <2> USE <1>5 DEF Pipe
  <2>1. PipeTypes'
    BY DEF PipeTypes
  <2>2. DataTypes'
    <3>1. i \in Stages /\ 0 \in 0..Room /\ data \in [Stages -> 0..Room]
      BY DEF RunTypes, DataTypes
    <3>2. data' \in [Stages -> 0..Room]
      BY <3>1 DEF Pipe
    <3> QED BY <3>1, <3>2 DEF DataTypes
  <2>3. Single'
    <3>1. version # "02"
      BY OneStage DEF Position, InRun
    <3> QED BY <3>1 DEF Single
  <2>4. WriteEnds'
    BY DEF WriteEnds, PipeTypes, RunTypes, Position, InRun, IsLast
  <2>5. ReadEnds'
    BY DEF ReadEnds, PipeTypes, ProcTypes, RunTypes, Position, InRun, IsLast
  <2>6. Alive'
    BY DEF Alive, PipeTypes, ProcTypes
  <2>7. RunTypes' /\ ProcTypes'
    BY DEF RunTypes, Position, InRun, IsLast, ProcTypes
  <2>8. Position'
    BY DEF RunTypes, Position, InRun, IsLast
  <2>9. Forked'
    BY DEF Forked, Processes, ProcTypes, RunTypes, Position, InRun, IsLast
  <2> QED BY <2>1, <2>2, <2>3, <2>4, <2>5, <2>6, <2>7, <2>8, <2>9
\* The child has the ends that the shell has: those of the pipes i and prev.
<1>6. ASSUME Fork PROVE IInv'
  <2> USE <1>6 DEF Fork
  <2>1. ProcTypes'
    BY DEF ProcTypes
  <2>2. PipeTypes'
    <3>1. i \in Stages
      BY DEF RunTypes
    <3>2. \A k \in Stages : rd[k] \in SUBSET Holders /\ wr[k] \in SUBSET Holders
      BY DEF PipeTypes
    <3> QED BY <3>1, <3>2 DEF PipeTypes
  <2>3. Single'
    <3>1. CASE version = "02"
      <4>1. Len(line) = 1 /\ i = 1
        BY <3>1, OneStage DEF InRun
      <4>2. \A k \in Stages : rd'[k] = {} /\ wr'[k] = {}
        BY <3>1 DEF Single
      <4>3. \A k \in Stages : proc'[k] # "none" => k = 1
        BY <3>1, <4>1 DEF Single, ProcTypes
      <4> QED BY <3>1, <4>1, <4>2, <4>3 DEF Single, InRun
    <3>2. CASE version # "02"
      BY <3>2 DEF Single
    <3> QED BY <3>1, <3>2
  <2>4. WriteEnds'
    BY DEF WriteEnds, PipeTypes, RunTypes, Position, InRun, IsLast
  <2>5. ReadEnds'
    <3>1. i \in Stages /\ prev = i - 1 /\ i <= Len(line)
      BY DEF RunTypes, Position, InRun
    <3>2. \A k \in Stages : shell \in rd[k] => k \in {i, i - 1}
      BY <3>1 DEF ReadEnds
    <3>3. ASSUME NEW k \in Stages
          PROVE  /\ rd'[k] \subseteq {shell, k, k + 1}
                 /\ shell \in rd'[k] => shell \in rd[k]
                 /\ k \in rd'[k] => proc'[k] = "child"
      <4>1. CASE UNCHANGED <<proc, rd, wr>>
        BY <4>1 DEF ReadEnds
      <4>2. CASE proc' = [proc EXCEPT ![i] = "child"]
                 /\ rd' = [m \in Stages |-> IF shell \in rd[m] THEN rd[m] \cup {i} ELSE rd[m]]
        BY <3>1, <3>2, <4>2 DEF ReadEnds, ProcTypes
      <4> QED BY <4>1, <4>2
    <3> QED BY <3>3 DEF ReadEnds, InRun, IsLast
  <2>6. Alive'
    <3>1. CASE UNCHANGED <<proc, rd, wr>>
      BY <3>1 DEF Alive
    <3>2. CASE /\ proc' = [proc EXCEPT ![i] = "child"]
               /\ rd' = [m \in Stages |-> IF shell \in rd[m] THEN rd[m] \cup {i} ELSE rd[m]]
               /\ wr' = [m \in Stages |-> IF shell \in wr[m] THEN wr[m] \cup {i} ELSE wr[m]]
      <4>1. ASSUME NEW j \in Stages, NEW k \in Stages, k \in rd'[j] \cup wr'[j]
            PROVE  k = i \/ k \in rd[j] \cup wr[j]
        BY <3>2, <4>1
      <4>2. proc'[i] = "child" /\ \A k \in Stages : k # i => proc'[k] = proc[k]
        BY <3>2 DEF ProcTypes, RunTypes
      <4> QED BY <4>1, <4>2 DEF Alive
    <3> QED BY <3>1, <3>2
  <2>7. Forked'
    BY DEF Forked, Processes, ProcTypes, RunTypes, Position, InRun, IsLast
  <2>8. RunTypes'
    BY DEF RunTypes, Position, InRun, IsLast
  <2>9. DataTypes'
    BY DEF DataTypes
  <2>10. Position'
    BY DEF RunTypes, Position, InRun, IsLast
  <2> QED BY <2>1, <2>2, <2>3, <2>4, <2>5, <2>6, <2>7, <2>8, <2>9, <2>10
\* After the last command the processes are at most the commands of the line, which is what
\* wait() is then called for.
<1>7. ASSUME Close PROVE IInv'
  <2> USE <1>7 DEF Close, WriteEndClosed
  <2>1. RunTypes'
    BY DEF RunTypes, Position, InRun, IsLast
  <2>2. PipeTypes'
    BY DEF PipeTypes
  <2>3. Position'
    <3>1. i \in Nat /\ Len(line) \in Nat /\ i <= Len(line)
      BY DEF RunTypes, Position, InRun
    <3>2. slot > 0
      BY DEF Position, InRun
    <3>3. CASE IsLast(i)
      BY <3>1, <3>3 DEF Position, InRun, IsLast
    <3>4. CASE ~IsLast(i)
      BY <3>1, <3>2, <3>4 DEF Position, InRun, IsLast
    <3> QED BY <3>3, <3>4
  <2>4. Single'
    BY DEF Single, ProcTypes, PipeTypes, RunTypes, Position, InRun, IsLast
  <2>5. WriteEnds'
    BY DEF WriteEnds, PipeTypes, RunTypes, Position, InRun, IsLast
  <2>6. ReadEnds'
    BY DEF ReadEnds, PipeTypes, ProcTypes, RunTypes, Position, InRun, IsLast
  <2>7. Forked'
    <3>1. CASE IsLast(i)
      <4>1. Processes \in SUBSET (1..Len(line)) /\ Len(line) \in Nat
        BY <3>1 DEF Forked, IsLast, RunTypes
      <4>2. IsFiniteSet(1..Len(line)) /\ Cardinality(1..Len(line)) = Len(line)
        BY <4>1, UpTo
      <4>3. Cardinality(Processes) <= Len(line)
        BY <4>1, <4>2, FS_Subset
      <4> QED BY <3>1, <4>3 DEF Forked, Processes
    <3>2. CASE ~IsLast(i)
      BY <3>2 DEF Forked, Processes, RunTypes
    <3> QED BY <3>1, <3>2
  <2>8. ProcTypes'
    BY DEF ProcTypes
  <2>9. DataTypes'
    BY DEF DataTypes
  <2>10. Alive'
    BY DEF Alive, PipeTypes, ProcTypes
  <2> QED BY <2>1, <2>2, <2>3, <2>4, <2>5, <2>6, <2>7, <2>8, <2>9, <2>10
\* Every call takes one process away, or there is none.
<1>8. ASSUME Wait PROVE IInv'
  <2> USE <1>8 DEF Wait
  <2>1. RunTypes'
    BY DEF RunTypes, Position, InRun, IsLast
  <2>2. ProcTypes'
    BY DEF ProcTypes
  <2>3. Single'
    <3>1. ASSUME NEW k \in Stages, proc'[k] # "none" PROVE proc[k] # "none" /\ proc'[k] = proc[k]
      BY <3>1 DEF ProcTypes
    <3> QED BY <3>1, BoundsAssumption DEF Single, InRun
  <2>4. ReadEnds'
    BY DEF ReadEnds, PipeTypes, ProcTypes, RunTypes, Position, InRun, IsLast
  <2>5. Alive'
    BY DEF Alive, PipeTypes, ProcTypes
  <2>6. Forked'
    <3>1. CASE UNCHANGED proc /\ Processes = {}
      <4>1. Processes' = {} /\ Cardinality({}) = 0
        BY <3>1, FS_EmptySet DEF Processes
      <4> QED BY <4>1 DEF Forked, RunTypes
    <3>2. ASSUME NEW j \in Stages, proc[j] = "zombie", proc' = [proc EXCEPT ![j] = "none"]
          PROVE  Forked'
      <4>1. j \in Processes /\ Processes' = Processes \ {j}
        BY <3>2 DEF Processes, ProcTypes
      <4>2. Cardinality(Processes') = Cardinality(Processes) - 1
        BY <4>1, ProcessesFinite, FS_RemoveElement
      <4> QED BY <4>2, ProcessesFinite DEF Forked, RunTypes
    <3> QED BY <3>1, <3>2 DEF Processes
  <2>7. PipeTypes' /\ DataTypes'
    BY DEF PipeTypes, DataTypes
  <2>8. Position'
    BY DEF RunTypes, Position, InRun, IsLast
  <2>9. WriteEnds'
    BY DEF WriteEnds, PipeTypes, RunTypes, Position, InRun, IsLast
  <2> QED BY <2>1, <2>2, <2>3, <2>4, <2>5, <2>6, <2>7, <2>8, <2>9
\* No more calls, so no more processes.
<1>9. ASSUME Waited PROVE IInv'
  <2> USE <1>9 DEF Waited
  <2>1. Forked'
    <3>1. Cardinality(Processes) = 0
      BY ProcessesFinite DEF Forked
    <3>2. Processes = {}
      BY <3>1, ProcessesFinite, FS_EmptySet
    <3> QED BY <3>2 DEF Forked, Processes
  <2>2. RunTypes' /\ ProcTypes'
    BY DEF RunTypes, Position, InRun, IsLast, ProcTypes
  <2>3. PipeTypes' /\ DataTypes'
    BY DEF PipeTypes, DataTypes
  <2>4. Position' /\ Single'
    BY DEF RunTypes, Position, InRun, IsLast, Single, ProcTypes, PipeTypes
  <2>5. WriteEnds'
    BY DEF WriteEnds, PipeTypes, RunTypes, Position, InRun, IsLast
  <2>6. ReadEnds'
    BY DEF ReadEnds, PipeTypes, ProcTypes, RunTypes, Position, InRun, IsLast
  <2>7. Alive'
    BY DEF Alive, PipeTypes, ProcTypes
  <2> QED BY <2>1, <2>2, <2>3, <2>4, <2>5, <2>6, <2>7
\* What the program keeps open are the pipes to its neighbours.
<1>10. ASSUME NEW j \in Stages, Exec(j) PROVE IInv'
  <2> USE <1>10 DEF Exec
  <2>1. ProcTypes'
    BY DEF ProcTypes
  <2>2. PipeTypes'
    BY DEF PipeTypes
  <2>3. DataTypes'
    BY DEF DataTypes
  <2>4. Single'
    BY DEF Single, ProcTypes, PipeTypes, RunTypes, Position, InRun, IsLast
  <2>5. ReadEnds'
    BY DEF ReadEnds, PipeTypes, ProcTypes, RunTypes, Position, InRun, IsLast
  <2>6. Alive'
    BY DEF Alive, PipeTypes, ProcTypes
  <2>7. Forked'
    BY DEF Forked, Processes, ProcTypes, RunTypes, Position, InRun, IsLast
  <2>8. RunTypes'
    BY DEF RunTypes, Position, InRun, IsLast
  <2>9. Position'
    BY DEF RunTypes, Position, InRun, IsLast
  <2>10. WriteEnds'
    BY DEF WriteEnds, PipeTypes, RunTypes, Position, InRun, IsLast
  <2> QED BY <2>1, <2>2, <2>3, <2>4, <2>5, <2>6, <2>7, <2>8, <2>9, <2>10
<1>11. ASSUME NEW j \in Stages, NoExec(j) PROVE IInv'
  <2> USE <1>11 DEF NoExec
  <2>1. RunTypes' /\ ProcTypes' /\ PipeTypes' /\ Position' /\ Single' /\ WriteEnds' /\
     ReadEnds' /\ Alive' /\ Forked' /\ input' \in [Stages -> 0..Pieces]
     /\ piece' \in [Stages -> BOOLEAN]
    BY EndKeeps
  <2> QED BY <2>1 DEF DataTypes
\* In 02 only the child of a missing program comes here, for which ReadLine has left a level.
<1>12. ASSUME NEW j \in Stages, Nested(j) PROVE IInv'
  <2> USE <1>12 DEF Nested
  <2>1. RunTypes'
    <3>1. j = 1 /\ line[1].prog = "missing"
      BY DEF Single
    <3>2. depth < MaxDepth
      BY <3>1 DEF Single
    <3> QED BY <3>2 DEF RunTypes
  <2>2. ProcTypes'
    BY DEF ProcTypes
  <2>3. Single'
    BY DEF Single, ProcTypes, PipeTypes, RunTypes, Position, InRun, IsLast
  <2>4. ReadEnds'
    BY DEF ReadEnds, PipeTypes, ProcTypes, RunTypes, Position, InRun, IsLast, Single
  <2>5. Alive'
    BY DEF Alive, PipeTypes, ProcTypes, Single
  <2>6. Forked'
    BY DEF Forked, Processes, ProcTypes, RunTypes, Position, InRun, IsLast, Single
  <2>7. PipeTypes' /\ DataTypes'
    BY DEF PipeTypes, DataTypes
  <2>8. Position'
    BY DEF RunTypes, Position, InRun, IsLast
  <2>9. WriteEnds'
    BY DEF WriteEnds, PipeTypes, RunTypes, Position, InRun, IsLast
  <2> QED BY <2>1, <2>2, <2>3, <2>4, <2>5, <2>6, <2>7, <2>8, <2>9
<1>13. ASSUME NEW j \in Stages, Read(j) PROVE IInv'
  <2> USE <1>13 DEF Read
  <2>1. DataTypes'
    <3> data \in [Stages -> 0..Room] /\ input \in [Stages -> 0..Pieces]
      BY DEF DataTypes
    <3>1. data' \in [Stages -> 0..Room] /\ input' \in [Stages -> 0..Pieces]
      <4>1. CASE FromPipe(j) /\ data[j - 1] > 0
                 /\ data' = [data EXCEPT ![j - 1] = data[j - 1] - 1] /\ UNCHANGED input
        <5>1. j - 1 \in Stages
          BY <4>1 DEF FromPipe
        <5>2. data[j - 1] - 1 \in 0..Room
          BY <4>1, <5>1
        <5> QED BY <4>1, <5>1, <5>2, Counts
      <4>2. CASE input[j] > 0 /\ input' = [input EXCEPT ![j] = input[j] - 1] /\ UNCHANGED data
        <5>1. input[j] - 1 \in 0..Pieces
          BY <4>2
        <5> QED BY <4>2, <5>1, Counts
      <4> QED BY <4>1, <4>2
    <3>2. piece' \in [Stages -> BOOLEAN]
      BY DEF DataTypes
    <3> QED BY <3>1, <3>2 DEF DataTypes
  <2>2. RunTypes' /\ ProcTypes'
    BY DEF RunTypes, Position, InRun, IsLast, ProcTypes
  <2>3. PipeTypes'
    BY DEF PipeTypes
  <2>4. Position' /\ Single'
    BY DEF RunTypes, Position, InRun, IsLast, Single, ProcTypes, PipeTypes
  <2>5. WriteEnds'
    BY DEF WriteEnds, PipeTypes, RunTypes, Position, InRun, IsLast
  <2>6. ReadEnds'
    BY DEF ReadEnds, PipeTypes, ProcTypes, RunTypes, Position, InRun, IsLast
  <2>7. Alive' /\ Forked'
    BY DEF Alive, PipeTypes, ProcTypes, Forked, Processes, RunTypes, Position, InRun, IsLast
  <2> QED BY <2>1, <2>2, <2>3, <2>4, <2>5, <2>6, <2>7
<1>14. ASSUME NEW j \in Stages, EndOfInput(j) PROVE IInv'
  <2> USE <1>14 DEF EndOfInput
  <2>1. RunTypes' /\ ProcTypes' /\ PipeTypes' /\ Position' /\ Single' /\ WriteEnds' /\
     ReadEnds' /\ Alive' /\ Forked' /\ input' \in [Stages -> 0..Pieces]
     /\ piece' \in [Stages -> BOOLEAN]
    BY EndKeeps
  <2> QED BY <2>1 DEF DataTypes
<1>15. ASSUME NEW j \in Stages, Write(j) PROVE IInv'
  <2> USE <1>15 DEF Write
  <2>1. data' \in [Stages -> 0..Room]
    <3> data \in [Stages -> 0..Room] /\ Room \in Nat
      BY DEF DataTypes
    <3>1. CASE data' = [data EXCEPT ![j] = data[j] + 1] /\ data[j] < Room
      <4>1. data[j] + 1 \in 0..Room
        BY <3>1
      <4> QED BY <3>1, <4>1, Counts
    <3>2. CASE UNCHANGED data
      BY <3>2
    <3> QED BY <3>1, <3>2
  <2>2. CASE prog[j] = "head"
    <3>1. RunTypes' /\ ProcTypes' /\ PipeTypes' /\ Position' /\ Single' /\ WriteEnds' /\
       ReadEnds' /\ Alive' /\ Forked' /\ input' \in [Stages -> 0..Pieces]
       /\ piece' \in [Stages -> BOOLEAN]
      BY <2>2, EndKeeps
    <3> QED BY <2>1, <3>1 DEF DataTypes
  <2>3. CASE prog[j] # "head"
    <3>1. DataTypes'
      BY <2>1, <2>3 DEF DataTypes
    <3>2. RunTypes' /\ ProcTypes' /\ PipeTypes'
      BY <2>3 DEF RunTypes, ProcTypes, PipeTypes
    <3>3. Position' /\ Single'
      BY <2>3 DEF Position, Single, InRun, IsLast
    <3>4. WriteEnds' /\ ReadEnds'
      BY <2>3 DEF WriteEnds, ReadEnds, InRun, IsLast
    <3>5. Alive' /\ Forked'
      BY <2>3 DEF Alive, Forked, Processes
    <3> QED BY <3>1, <3>2, <3>3, <3>4, <3>5
  <2> QED BY <2>2, <2>3
<1>16. ASSUME NEW j \in Stages, NobodyReads(j) PROVE IInv'
  <2> USE <1>16 DEF NobodyReads
  <2>1. RunTypes' /\ ProcTypes' /\ PipeTypes' /\ Position' /\ Single' /\ WriteEnds' /\
     ReadEnds' /\ Alive' /\ Forked' /\ input' \in [Stages -> 0..Pieces]
     /\ piece' \in [Stages -> BOOLEAN]
    BY EndKeeps
  <2> QED BY <2>1 DEF DataTypes
<1>17. CASE UNCHANGED vars
  <2> USE <1>17 DEF vars
  <2>1. RunTypes' /\ ProcTypes' /\ PipeTypes' /\ DataTypes'
    BY DEF RunTypes, ProcTypes, PipeTypes, DataTypes
  <2>2. Position' /\ Single' /\ WriteEnds' /\ ReadEnds' /\ Alive'
    BY DEF Position, Single, WriteEnds, ReadEnds, Alive, InRun, IsLast
  <2>3. Forked'
    BY DEF Forked, Processes
  <2> QED BY <2>1, <2>2, <2>3
<1> QED BY <1>1, <1>2, <1>3, <1>4, <1>5, <1>6, <1>7, <1>8, <1>9, <1>10, <1>11, <1>12, <1>13,
   <1>14, <1>15, <1>16, <1>17 DEF Next, Run, Stage

\* The invariant holds in every state.
THEOREM Invariant == Spec => []IInv
<1> QED BY InitInv, StepInv, PTL DEF Spec

\* 04, lines of any length: no command keeps a pipe open that is not its own, whichever forks
\* and execs have failed; so each can see the end of its input.
THEOREM OnlyNeighboursHold == Spec => []EndsHeld
<1>1. IInv => EndsHeld
  BY DEF IInv, EndsHeld, TypeOK, RunTypes, ProcTypes, PipeTypes, DataTypes, WriteEnds, ReadEnds,
     Position, InRun
<1> QED BY <1>1, Invariant, PTL

\* 02 and 04: the shell waits as often as it has children, and has closed every end of every
\* pipe itself, when it prompts again.
THEOREM PromptIsClean == Spec => []NothingLeft
<1>1. IInv => NothingLeft
  BY DEF IInv, NothingLeft, Forked, Processes, WriteEnds, ReadEnds, Alive, InRun,
     PipeTypes, Holders
<1> QED BY <1>1, Invariant, PTL
=============================================================================
