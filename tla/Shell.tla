------------------------------- MODULE Shell -------------------------------
(***************************************************************************)
(* 04, a shell with pipelines, and 02, a shell for single commands.  The   *)
(* shell of 04 forks one child per command of a line, connects neighbours  *)
(* with pipes, closes what it does not need and waits as many times as the *)
(* line has commands.  In 02 a child whose execvp() fails returns from     *)
(* run() and goes on as a shell of its own, for which the first one waits. *)
(*                                                                         *)
(* Abstraction: a command is the number of its words, its redirections     *)
(* and what the program does: "copy" copies its input until it ends,       *)
(* "head" ends after one piece, "missing" is not found.  Data are counted  *)
(* in pieces.                                                              *)
(***************************************************************************)
EXTENDS Naturals, Sequences, SequencesExt

CONSTANTS
    Commands,   \* what may stand between two |
    MaxStages,  \* bound: the commands of a line
    Pieces,     \* bound: the pieces of input from a file or a terminal
    Room,       \* the pieces that a pipe has room for
    MaxDepth    \* bound: the shells of 02, one in the other

Progs == {"copy", "head", "missing"}
ASSUME CommandsAssumption ==
    Commands \subseteq [words : Nat, in : BOOLEAN, out : BOOLEAN, prog : Progs]
ASSUME BoundsAssumption ==
    MaxStages \in Nat \ {0} /\ Pieces \in Nat /\ Room \in Nat \ {0} /\ MaxDepth \in Nat \ {0}

shell == 0                  \* the shell, as a holder of descriptors
Stages == 1..MaxStages      \* the other holders; the pipe j is between j and j + 1
Holders == {shell} \cup Stages

VARIABLES
    version,        \* "02" or "04"
    pc,             \* of the shell that reads
    depth,          \* how many shells there are, each waiting for the next
    line, i,        \* the commands, and the one that run() is at
    prev,           \* the pipe of prev_pipefd, 0 for -1
    slot,           \* words in the memory of argv, which is never cleared
    left,           \* calls of wait() still to come
    proc,           \* the state of each stage's process
    prog,           \* what it executes
    rd, wr,         \* who has the ends of each pipe open
    data,           \* pieces in each pipe
    input,          \* pieces to come from a file or the terminal
    piece           \* a stage has read a piece and not yet written it

run == <<line, i, prev, slot, left>>
pipes == <<rd, wr, data>>
work == <<input, piece>>
vars == <<version, pc, depth, run, proc, prog, pipes, work>>

Init ==
    /\ version \in {"02", "04"}
    /\ pc = "prompt" /\ depth = 1
    /\ line = <<>> /\ i = 1 /\ prev = 0 /\ slot = 0 /\ left = 0
    /\ proc = [j \in Stages |-> "none"]
    /\ prog = [j \in Stages |-> "missing"]
    /\ rd = [j \in Stages |-> {}] /\ wr = [j \in Stages |-> {}]
    /\ data = [j \in Stages |-> 0]
    /\ input = [j \in Stages |-> 0]
    /\ piece = [j \in Stages |-> FALSE]

IsLast(j) == j = Len(line)
-----------------------------------------------------------------------------
(* main() and run(). *)

\* What can be typed: in 02 one command, where < and > are words like any other.
Typed ==
    IF version = "04" THEN SeqOf(Commands, MaxStages) \ {<<>>}
    ELSE {<<c>> : c \in {d \in Commands : ~d.in /\ ~d.out}}

ReadLine ==
    /\ pc = "prompt"
    /\ line' \in Typed
    /\ version = "02" /\ line'[1].prog = "missing" => depth < MaxDepth
    /\ i' = 1 /\ prev' = 0 /\ left' = 0
    /\ pc' = "parse"
    /\ UNCHANGED <<version, depth, slot, proc, prog, pipes, work>>

\* exit, or the end of the input: in 02 the shell outside comes back from wait().
Exit ==
    /\ pc = "prompt"
    /\ IF depth > 1 THEN depth' = depth - 1 /\ UNCHANGED pc
                    ELSE pc' = "gone" /\ UNCHANGED depth
    /\ UNCHANGED <<version, run, proc, prog, pipes, work>>

Cleared(words) == words
Kept(words) == IF words > slot THEN words ELSE slot

\* parse_command() leaves in argv what earlier commands have left there behind the words
\* of this one; so it finds no command only when there was none before.
Parse ==
    /\ pc = "parse"
    /\ LET c == line[i] IN
       /\ c.words > 0 \/ c.in \/ c.out
       /\ slot' = Kept(c.words)
       /\ pc' = IF slot' = 0 THEN "prompt" ELSE IF IsLast(i) THEN "fork" ELSE "pipe"
       \* Without words it is a program of an earlier command.
       /\ \E p \in Progs :
             /\ c.words > 0 => p = c.prog
             /\ prog' = [prog EXCEPT ![i] = p]
    /\ UNCHANGED <<version, depth, line, i, prev, left, proc, pipes, work>>

\* Nothing but spaces, or a < or > without a name: strcmp() or strcpy() with a null pointer in
\* 04, no command in 02.
ParseBlank ==
    /\ pc = "parse"
    /\ \/ line[i].words = 0 /\ ~line[i].in /\ ~line[i].out
       \/ version = "04" /\ (line[i].in \/ line[i].out)
    /\ pc' = IF version = "02" THEN "prompt" ELSE "gone"
    /\ rd' = [j \in Stages |-> rd[j] \ {shell}]
    /\ wr' = [j \in Stages |-> wr[j] \ {shell}]
    /\ UNCHANGED <<version, depth, run, proc, prog, data, work>>

Pipe ==
    /\ pc = "pipe"
    /\ rd' = [rd EXCEPT ![i] = {shell}]
    /\ wr' = [wr EXCEPT ![i] = {shell}]
    /\ data' = [data EXCEPT ![i] = 0]
    /\ pc' = "fork"
    /\ UNCHANGED <<version, depth, run, proc, prog, work>>

\* The child has everything open that the shell has; without a child the shell goes on.
Fork ==
    /\ pc = "fork"
    /\ pc' = "close"
    /\ \/ /\ proc' = [proc EXCEPT ![i] = "child"]
          /\ rd' = [j \in Stages |-> IF shell \in rd[j] THEN rd[j] \cup {i} ELSE rd[j]]
          /\ wr' = [j \in Stages |-> IF shell \in wr[j] THEN wr[j] \cup {i} ELSE wr[j]]
       \/ UNCHANGED <<proc, rd, wr>>
    /\ UNCHANGED <<version, depth, run, prog, data, work>>

\* close(prev_pipefd) and close(pipefd[1])
WriteEndKept(j) == wr[j]
WriteEndClosed(j) == wr[j] \ {shell}

Close ==
    /\ pc = "close"
    /\ rd' = [j \in Stages |-> IF j = prev THEN rd[j] \ {shell} ELSE rd[j]]
    /\ wr' = [j \in Stages |-> IF j = i THEN WriteEndClosed(j) ELSE wr[j]]
    /\ IF IsLast(i)
       THEN pc' = "wait" /\ left' = Len(line) /\ UNCHANGED <<i, prev>>
       ELSE pc' = "parse" /\ i' = i + 1 /\ prev' = i /\ UNCHANGED left
    /\ UNCHANGED <<version, depth, line, slot, proc, prog, data, work>>

\* wait() returns one child that has ended, or at once when there is no child at all.
Wait ==
    /\ pc = "wait" /\ left > 0
    /\ \/ \E j \in Stages : proc[j] = "zombie" /\ proc' = [proc EXCEPT ![j] = "none"]
       \/ (\A j \in Stages : proc[j] = "none") /\ UNCHANGED proc
    /\ left' = left - 1
    /\ UNCHANGED <<version, pc, depth, line, i, prev, slot, prog, pipes, work>>

Waited ==
    /\ pc = "wait" /\ left = 0
    /\ pc' = "prompt"
    /\ UNCHANGED <<version, depth, run, proc, prog, pipes, work>>
-----------------------------------------------------------------------------
(* A child: execute_command() and the program. *)

\* The process is gone with its descriptors.
End(j) ==
    /\ proc' = [proc EXCEPT ![j] = "zombie"]
    /\ rd' = [k \in Stages |-> rd[k] \ {j}]
    /\ wr' = [k \in Stages |-> wr[k] \ {j}]
    /\ piece' = [piece EXCEPT ![j] = FALSE]
    /\ input' = [input EXCEPT ![j] = 0]

FromPipe(j) == j > 1 /\ ~line[j].in
ToPipe(j) == ~IsLast(j) /\ ~line[j].out

\* dup2(), close() and execvp(): only standard input and output stay open.
Exec(j) ==
    /\ proc[j] = "child"
    /\ prog[j] # "missing"
    /\ proc' = [proc EXCEPT ![j] = "running"]
    /\ rd' = [k \in Stages |-> IF FromPipe(j) /\ k = j - 1 THEN rd[k] ELSE rd[k] \ {j}]
    /\ wr' = [k \in Stages |-> IF ToPipe(j) /\ k = j THEN wr[k] ELSE wr[k] \ {j}]
    /\ input' = [input EXCEPT ![j] = IF FromPipe(j) THEN 0 ELSE Pieces]
    /\ UNCHANGED <<version, pc, depth, run, prog, data, piece>>

\* A redirection that cannot be opened, or a program that is not found
NoExec(j) ==
    /\ proc[j] = "child"
    /\ prog[j] = "missing" \/ line[j].in \/ line[j].out
    /\ version = "04"
    /\ End(j)
    /\ UNCHANGED <<version, pc, depth, run, prog, data>>

\* In 02 the child returns from run() instead and prompts.
Nested(j) ==
    /\ proc[j] = "child" /\ prog[j] = "missing"
    /\ version = "02" /\ pc = "wait"
    /\ proc' = [proc EXCEPT ![j] = "none"]
    /\ depth' = depth + 1
    /\ pc' = "prompt"
    /\ UNCHANGED <<version, run, prog, pipes, work>>

Read(j) ==
    /\ proc[j] = "running" /\ ~piece[j]
    /\ \/ /\ FromPipe(j) /\ data[j - 1] > 0
          /\ data' = [data EXCEPT ![j - 1] = @ - 1]
          /\ UNCHANGED input
       \/ /\ input[j] > 0
          /\ input' = [input EXCEPT ![j] = @ - 1]
          /\ UNCHANGED data
    /\ piece' = [piece EXCEPT ![j] = TRUE]
    /\ UNCHANGED <<version, pc, depth, run, proc, prog, rd, wr>>

\* The end of the input: nobody has the write end of the pipe any more.
EndOfInput(j) ==
    /\ proc[j] = "running" /\ ~piece[j]
    /\ IF FromPipe(j) THEN data[j - 1] = 0 /\ wr[j - 1] = {} ELSE input[j] = 0
    /\ End(j)
    /\ UNCHANGED <<version, pc, depth, run, prog, data>>

Write(j) ==
    /\ proc[j] = "running" /\ piece[j]
    /\ ToPipe(j) => rd[j] # {} /\ data[j] < Room
    /\ data' = IF ToPipe(j) THEN [data EXCEPT ![j] = @ + 1] ELSE data
    /\ IF prog[j] = "head"
       THEN End(j)
       ELSE piece' = [piece EXCEPT ![j] = FALSE] /\ UNCHANGED <<proc, rd, wr, input>>
    /\ UNCHANGED <<version, pc, depth, run, prog>>

\* SIGPIPE: nobody has the read end any more.
NobodyReads(j) ==
    /\ proc[j] = "running" /\ piece[j]
    /\ ToPipe(j) /\ rd[j] = {}
    /\ End(j)
    /\ UNCHANGED <<version, pc, depth, run, prog, data>>

Stage(j) ==
    \/ Exec(j) \/ NoExec(j) \/ Nested(j)
    \/ Read(j) \/ EndOfInput(j) \/ Write(j) \/ NobodyReads(j)

Run == Parse \/ ParseBlank \/ Pipe \/ Fork \/ Close \/ Wait \/ Waited

Next == ReadLine \/ Exit \/ Run \/ \E j \in Stages : Stage(j)

Spec == Init /\ [][Next]_vars

\* The shell and the programs run; nobody has to type a line.
FairSpec == Spec /\ WF_vars(Run) /\ \A j \in Stages : WF_vars(Stage(j))
-----------------------------------------------------------------------------
TypeOK ==
    /\ version \in {"02", "04"}
    /\ pc \in {"prompt", "parse", "pipe", "fork", "close", "wait", "gone"}
    /\ depth \in 1..MaxDepth
    /\ line \in Seq(Commands) /\ Len(line) <= MaxStages
    /\ i \in 1..MaxStages /\ prev \in 0..MaxStages /\ slot \in Nat /\ left \in 0..MaxStages
    /\ proc \in [Stages -> {"none", "child", "running", "zombie"}]
    /\ prog \in [Stages -> Progs]
    /\ rd \in [Stages -> SUBSET Holders] /\ wr \in [Stages -> SUBSET Holders]
    /\ data \in [Stages -> 0..Room] /\ input \in [Stages -> 0..Pieces]
    /\ piece \in [Stages -> BOOLEAN]

\* The ends of a pipe are held by its neighbours and, while it has them to hand on, by the shell:
\* no later command keeps an earlier one's pipe open (04/main.c:65-75, 144-151).
EndsHeld ==
    /\ TypeOK
    /\ \A j \in Stages :
          /\ wr[j] \subseteq {shell, j} /\ rd[j] \subseteq {shell, j, j + 1}
          /\ shell \in wr[j] => j = i /\ pc \in {"fork", "close"}
          /\ shell \in rd[j] => j = i \/ (j = prev /\ j + 1 = i)
          /\ j \in rd[j] => proc[j] = "child"

\* When the shell prompts, no process of an earlier line is left, not even as a zombie, and no
\* descriptor of one (04/main.c:118-156); run() never returns in the middle of a line, as the words
\* of earlier commands stand in for a missing one.
NothingLeft ==
    pc = "prompt" => \A j \in Stages : proc[j] = "none" /\ rd[j] = {} /\ wr[j] = {}

\* Every command sees the end of its input or the end of its reader, so that the shell comes back
\* from its waits (04/main.c:154-156), whichever of its forks and execs have failed.
BackToPrompt == pc # "prompt" ~> pc \in {"prompt", "gone"}
=============================================================================
