----------------------------- MODULE ForkServer -----------------------------
(***************************************************************************)
(* 13/server.c: a TCP server that forks a child for every connection.      *)
(* What parent and children share is a semaphore and the files of          *)
(* storage/; nclients, which the semaphore is meant to protect, is a       *)
(* variable of each process.  Children are never waited for.               *)
(*                                                                         *)
(* Abstraction: the dialogue about two numbers is its outcome, an upload   *)
(* is the file it goes to and its end.  A child is its pid, a connection   *)
(* the order of its arrival.                                               *)
(***************************************************************************)
EXTENDS Naturals, FiniteSets

CONSTANTS
    Pids,       \* bound: the processes that can be forked
    Names       \* the names of files that are uploaded

server == "server"
ASSUME PidsAssumption == server \notin Pids

Procs == Pids \cup {server}
Files == Pids \X Names          \* storage/<pid>-<name>

VARIABLES
    pc,             \* of each process; "none": there is no such process
    sem,            \* nclients_sem
    nclients,       \* the copy of each process
    sockets,        \* the connections that each process has open
    listening,      \* the processes that have the listening socket open
    files,          \* what is in storage/
    upload,         \* the file that each child writes
    \* History:
    arrived,        \* connections accepted
    arrival,        \* the arrival that each child serves
    old,            \* files of earlier servers
    written,        \* the processes that have written each file
    stuck           \* a process was killed with the semaphore taken

vars == <<pc, sem, nclients, sockets, listening, files, upload, arrived, arrival, old, written, stuck>>

Init ==
    /\ pc = [p \in Procs |-> IF p = server THEN "accept" ELSE "none"]
    /\ sem = 1
    /\ nclients = [p \in Procs |-> 0]
    /\ sockets = [p \in Procs |-> {}]
    /\ listening = {server}
    /\ old \in SUBSET Files /\ files = old
    /\ upload = [p \in Procs |-> {}]
    /\ arrived = 0
    /\ arrival = [p \in Procs |-> 0]
    /\ written = [f \in Files |-> {}]
    /\ stuck = FALSE

Goto(p, l) == pc' = [pc EXCEPT ![p] = l]

\* The pids that the kernel may give away: a zombie keeps its pid.
Unused == {p \in Pids : pc[p] = "none"}
-----------------------------------------------------------------------------
(* The semaphore: sem_wait(), what is done with it taken, and sem_post(). *)

Wanted == [count |-> "counting", print |-> "printing",
           leave |-> "leaving", last |-> "lastPrint"]

Always == TRUE
Available == sem > 0

SemWait(p) ==
    /\ pc[p] \in DOMAIN Wanted
    /\ Available
    /\ sem' = sem - 1
    /\ Goto(p, Wanted[pc[p]])
    /\ UNCHANGED <<nclients, sockets, listening, files, upload, arrived, arrival, old, written, stuck>>

HasSem(p) == pc[p] \in {Wanted[l] : l \in DOMAIN Wanted}

\* sem_post(), with the counter of the process changed to n, and the step that follows.
NotPosted == sem
Posted == sem + 1
Post(p, n, l) ==
    /\ sem' = Posted
    /\ nclients' = [nclients EXCEPT ![p] = n]
    /\ Goto(p, l)
    /\ UNCHANGED <<sockets, listening, files, upload, arrived, arrival, old, written, stuck>>
-----------------------------------------------------------------------------
(* The parent: main(). *)

\* One connection at a time; a client may connect whenever it likes.
Accept ==
    /\ pc[server] = "accept"
    /\ Unused # {}
    /\ arrived' = arrived + 1
    /\ sockets' = [sockets EXCEPT ![server] = @ \cup {arrived + 1}]
    /\ Goto(server, "count")
    /\ UNCHANGED <<sem, nclients, listening, files, upload, arrival, old, written, stuck>>

Count == pc[server] = "counting" /\ Post(server, nclients[server] + 1, "print")

\* printusers()
PrintUsers == pc[server] = "printing" /\ Post(server, nclients[server], "fork")

\* The child has copies of the counter and of all descriptors.
Fork ==
    /\ pc[server] = "fork"
    /\ \E p \in Unused :
          /\ pc' = [pc EXCEPT ![server] = "close", ![p] = "start"]
          /\ nclients' = [nclients EXCEPT ![p] = nclients[server]]
          /\ sockets' = [sockets EXCEPT ![p] = sockets[server]]
          /\ arrival' = [arrival EXCEPT ![p] = arrived]
          /\ listening' = listening \cup {p}
    /\ UNCHANGED <<sem, files, upload, arrived, old, written, stuck>>

\* close(newsockfd) in the parent
StillOpen(s) == s
Closed(s) == {}
CloseConnection ==
    /\ pc[server] = "close"
    /\ sockets' = [sockets EXCEPT ![server] = Closed(@)]
    /\ Goto(server, "accept")
    /\ UNCHANGED <<sem, nclients, listening, files, upload, arrived, arrival, old, written, stuck>>
-----------------------------------------------------------------------------
(* A child: dostuff(). *)

\* close(sockfd) and the first message of the peer
Start(p) ==
    /\ pc[p] = "start"
    /\ listening' = listening \ {p}
    /\ \E l \in {"math", "open", "exit"} : Goto(p, l)
    /\ UNCHANGED <<sem, nclients, sockets, files, upload, arrived, arrival, old, written, stuck>>

\* do_math() ends with an error, an unknown operation, SIGFPE or SIGPIPE, or it closes the
\* connection and counts the client out.
Math(p) ==
    /\ pc[p] = "math"
    /\ \/ Goto(p, "exit") /\ UNCHANGED sockets
       \/ Goto(p, "leave") /\ sockets' = [sockets EXCEPT ![p] = Closed(@)]
    /\ UNCHANGED <<sem, nclients, listening, files, upload, arrived, arrival, old, written, stuck>>

Leave(p) == pc[p] = "leaving" /\ Post(p, nclients[p] - 1, "last")

LastPrint(p) == pc[p] = "lastPrint" /\ Post(p, nclients[p], "exit")

\* receive_file(): open() with O_EXCL under its own pid, unless what the peer sent is no name.
Overwritten(f) == TRUE
Creatable(f) == f \notin files

OpenFile(p) ==
    /\ pc[p] = "open"
    /\ \/ \E n \in Names :
             /\ Creatable(<<p, n>>)
             /\ files' = files \cup {<<p, n>>}
             /\ upload' = [upload EXCEPT ![p] = {<<p, n>>}]
             /\ Goto(p, "receive")
       \/ Goto(p, "exit") /\ UNCHANGED <<files, upload>>
    /\ UNCHANGED <<sem, nclients, sockets, listening, arrived, arrival, old, written, stuck>>

\* Something is written to the file, until the size is reached, the peer has closed the
\* connection or a call fails.
Receive(p) ==
    /\ pc[p] = "receive"
    /\ \/ /\ written' = [f \in Files |-> IF f \in upload[p] THEN written[f] \cup {arrival[p]} ELSE written[f]]
          /\ UNCHANGED pc
       \/ Goto(p, "exit") /\ UNCHANGED written
    /\ UNCHANGED <<sem, nclients, sockets, listening, files, upload, arrived, arrival, old, stuck>>

\* The process is gone with its descriptors; nobody waits for it.
Gone(p) ==
    /\ Goto(p, "zombie")
    /\ nclients' = [nclients EXCEPT ![p] = 0]
    /\ sockets' = [sockets EXCEPT ![p] = {}]
    /\ listening' = listening \ {p}
    /\ upload' = [upload EXCEPT ![p] = {}]
    /\ UNCHANGED <<sem, files, arrived, arrival, old, written>>

Exit(p) == pc[p] = "exit" /\ Gone(p) /\ UNCHANGED stuck

\* SIGKILL at any point, or error() in the parent, when accept() or fork() fails
Kill(p) ==
    /\ pc[p] \notin {"none", "zombie", "exit"}
    /\ Gone(p)
    /\ stuck' = (stuck \/ HasSem(p))
-----------------------------------------------------------------------------
Server == SemWait(server) \/ Count \/ PrintUsers \/ Fork \/ CloseConnection

Child(p) == SemWait(p) \/ Start(p) \/ Math(p) \/ Leave(p) \/ LastPrint(p) \/ OpenFile(p) \/ Receive(p) \/ Exit(p)

Next ==
    \/ Accept \/ Server
    \/ \E p \in Pids : Child(p)
    \/ \E p \in Procs : Kill(p)

Spec == Init /\ [][Next]_vars

\* Processes run; nobody has to connect, and no child has to be quick about its dialogue.
FairSpec ==
    /\ Spec
    /\ WF_vars(Server)
    /\ \A p \in Pids : WF_vars(Leave(p) \/ LastPrint(p))
-----------------------------------------------------------------------------
TypeOK ==
    /\ pc \in [Procs -> {"none", "accept", "count", "counting", "print", "printing", "fork", "close",
                         "start", "math", "leave", "leaving", "last", "lastPrint", "open", "receive",
                         "exit", "zombie"}]
    /\ sem \in 0..1
    /\ nclients \in [Procs -> Nat]
    /\ sockets \in [Procs -> SUBSET (1..arrived)]
    /\ listening \subseteq Procs
    /\ files \subseteq Files /\ upload \in [Procs -> SUBSET Files]
    /\ arrived \in Nat /\ arrival \in [Procs -> Nat]

\* Nobody but the child of a connection has it open once the parent is back in accept(), so the
\* peer sees its end when that child ends; and a child that has begun has no listening socket,
\* so that the port is free when the parent ends (13/server.c:131-137).
OnlyItsChild ==
    /\ \A p \in Pids : sockets[p] \subseteq {arrival[p]}
    /\ \A p, q \in Pids : p # q => sockets[p] \cap sockets[q] = {}
    /\ pc[server] = "accept" => sockets[server] = {}
    /\ \A p \in listening \ {server} : pc[p] = "start"

\* The counters, as they are: the parent's counts arrivals and a child's is its place among
\* them, less one when it has left (13/server.c:114-116, 215-217), and there is never more than
\* one process at them.  That is not what they are for: see PrintsActiveUsers.
CountsArrivals ==
    /\ TypeOK
    /\ pc[server] \in {"count", "counting"} => nclients[server] = arrived - 1
    /\ pc[server] \in {"accept", "print", "printing", "fork", "close"} => nclients[server] = arrived
    /\ \A p \in Pids :
          /\ pc[p] \in {"start", "math", "leave", "leaving", "open", "receive"} => nclients[p] = arrival[p]
          /\ pc[p] \in {"last", "lastPrint"} => nclients[p] = arrival[p] - 1
    /\ \A p, q \in Procs : HasSem(p) /\ HasSem(q) => p = q

\* "The number of active users" (13/server.c:35-36), which printusers() is there to print
\* (13/server.c:41-42): when no process is about to count somebody in or out or to close
\* its copy, and every child that is gone was counted out, it is the number of connections.
\* The code does not do this, as every process has an nclients of its own.
Active == UNION {sockets[p] : p \in Procs}

PrintsActiveUsers ==
    \A p \in Procs :
        /\ pc[p] \in {"printing", "lastPrint"}
        /\ \A q \in Procs : pc[q] \notin {"count", "counting", "close", "leave", "leaving", "zombie"}
        => nclients[p] = Cardinality(Active)

\* No file of an earlier server is written, and none is written for two connections.
UploadsKept ==
    \A f \in Files : (f \in old => written[f] = {}) /\ Cardinality(written[f]) <= 1

\* The parent comes back to accept() whatever the children do, unless it or one of them is
\* killed, in a child's case with the semaphore taken.
NextIsAccepted ==
    pc[server] \notin {"accept", "zombie"} ~> pc[server] \in {"accept", "zombie"} \/ stuck
=============================================================================
