---------------------------- MODULE EpollServer ----------------------------
(***************************************************************************)
(* 15/server.c: a single-threaded TCP server around epoll.  The listening  *)
(* socket is edge-triggered and accepted from once per event; the clients' *)
(* sockets are level-triggered and blocking.  Each client has a record in  *)
(* the array clients[], found by searching for its descriptor, and a       *)
(* dialogue: an arithmetic exercise or a file upload.                      *)
(*                                                                         *)
(* Abstraction: the contents of messages are a choice among the outcomes   *)
(* of dostuff() for the record's state; a peer may always have sent        *)
(* something.  Descriptors are numbered from 1 and reused, lowest first.   *)
(*                                                                         *)
(* LoopProofs extends three machines, so each has names with a prefix, ES. *)
(***************************************************************************)
EXTENDS Integers, Sequences, SequencesExt, FiniteSetsExt

CONSTANTS
    MaxConns,   \* bound: the connections that peers make
    MaxFd       \* bound on descriptors, more than the connections can use

ASSUME MaxFdAssumption == MaxConns \in Nat /\ MaxFd \in Nat /\ 2 * MaxConns <= MaxFd

Fds == 1..MaxFd
Conns == 1..MaxConns
Free == 0
File == -1
NoSocket == -1    \* what a failing accept() returns
Listener == 0     \* in place of the listening socket's own descriptor

VARIABLES
    connected,  \* how many peers have called connect(), which numbers the connections
    gone,       \* those whose peers have closed them or ended
    backlog,    \* connections that wait for accept()
    edge,       \* epoll holds an event of the listening socket
    batch,      \* the events of the last epoll_wait() not handled yet
    fdTable,    \* what each descriptor refers to
    clients,    \* clients[0 .. nclients - 1]
    undefined,  \* clients[-1] was used: nothing is known of the program any more
    down,       \* the process was ended by a signal
    misremoved  \* history: a client that was not the last has been removed

ESvars == <<connected, gone, backlog, edge, batch, fdTable, clients, undefined, down, misremoved>>

ESInit ==
    /\ connected = 0 /\ gone = {} /\ backlog = <<>> /\ edge = FALSE /\ batch = {}
    /\ fdTable = [f \in Fds |-> Free]
    /\ clients = <<>>
    /\ undefined = FALSE /\ down = FALSE /\ misremoved = FALSE

LowestFree == Min({f \in Fds : fdTable[f] = Free})
OpenFds == {f \in Fds : fdTable[f] \in Conns}
Over == undefined \/ down

\* A peer connects: an edge on the listening socket.
Connect ==
    /\ ~down
    /\ connected < MaxConns
    /\ connected' = connected + 1
    /\ backlog' = Append(backlog, connected')
    /\ edge' = TRUE
    /\ UNCHANGED <<gone, batch, fdTable, clients, undefined, down, misremoved>>

\* It goes away, in the middle of its dialogue or not.
Hangup(c) ==
    /\ c \in (1..connected) \ gone
    /\ gone' = gone \cup {c}
    /\ UNCHANGED <<connected, backlog, edge, batch, fdTable, clients, undefined, down, misremoved>>

\* EPOLLET: the event is not reported again, however many connections wait.
ReportedAgain == edge
ReportedOnce == FALSE

EveryTime == {f \in OpenFds : fdTable[f] \in gone}

\* epoll_wait(): the listening socket if there is an edge, and clients that sent.
Wait ==
    /\ ~Over
    /\ batch = {}
    /\ \E S \in SUBSET OpenFds :
          batch' = S \cup EveryTime \cup (IF edge THEN {Listener} ELSE {})
    /\ batch' # {}
    /\ edge' = ReportedOnce
    /\ UNCHANGED <<connected, gone, backlog, fdTable, clients, undefined, down, misremoved>>

\* add_client(); fd is 0, not -1, until a file is open.
NewClient(f) == [sockfd |-> f, state |-> "ST_UNASSIGNED", fd |-> 0]

\* accept() blocks while no connection waits.
Accept ==
    /\ ~Over
    /\ Listener \in batch
    /\ backlog # <<>>
    /\ backlog' = Tail(backlog)
    /\ fdTable' = [fdTable EXCEPT ![LowestFree] = Head(backlog)]
    /\ clients' = Append(clients, NewClient(LowestFree))
    /\ batch' = batch \ {Listener}
    /\ UNCHANGED <<connected, gone, edge, undefined, down, misremoved>>

\* A failing accept() is not noticed: there is one more record, which no event finds.  The
\* connection goes on waiting (no descriptor was left), or it was given up.
AcceptFails ==
    /\ ~Over
    /\ Listener \in batch
    /\ backlog # <<>>
    /\ backlog' \in {backlog, Tail(backlog)}
    /\ clients' = Append(clients, NewClient(NoSocket))
    /\ batch' = batch \ {Listener}
    /\ UNCHANGED <<connected, gone, edge, fdTable, undefined, down, misremoved>>

\* get_client_idx(): the first record with this descriptor, 0 for none.
ClientIdx(f) ==
    LET found == {k \in DOMAIN clients : clients[k].sockfd = f}
    IN  IF found = {} THEN 0 ELSE Min(found)

\* dostuff(): the next state when it returns STATUS_OK ...
Continues(state) ==
    CASE state = "ST_UNASSIGNED"  -> {"MATH_WAIT_A", "FILE_WAIT_NAME"}
      [] state = "MATH_WAIT_A"    -> {"MATH_WAIT_OP"}
      [] state = "MATH_WAIT_OP"   -> {"MATH_WAIT_B"}
      [] state = "FILE_WAIT_NAME" -> {"FILE_RECEIVE"}
      [] state = "FILE_RECEIVE"   -> {"FILE_RECEIVE", "FILE_DONE"}
      [] OTHER -> {}

\* ... and the state that it leaves in the record when it returns STATUS_FIN or
\* STATUS_FATAL: a failed write() comes after the assignment of the new state.
Ends(state) ==
    CASE state = "ST_UNASSIGNED" -> {"ST_UNASSIGNED", "MATH_WAIT_A"}
      [] state = "MATH_WAIT_A"   -> {"MATH_WAIT_A", "MATH_WAIT_OP"}
      [] state = "MATH_WAIT_OP"  -> {"MATH_WAIT_OP", "MATH_WAIT_B"}
      [] state = "MATH_WAIT_B"   -> {"MATH_WAIT_B", "MATH_DONE"}
      [] OTHER -> {state}

\* The dialogue goes on, if there is something to read() from; a file name that is
\* accepted opens the file.  At the end of the stream, where read() returns 0, it goes on
\* as well, with what its buffer held.
Continue(f, k) ==
    /\ fdTable[f] \in Conns
    /\ \E s \in Continues(clients[k].state) :
           /\ IF clients[k].state = "FILE_WAIT_NAME"
              THEN /\ clients' = [clients EXCEPT ![k].state = s, ![k].fd = LowestFree]
                   /\ fdTable' = [fdTable EXCEPT ![LowestFree] = File]
              ELSE /\ clients' = [clients EXCEPT ![k].state = s]
                   /\ UNCHANGED fdTable
           /\ UNCHANGED misremoved

\* close() of the socket, and of the file if one was opened.
ToClose(r) == {r.sockfd, r.fd}

\* remove_client() copies the record over the last one and drops that: whichever
\* client is removed, it is the last record that disappears.
KeepsLast(records, k) == records
Removed(records, k) == Front(records)

End(f, k) ==
    \E s \in Ends(clients[k].state) :
        /\ fdTable' = [g \in Fds |-> IF g \in ToClose(clients[k]) THEN Free ELSE fdTable[g]]
        /\ clients' = Removed([clients EXCEPT ![k].state = s], k)
        /\ misremoved' = (misremoved \/ k # Len(clients))

\* One event of a client's socket.
Handle(f) ==
    /\ ~Over
    /\ f \in batch \ {Listener}
    /\ batch' = batch \ {f}
    /\ LET k == ClientIdx(f)
       IN  IF k = 0
           THEN /\ undefined' = TRUE
                /\ UNCHANGED <<fdTable, clients, misremoved>>
           ELSE /\ Continue(f, k) \/ End(f, k)
                /\ UNCHANGED undefined
    /\ UNCHANGED <<connected, gone, backlog, edge, down>>

\* The states in which dostuff() answers its peer.
Answers(state) == state \notin {"FILE_WAIT_NAME", "FILE_RECEIVE"}

\* SIGPIPE at a second answer to a peer that is gone, or SIGFPE when the least int is divided
\* by -1, ends the process for everybody.
EndedBySignal(f) ==
    /\ ~Over
    /\ f \in batch \ {Listener}
    /\ LET k == ClientIdx(f)
       IN  /\ k # 0
           /\ \/ Answers(clients[k].state) /\ fdTable[f] \in gone
              \/ clients[k].state \in {"MATH_WAIT_B", "MATH_DONE"}
    /\ down' = TRUE
    /\ backlog' = <<>> /\ edge' = FALSE /\ batch' = {}
    /\ fdTable' = [g \in Fds |-> Free] /\ clients' = <<>>
    /\ UNCHANGED <<connected, gone, undefined, misremoved>>

Server == Wait \/ Accept \/ AcceptFails \/ (\E f \in Fds : Handle(f) \/ EndedBySignal(f))

ESNext == Server \/ Connect \/ (\E c \in Conns : Hangup(c))

ESSpec == ESInit /\ [][ESNext]_ESvars

\* The server runs; no peer has to connect, to say anything or to go away.
ESFairSpec == ESSpec /\ WF_ESvars(Server)
-----------------------------------------------------------------------------
(* Properties. *)

States == {"ST_UNASSIGNED", "MATH_WAIT_A", "MATH_WAIT_OP", "MATH_WAIT_B", "MATH_DONE",
           "FILE_WAIT_NAME", "FILE_RECEIVE", "FILE_DONE"}

ESTypeOK ==
    /\ connected \in 0..MaxConns
    /\ backlog \in Seq(1..connected)
    /\ gone \subseteq 1..connected
    /\ edge \in BOOLEAN /\ undefined \in BOOLEAN /\ down \in BOOLEAN /\ misremoved \in BOOLEAN
    /\ batch \subseteq Fds \cup {Listener}
    /\ fdTable \in [Fds -> Conns \cup {Free, File}]
    /\ clients \in Seq([sockfd : Fds \cup {NoSocket}, state : States, fd : Fds \cup {0}])

(* accept() on the blocking listening socket is only called when a connection waits,
   although an edge may stand for several connections and one is accepted. *)
AcceptNeverBlocks == Listener \in batch => backlog # <<>>

(* As long as clients have only been removed from the end of the array, it is exact:
   one record per open connection, with descriptors of its own, every open file
   belonging to a record, every event of a batch being of a socket that was not closed in
   it, and no search of the array failing.  Besides these there are only the records of
   accept()s that failed. *)
TableExact ==
    /\ ESTypeOK
    /\ ~misremoved =>
          /\ ~undefined
          /\ batch \ {Listener} \subseteq OpenFds
          /\ OpenFds = {clients[k].sockfd : k \in DOMAIN clients} \ {NoSocket}
          /\ {f \in Fds : fdTable[f] = File} =
                {clients[k].fd : k \in DOMAIN clients} \ {0}
          /\ \A k \in DOMAIN clients :
                \A l \in DOMAIN clients \ {k} :
                    /\ clients[k].sockfd \notin {clients[l].sockfd} \ {NoSocket}
                    /\ clients[k].fd \notin {clients[l].fd} \ {0}

Uploading(c) == \E k \in DOMAIN clients :
    /\ clients[k].sockfd # NoSocket
    /\ fdTable[clients[k].sockfd] = c /\ clients[k].state = "FILE_RECEIVE"

=============================================================================
