---------------------------- MODULE MsgQueueChat ----------------------------
(***************************************************************************)
(* 06: a chat over one System V message queue.  Clients send to the server *)
(* (type 10 for lines, type 11 for the handshake) and read messages whose  *)
(* type is their pid; the server reads types up to 11, LOWEST FIRST, and   *)
(* copies each line to every other registered client.  Everything shares   *)
(* the queue's room, and msgsnd() blocks while there is none.              *)
(*                                                                         *)
(* Abstraction: a line is its sender, its number and its kind: chat, the   *)
(* word shutdown, or nothing but colons (no second token for the server).  *)
(*                                                                         *)
(* MessageProofs extends three modules, so some names have a prefix, MQ.   *)
(***************************************************************************)
EXTENDS Naturals, Sequences, SequencesExt, FiniteSets

CONSTANTS
    Pids,       \* the client processes
    Kinds,      \* the kinds of lines that are typed
    QueueMax,   \* messages that fit into the queue (msg_qbytes / TEXT_MAX)
    MaxLines,   \* bound: lines a user types into one client
    MaxBoots    \* bound: how often the server is started

CLIENTS_MAX == 100

\* A pid is not the type of the messages to the server.  (10 and 11 are threads of the kernel.)
ASSUME PidsAssumption ==
    /\ "SERVER_MTYPE" \notin Pids /\ "HANDSHAKE_MTYPE" \notin Pids
    /\ IsFiniteSet(Pids) /\ Cardinality(Pids) <= CLIENTS_MAX
ASSUME ChatBoundsAssumption ==
    /\ Kinds \subseteq {"chat", "shutdown", "colons"}
    /\ QueueMax \in Nat \ {0} /\ MaxLines \in Nat /\ MaxBoots \in Nat

VARIABLES
    exists, queue,      \* the message queue, oldest message first
    msqid,              \* the clients whose msqid is that of this queue
    server,             \* "down", "listening" or "broadcasting"
    clients,            \* clients[0 .. client_count - 1] of the server
    text,               \* what the server's buffer text holds from earlier lines
    line, next,         \* the line being broadcast and the next index to serve
    cpc,                \* what each client does next
    buffer,             \* the last input of each client: its kind
    \* History and bounds:
    typed,              \* lines typed into each client
    received,           \* what each client has printed
    handled,            \* lines of each client that the server has taken
    boots

qvars == <<exists, queue, msqid>>
svars == <<server, clients, text, line, next, handled, boots>>
cvars == <<cpc, buffer, typed, received>>
MQvars == <<qvars, svars, cvars>>

Lines == [from : Pids, n : 1..MaxLines, kind : Kinds]

\* The types of messages: to the server (10), handshake (11), to a client (its pid).
ToServer(l) == [type |-> "SERVER_MTYPE", line |-> l]
Handshake(c) == [type |-> "HANDSHAKE_MTYPE", line |-> [from |-> c, n |-> 0, kind |-> "hello"]]
To(c, l) == [type |-> c, line |-> l]

NoLine == [from |-> "nobody", n |-> 0, kind |-> "hello"]
Queued ==
    {ToServer(l) : l \in Lines} \cup {Handshake(c) : c \in Pids}
        \cup {To(c, l) : c \in Pids, l \in Lines}

MQInit ==
    /\ exists = FALSE /\ queue = <<>> /\ msqid = {}
    /\ server = "down" /\ clients = <<>> /\ text = "unset"
    /\ line = NoLine /\ next = 1
    /\ cpc = [c \in Pids |-> "start"]
    /\ buffer = [c \in Pids |-> "hello"]
    /\ typed = [c \in Pids |-> 0]
    /\ received = [c \in Pids |-> <<>>]
    /\ handled = [c \in Pids |-> 0]
    /\ boots = 0

\* msgsnd(): waits for room.
HasRoom == Len(queue) < QueueMax
Send(m) == HasRoom /\ queue' = Append(queue, m) /\ UNCHANGED <<exists, msqid>>

\* msgrcv(): the first message of a type.
Waiting(type) == {k \in DOMAIN queue : queue[k].type = type}
Earliest(S) == CHOOSE k \in S : \A l \in S : k <= l
Take(type) ==
    /\ Waiting(type) # {}
    /\ queue' = RemoveAt(queue, Earliest(Waiting(type)))
    /\ UNCHANGED <<exists, msqid>>
Taken(type) == queue[Earliest(Waiting(type))].line
-----------------------------------------------------------------------------
(* A client. *)

MQGoto(c, l) == cpc' = [cpc EXCEPT ![c] = l]

\* msgget() without IPC_CREAT.
Start(c) ==
    /\ cpc[c] = "start"
    /\ msqid' = IF exists THEN msqid \cup {c} ELSE msqid
    /\ MQGoto(c, IF exists THEN "greet" ELSE "exited")
    /\ UNCHANGED <<exists, queue, svars, buffer, typed, received>>

Greet(c) ==
    /\ cpc[c] = "greet" /\ c \in msqid
    /\ Send(Handshake(c))
    /\ MQGoto(c, "read")
    /\ UNCHANGED <<svars, buffer, typed, received>>

\* msgrcv(IPC_NOWAIT): one message, or after an empty line all of them.
Read(c) ==
    /\ cpc[c] = "read" /\ c \in msqid
    /\ \/ /\ Take(c)
          /\ received' = [received EXCEPT ![c] = Append(@, Taken(c))]
          /\ MQGoto(c, IF buffer[c] = "empty" THEN "read" ELSE "input")
       \/ /\ Waiting(c) = {}
          /\ MQGoto(c, "input")
          /\ UNCHANGED <<qvars, received>>
    /\ UNCHANGED <<svars, buffer, typed>>

\* fgets(): a line, an empty line, or the end of the input, which ends the client
\* without a word to the server.
TypeLine(c) ==
    /\ cpc[c] = "input"
    /\ \/ /\ typed[c] < MaxLines
          /\ \E k \in Kinds : buffer' = [buffer EXCEPT ![c] = k]
          /\ typed' = [typed EXCEPT ![c] = @ + 1]
          /\ MQGoto(c, "send")
       \/ /\ buffer' = [buffer EXCEPT ![c] = "empty"]
          /\ MQGoto(c, "read")
          /\ UNCHANGED typed
       \/ /\ MQGoto(c, "exited")
          /\ UNCHANGED <<buffer, typed>>
    /\ UNCHANGED <<qvars, svars, received>>

SendLine(c) ==
    /\ cpc[c] = "send" /\ c \in msqid
    /\ Send(ToServer([from |-> c, n |-> typed[c], kind |-> buffer[c]]))
    /\ MQGoto(c, "read")
    /\ UNCHANGED <<svars, buffer, typed, received>>

\* Every call on a removed queue fails, also when there is a new one: the client exits.
QueueGone(c) ==
    /\ cpc[c] \in {"greet", "read", "send"}
    /\ c \notin msqid
    /\ MQGoto(c, "exited")
    /\ UNCHANGED <<qvars, svars, buffer, typed, received>>
-----------------------------------------------------------------------------
(* The server. *)

\* msgget(IPC_CREAT) takes over a queue that is there, with what is in it.
Boot ==
    /\ server = "down"
    /\ boots < MaxBoots
    /\ boots' = boots + 1
    /\ exists' = TRUE
    /\ server' = "listening"
    /\ UNCHANGED <<queue, msqid, clients, text, line, next, handled, cvars>>

\* Nothing of the server but the queue outlives its process.
Down ==
    /\ server' = "down"
    /\ clients' = <<>> /\ text' = "unset"
    /\ line' = NoLine /\ next' = 1
    /\ UNCHANGED <<handled, boots, cvars>>

\* The message types that the server's msgrcv(-HANDSHAKE_MTYPE) returns.
WithoutMinus == {"HANDSHAKE_MTYPE"}
ServerTypes == {"SERVER_MTYPE", "HANDSHAKE_MTYPE"}

\* Asleep in msgrcv() or in the msgsnd() of a broadcast.
Asleep ==
    \/ server = "listening" /\ \A type \in ServerTypes : Waiting(type) = {}
    \/ server = "broadcasting" /\ next <= Len(clients)
       /\ clients[next] # line.from /\ ~HasRoom

\* SIGINT: clear() itself does nothing, as msqid_cached is never set, so the signal
\* only ends the call the server sleeps in, which is not restarted: listen() returns
\* and main() removes the queue.
Interrupt ==
    /\ Asleep
    /\ exists' = FALSE /\ queue' = <<>> /\ msqid' = {}
    /\ Down

\* SIGKILL: the queue stays.
Kill ==
    /\ server # "down"
    /\ Down
    /\ UNCHANGED qvars

\* delete_client(): the first record with this id, the others move up.
Overwritten(table, c) == IF Contains(table, c) THEN Front(table) ELSE table
Deleted(table, c) ==
    LET found == {k \in DOMAIN table : table[k] = c}
    IN  IF found = {} THEN table ELSE RemoveAt(table, Earliest(found))

\* A handshake is only taken when no line waits.
TakeHandshake ==
    /\ server = "listening"
    /\ "SERVER_MTYPE" \in ServerTypes => Waiting("SERVER_MTYPE") = {}
    /\ Take("HANDSHAKE_MTYPE")
    /\ clients' = Append(clients, Taken("HANDSHAKE_MTYPE").from)
    /\ UNCHANGED <<server, text, line, next, handled, boots, cvars>>

\* try_parse_message() leaves text as it was when there is no second token.
Parsed(l) == IF l.kind = "colons" THEN text ELSE l.kind

TakeLine ==
    /\ server = "listening"
    /\ "SERVER_MTYPE" \in ServerTypes
    /\ Take("SERVER_MTYPE")
    /\ LET l == Taken("SERVER_MTYPE")
       IN  /\ text' = Parsed(l)
           /\ handled' = [handled EXCEPT ![l.from] = l.n]
           /\ IF Parsed(l) = "shutdown"
              THEN /\ clients' = Deleted(clients, l.from)
                   /\ UNCHANGED <<server, line, next>>
              ELSE /\ server' = "broadcasting"
                   /\ line' = l
                   /\ next' = 1
                   /\ UNCHANGED clients
    /\ UNCHANGED <<boots, cvars>>

\* broadcast_message(): one round of the loop, the sender is left out.
NotSkipped(c) == FALSE
Skipped(c) == c = line.from

LastLeftOut == next >= Len(clients)
AllServed == next > Len(clients)

Broadcast ==
    /\ server = "broadcasting"
    /\ \/ /\ ~AllServed
          /\ IF Skipped(clients[next])
             THEN UNCHANGED qvars
             ELSE Send(To(clients[next], line))
          /\ next' = next + 1
          /\ UNCHANGED <<server, line>>
       \/ /\ AllServed
          /\ server' = "listening"
          /\ line' = NoLine
          /\ next' = 1
          /\ UNCHANGED qvars
    /\ UNCHANGED <<clients, text, handled, boots, cvars>>

ServerStep == TakeHandshake \/ TakeLine \/ Broadcast

ClientStep(c) ==
    Start(c) \/ Greet(c) \/ Read(c) \/ TypeLine(c) \/ SendLine(c) \/ QueueGone(c)

MQNext == ServerStep \/ Boot \/ Interrupt \/ Kill \/ (\E c \in Pids : ClientStep(c))

MQSpec == MQInit /\ [][MQNext]_MQvars

\* The server runs; a client runs too, but its user may never type.
MQFairSpec == MQSpec /\ WF_MQvars(ServerStep)
-----------------------------------------------------------------------------
(* Properties. *)

MQTypeOK ==
    /\ exists \in BOOLEAN /\ msqid \subseteq Pids /\ (~exists => queue = <<>> /\ msqid = {})
    /\ queue \in Seq(Queued) /\ Len(queue) <= QueueMax
    /\ server \in {"down", "listening", "broadcasting"}
    /\ clients \in Seq(Pids)
    /\ text \in {"unset", "chat", "shutdown"}
    /\ line \in Lines \cup {NoLine} /\ next \in 1..(Len(clients) + 1)
    /\ cpc \in [Pids -> {"start", "greet", "read", "input", "send", "exited"}]
    /\ buffer \in [Pids -> Kinds \cup {"hello", "empty"}]
    /\ typed \in [Pids -> 0..MaxLines] /\ handled \in [Pids -> 0..MaxLines]
    /\ received \in [Pids -> Seq(Lines)]
    /\ boots \in 0..MaxBoots

Precedes(l, m) == l.from = m.from => l.n < m.n

\* What c has printed, and then what it will still find in the queue.
InOrder(c) ==
    /\ \A k \in DOMAIN received[c] :
          /\ received[c][k].from # c
          /\ \A l \in 1..(k - 1) : Precedes(received[c][l], received[c][k])
    /\ \A k \in Waiting(c) :
          /\ queue[k].line.from # c
          /\ \A l \in DOMAIN received[c] : Precedes(received[c][l], queue[k].line)
          /\ \A l \in Waiting(c) : l < k => Precedes(queue[l].line, queue[k].line)

(* A client never sees its own lines, and sees those of another in the order in
   which they were typed, none twice, also when the server was killed in the
   middle of a broadcast and started again on the same queue. *)
InOrderAtMostOnce == MQTypeOK /\ \A c \in Pids : InOrder(c)

SentTo(c) == {received[c][k] : k \in DOMAIN received[c]} \cup {queue[k].line : k \in Waiting(c)}

(* broadcast_message() passes over nobody: when it returns, every registered client
   except the sender has been sent the line, however long it blocked and whoever
   read or wrote in between. *)
NobodyPassedOver ==
    [][(server = "broadcasting" /\ server' = "listening")
          => \A k \in DOMAIN clients :
                clients[k] # line.from => line \in SentTo(clients[k])]_MQvars

(* delete_client() removes the client whose line was just taken and leaves the
   registrations of all the others in place. *)
OthersStay ==
    [][\A c \in Pids :
          (Contains(clients, c) /\ ~Contains(clients', c))
              => (server' = "down" \/ handled'[c] # handled[c])]_MQvars

(* listen() takes every line in the queue, unless the server is stopped, or sleeps
   in msgsnd() because the queue is full of messages nobody reads. *)
LinesAreTaken ==
    (Waiting("SERVER_MTYPE") # {})
        ~> (\/ Waiting("SERVER_MTYPE") = {}
            \/ server = "down"
            \/ server = "broadcasting" /\ ~HasRoom)
=============================================================================
