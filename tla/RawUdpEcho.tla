----------------------------- MODULE RawUdpEcho -----------------------------
(***************************************************************************)
(* cross1: clients send lines to a server that sends each back with the    *)
(* number of the line.  Both use raw sockets: every program on a host is   *)
(* given every UDP datagram that arrives there and picks those for its     *)
(* port.  Nothing is ever sent again, and nobody waits with a timeout.     *)
(*                                                                         *)
(* Abstraction: a line is "other", "fin", or "finish", which stands for    *)
(* all that only begin with fin; a request is known by its client and its  *)
(* number.  All clients are on one host, the server's or another, and have *)
(* their sockets from the start.  What the server does with one datagram   *)
(* is one step.  A SIGINT before a client sleeps lets it end after the     *)
(* next answer, as fin would; so it is left out.                           *)
(*                                                                         *)
(* MessageProofs extends three modules, so some names have a prefix, RU.   *)
(***************************************************************************)
EXTENDS Naturals, Sequences, FiniteSets

CONSTANTS
    Clients,        \* bound: the clients that are started
    Ports,          \* the ports they may have
    Assignments,    \* bound: who may have which of them
    ServerPort,     \* the port of the server
    MaxRequests,    \* bound: the lines of each client
    Local           \* the server is on the host of the clients

ASSUME PortsAssumption ==
    /\ Ports \subseteq Nat \ {0} /\ ServerPort \in Nat \ {0}
    /\ Assignments \subseteq [Clients -> Ports]
ASSUME BoundsAssumption ==
    IsFiniteSet(Clients) /\ MaxRequests \in [Clients -> Nat] /\ Local \in BOOLEAN

VARIABLES
    net,            \* datagrams on their way
    client_cache,   \* client_cache[0 .. cache_size - 1]
    pc,             \* of each client
    port,           \* listen_port
    inbox,          \* the datagrams in the socket's buffer that the client will pick
    \* History:
    sent,           \* the number of lines of each client
    input,          \* the last of them
    got,            \* the last datagram that each client has taken for an answer
    fault,          \* bound: what has gone wrong, which is one thing at most
    reset           \* a fin was handled, or the server was started again

client == <<pc, port>>
hist == <<sent, input, got, fault, reset>>
RUvars == <<net, client_cache, client, inbox, hist>>

RUInit ==
    /\ net = {} /\ client_cache = <<>>
    /\ pc = [c \in Clients |-> "prompt"]
    \* It is a random number, the same for all who start in one second, or is given.
    /\ port \in Assignments
    /\ inbox = [c \in Clients |-> <<>>]
    /\ sent = [c \in Clients |-> 0]
    /\ input = [c \in Clients |-> ""]
    /\ got = [c \in Clients |-> {}]
    /\ fault = "none" /\ reset = FALSE

RUGoto(c, l) == pc' = [pc EXCEPT ![c] = l]

Request(c, text) ==
    [kind |-> "request", to |-> ServerPort, from |-> port[c], text |-> text,
     who |-> c, n |-> sent'[c], number |-> 0]
-----------------------------------------------------------------------------
(* The client. *)

Type(c) ==
    /\ pc[c] = "prompt" /\ sent[c] < MaxRequests[c]
    /\ sent' = [sent EXCEPT ![c] = @ + 1]
    /\ \E text \in {"other", "finish"} :
          /\ input' = [input EXCEPT ![c] = text]
          /\ net' = net \cup {Request(c, text)}
    /\ RUGoto(c, "wait")
    /\ UNCHANGED <<client_cache, port, inbox, got, fault, reset>>

\* read() returns the next datagram with the client's port that comes from the server's host.
TakeAnswer(c) ==
    /\ pc[c] = "wait" /\ inbox[c] # <<>>
    /\ got' = [got EXCEPT ![c] = {Head(inbox[c])}]
    /\ inbox' = [inbox EXCEPT ![c] = Tail(@)]
    /\ RUGoto(c, "prompt")
    /\ UNCHANGED <<net, client_cache, port, sent, input, fault, reset>>

\* The line is fin or there is none, or a SIGINT ends the fgets() or read() that sleeps: then
\* run_wrapper() says fin to the server and closes the socket.  (With SIGKILL the fin is lost.)
Leave(c) ==
    /\ pc[c] \in {"prompt", "wait"}
    /\ sent' = [sent EXCEPT ![c] = @ + 1]
    /\ net' = net \cup {Request(c, "fin")}
    /\ RUGoto(c, "gone")
    /\ inbox' = [inbox EXCEPT ![c] = <<>>]
    /\ UNCHANGED <<client_cache, port, input, got, fault, reset>>
-----------------------------------------------------------------------------
(* The server. *)

\* get_or_add(): the record of the sender, a new one if there is none.
AnyOfTheHost(r, p) == TRUE
SameClient(r, p) == r.port = p

Known(p) == {i \in DOMAIN client_cache : SameClient(client_cache[i], p)}
Index(p) == IF Known(p) = {} THEN Len(client_cache) + 1
            ELSE CHOOSE i \in Known(p) : \A j \in Known(p) : i <= j
WithSender(p) ==
    IF Known(p) = {} THEN Append(client_cache, [port |-> p, number |-> 0]) ELSE client_cache

\* remove_client(): the loop begins at an uninitialized i instead of its argument, moves what
\* is behind that place and never makes cache_size smaller.
Forgotten(records, i, k) ==
    LET size == Len(records)
        zeroed == [records EXCEPT ![i].number = 0]
    IN  [j \in 1..size |-> IF j < k THEN zeroed[j]
                           ELSE IF j < size THEN zeroed[j + 1] ELSE [port |-> 0, number |-> 0]]

\* Not a datagram of the server itself, which it is given too when they share a host.
FromOthers(d) == d.from # ServerPort

ForServer(d) ==
    /\ d.kind = "request" \/ Local
    /\ d.to = ServerPort /\ FromOthers(d)

\* The answer goes to the sender's port.
ToItself(d) == d.to
ToSender(d) == d.from
Answer(d, m) ==
    [d EXCEPT !.kind = "answer", !.to = ToSender(d), !.from = ServerPort, !.number = m]

\* One round of run() with the datagram d.
Serve(d, others) ==
    LET i == Index(d.from)
        counted == [WithSender(d.from) EXCEPT ![i].number = @ + 1]
    IN  \/ /\ d.text \in {"fin", "finish"}
           /\ \E k \in 1..(Len(counted) + 1) : client_cache' = Forgotten(counted, i, k)
           /\ net' = others
           /\ reset' = TRUE
        \/ /\ d.text = "other"
           /\ client_cache' = counted
           /\ net' = others \cup {Answer(d, counted[i].number)}
           /\ UNCHANGED reset
-----------------------------------------------------------------------------
(* The network. *)

EveryPort(c, d) == TRUE
ItsPort(c, d) == d.to = port[c]

Picks(c, d) ==
    /\ pc[c] # "gone"
    /\ d.kind = "answer" \/ Local
    /\ ItsPort(c, d)

\* A datagram arrives: every program of the host that it is for is given it.
Given(d) ==
    inbox' = [c \in Clients |-> IF Picks(c, d) THEN Append(inbox[c], d) ELSE inbox[c]]

Arrive(d) ==
    /\ Given(d)
    /\ \E twice \in BOOLEAN :
          /\ twice => fault = "none"
          /\ fault' = IF twice THEN "duplicated" ELSE fault
          /\ LET others == IF twice THEN net ELSE net \ {d} IN
             IF ForServer(d) THEN Serve(d, others)
             ELSE net' = others /\ UNCHANGED <<client_cache, reset>>
    /\ UNCHANGED <<client, sent, input, got>>

\* The server's sendto() fails: it ends without an answer, and is started again with an empty
\* cache.
AnswerFails(d) ==
    /\ ForServer(d) /\ d.text = "other"
    /\ Given(d)
    /\ net' = net \ {d}
    /\ client_cache' = <<>> /\ reset' = TRUE
    /\ fault = "none" /\ fault' = "lost"
    /\ UNCHANGED <<client, sent, input, got>>

\* It is lost on its way, or because the server is not there or the buffer is full.
Lose ==
    /\ \E d \in net : net' = net \ {d}
    /\ fault = "none" /\ fault' = "lost"
    /\ UNCHANGED <<client_cache, client, inbox, sent, input, got, reset>>

\* The server has no handler: a SIGINT ends it.  It is started again with an empty cache.
Restart ==
    /\ client_cache # <<>>
    /\ client_cache' = <<>>
    /\ fault = "none" /\ fault' = "restarted"
    /\ reset' = TRUE
    /\ UNCHANGED <<net, client, inbox, sent, input, got>>

Delivery(c) == \E d \in net : d.who = c /\ Arrive(d)

Client(c) == Type(c) \/ TakeAnswer(c) \/ Leave(c)

RUNext ==
    \/ Lose \/ Restart \/ \E d \in net : AnswerFails(d)
    \/ \E c \in Clients : Delivery(c) \/ Client(c)

RUSpec == RUInit /\ [][RUNext]_RUvars

\* What is not lost arrives, and a client runs while it waits.  No line has to be typed.
RUFairSpec ==
    RUSpec /\ \A c \in Clients : WF_RUvars(Delivery(c)) /\ WF_RUvars(TakeAnswer(c))
-----------------------------------------------------------------------------
Datagrams ==
    [kind : {"request", "answer"}, to : Ports \cup {ServerPort}, from : Ports \cup {ServerPort},
     text : {"other", "fin", "finish"}, who : Clients, n : Nat, number : Nat]

RUTypeOK ==
    /\ net \subseteq Datagrams
    /\ client_cache \in Seq([port : Nat, number : Nat])
    /\ pc \in [Clients -> {"prompt", "wait", "gone"}]
    /\ port \in [Clients -> Ports]
    /\ inbox \in [Clients -> Seq(Datagrams)]
    /\ sent \in [Clients -> Nat]
    /\ got \in [Clients -> SUBSET Datagrams]

\* The client cannot be told from another one, or from the server.
Shared(c) == port[c] = ServerPort \/ \E d \in Clients \ {c} : port[d] = port[c]

\* What a client takes for the answer to its line is the answer to that very line, although
\* neither is numbered (cross1/client.c:53-80), unless it shares its port or the network has
\* given somebody a datagram twice.
InStep ==
    /\ RUTypeOK
    /\ fault # "duplicated" =>
          \A c \in Clients : ~Shared(c) => \A d \in got[c] :
              /\ d.who = c /\ d.kind = "answer"
              /\ pc[c] = "prompt" => d.n = sent[c]

AllAnswers ==
    {d \in net : d.kind = "answer"}
        \cup (UNION {got[c] : c \in Clients})
        \cup (UNION {{inbox[c][i] : i \in DOMAIN inbox[c]} : c \in Clients})

SentFrom(p) == UNION {{<<c, k>> : k \in 1..sent[c]} : c \in {d \in Clients : port[d] = p}}

\* The number in an answer counts lines that were really sent from its port, and no two lines of
\* a port are answered with one number, unless a fin came between them (it makes the server
\* forget its sender's number or anybody's record, cross1/server.c:42-47) or the server was
\* started again; no port has two records.
NumbersCount ==
    /\ fault # "duplicated" => \A d \in AllAnswers :
          d.kind = "answer" => d.number \in 1..Cardinality(SentFrom(d.to))
    /\ ~reset => \A d, e \in AllAnswers :
          (d.kind = "answer" /\ e.kind = "answer" /\ d.to = e.to /\ d.number = e.number) => d = e
    /\ \A i, j \in DOMAIN client_cache :
          (client_cache[i].port = client_cache[j].port /\ client_cache[i].port # 0) => i = j

\* A client that waits is answered, unless a datagram was lost or could not be sent, its line
\* begins with fin (cross1/server.c:85 compares three characters, the client four), or its port is the server's.
AnsweredUnlessLost ==
    \A c \in Clients :
        pc[c] = "wait" ~> (pc[c] # "wait" \/ fault = "lost" \/ input[c] = "finish" \/ port[c] = ServerPort)
=============================================================================
