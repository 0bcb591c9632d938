--------------------------- MODULE MessageProofs ---------------------------
(***************************************************************************)
(* Proofs about the programs whose processes send each other messages:     *)
(* over a message queue (MsgQueueChat), raw sockets (RawUdpEcho) and pipes *)
(* (DriverPool).  Each part has an invariant of its own; what they share   *)
(* are the facts about sequences.                                          *)
(***************************************************************************)
EXTENDS MsgQueueChat, RawUdpEcho, DriverPool,
        FiniteSetTheorems, WellFoundedInduction, TLAPS
-----------------------------------------------------------------------------
(* Sequences. *)

LEMMA LeastExists ==
    ASSUME NEW T \in SUBSET Nat, T # {}
    PROVE  \E n \in T : \A m \in T : n <= m
<1> DEFINE R == OpToRel(<, Nat)
<1>1. IsWellFoundedOn(R, Nat)
  BY NatLessThanWellFounded
<1>2. \A m, n \in Nat : m < n => <<m, n>> \in R
  BY DEF OpToRel
<1> HIDE DEF R
<1>3. \E n \in T : \A m \in T : <<m, n>> \notin R
  BY <1>1, WFMin
<1>4. PICK n \in T : \A m \in T : <<m, n>> \notin R
  BY <1>3
<1>5. \A m \in T : ~(m < n)
  BY <1>2, <1>4
<1> QED BY <1>5

LEMMA Appended ==
    ASSUME NEW F, NEW q \in Seq(F), NEW x \in F
    PROVE  /\ Append(q, x) \in Seq(F) /\ Len(Append(q, x)) = Len(q) + 1
           /\ DOMAIN q = 1..Len(q) /\ DOMAIN Append(q, x) = 1..(Len(q) + 1) /\ Len(q) \in Nat
           /\ Append(q, x)[Len(q) + 1] = x
           /\ \A k \in 1..Len(q) : Append(q, x)[k] = q[k]
  OBVIOUS

LEMMA Joined ==
    ASSUME NEW F, NEW a \in Seq(F), NEW b \in Seq(F)
    PROVE  /\ a \o b \in Seq(F) /\ Len(a \o b) = Len(a) + Len(b)
           /\ \A k \in 1..(Len(a) + Len(b)) :
                 (a \o b)[k] = IF k <= Len(a) THEN a[k] ELSE b[k - Len(a)]
  OBVIOUS

\* Where the element at k of the sequence without its i-th was before.
Up(i, k) == IF k < i THEN k ELSE k + 1

LEMMA WithoutOne ==
    ASSUME NEW F, NEW q \in Seq(F), NEW i \in 1..Len(q)
    PROVE  /\ RemoveAt(q, i) \in Seq(F) /\ Len(RemoveAt(q, i)) = Len(q) - 1
           /\ DOMAIN q = 1..Len(q) /\ Len(q) \in Nat \ {0}
           /\ DOMAIN RemoveAt(q, i) = 1..(Len(q) - 1)
           /\ \A k \in 1..(Len(q) - 1) : RemoveAt(q, i)[k] = q[Up(i, k)]
<1> DEFINE n == Len(q)  a == SubSeq(q, 1, i - 1)  b == SubSeq(q, i + 1, n)
<1>1. n \in Nat \ {0} /\ \A k \in 1..n : q[k] \in F
  OBVIOUS
<1>2. a \in Seq(F) /\ Len(a) = i - 1 /\ \A k \in 1..(i - 1) : a[k] = q[k]
  <2>1. a = [k \in 1..(i - 1) |-> q[k]]
    BY <1>1
  <2>2. \A k \in 1..(i - 1) : q[k] \in F
    BY <1>1
  <2> HIDE DEF a, n
  <2> QED BY <2>1, <2>2, <1>1
<1>3. b \in Seq(F) /\ Len(b) = n - i /\ \A k \in 1..(n - i) : b[k] = q[k + i]
  <2>1. b = [k \in 1..(n - i) |-> q[i + k]]
    BY <1>1
  <2>2. \A k \in 1..(n - i) : q[i + k] \in F
    BY <1>1
  <2>3. n - i \in Nat
    BY <1>1
  <2> HIDE DEF b, n
  <2> QED BY <2>1, <2>2, <2>3
<1>4. RemoveAt(q, i) = a \o b
  BY DEF RemoveAt
<1> HIDE DEF a, b, n
<1>5. a \o b \in Seq(F) /\ Len(a \o b) = n - 1
  <2>1. a \o b \in Seq(F) /\ Len(a \o b) = Len(a) + Len(b)
    BY <1>2, <1>3, Joined
  <2> QED BY <1>1, <1>2, <1>3, <2>1
<1>6. \A k \in 1..(n - 1) : (a \o b)[k] = q[Up(i, k)]
  <2> TAKE k \in 1..(n - 1)
  <2>1. (a \o b)[k] = IF k <= i - 1 THEN a[k] ELSE b[k - (i - 1)]
    BY <1>1, <1>2, <1>3, Joined
  <2> QED BY <1>1, <1>2, <1>3, <2>1 DEF Up
<1> QED BY <1>1, <1>4, <1>5, <1>6 DEF n

\* The places before and after one is taken out correspond, in their order.
LEMMA UpMaps ==
    ASSUME NEW n \in Nat, NEW i \in 1..n
    PROVE  /\ \A k \in 1..(n - 1) : Up(i, k) \in (1..n) \ {i}
           /\ \A k \in (1..n) \ {i} : \E j \in 1..(n - 1) : Up(i, j) = k
           /\ \A j, k \in 1..(n - 1) : j < k => Up(i, j) < Up(i, k)
           /\ \A j, k \in 1..(n - 1) : Up(i, j) = Up(i, k) => j = k
<1>1. \A k \in (1..n) \ {i} : \E j \in 1..(n - 1) : Up(i, j) = k
  <2> TAKE k \in (1..n) \ {i}
  <2>1. CASE k < i
    BY <2>1 DEF Up
  <2>2. CASE k > i
    <3>1. k - 1 \in 1..(n - 1) /\ Up(i, k - 1) = k
      BY <2>2 DEF Up
    <3> QED BY <3>1
  <2> QED BY <2>1, <2>2
<1> QED BY <1>1 DEF Up

LEMMA IsSequence ==
    ASSUME NEW F, NEW n \in Nat, NEW f, f = [j \in 1..n |-> f[j]], \A j \in 1..n : f[j] \in F
    PROVE  f \in Seq(F) /\ Len(f) = n /\ DOMAIN f = 1..n
  OBVIOUS

LEMMA InSequence ==
    ASSUME NEW F, NEW q \in Seq(F)
    PROVE  \A i \in DOMAIN q : q[i] \in F
  OBVIOUS
-----------------------------------------------------------------------------
(* The chat over a message queue. *)

\* The three kinds of messages, by their types.
LEMMA Kinded ==
    /\ \A m \in Queued :
          /\ m.type = "SERVER_MTYPE" => m.line \in Lines /\ m = ToServer(m.line)
          /\ m.type = "HANDSHAKE_MTYPE" => m.line.from \in Pids
          /\ \A c \in Pids : m.type = c => m.line \in Lines
    /\ \A l \in Lines :
          ToServer(l) \in Queued /\ ToServer(l).type = "SERVER_MTYPE" /\ ToServer(l).line = l
    /\ \A c \in Pids :
          /\ Handshake(c) \in Queued /\ Handshake(c).type = "HANDSHAKE_MTYPE"
          /\ Handshake(c).line.from = c
    /\ \A c \in Pids, l \in Lines : To(c, l) \in Queued /\ To(c, l).type = c /\ To(c, l).line = l
<1>1. "SERVER_MTYPE" \notin Pids /\ "HANDSHAKE_MTYPE" \notin Pids
  BY PidsAssumption
<1>2. \A l \in Lines :
         ToServer(l) \in Queued /\ ToServer(l).type = "SERVER_MTYPE" /\ ToServer(l).line = l
  BY DEF Queued, ToServer
<1>3. \A c \in Pids :
         /\ Handshake(c) \in Queued /\ Handshake(c).type = "HANDSHAKE_MTYPE"
         /\ Handshake(c).line.from = c
  BY DEF Queued, Handshake
<1>4. \A c \in Pids, l \in Lines : To(c, l) \in Queued /\ To(c, l).type = c /\ To(c, l).line = l
  BY DEF Queued, To
<1>5. ASSUME NEW m \in Queued
      PROVE  /\ m.type = "SERVER_MTYPE" => m.line \in Lines /\ m = ToServer(m.line)
             /\ m.type = "HANDSHAKE_MTYPE" => m.line.from \in Pids
             /\ \A c \in Pids : m.type = c => m.line \in Lines
  <2>1. CASE \E l \in Lines : m = ToServer(l)
    BY <1>1, <1>2, <2>1
  <2>2. CASE \E c \in Pids : m = Handshake(c)
    BY <1>1, <1>3, <2>2
  <2>3. CASE \E c \in Pids, l \in Lines : m = To(c, l)
    BY <1>1, <1>4, <2>3
  <2> QED BY <2>1, <2>2, <2>3 DEF Queued
<1> QED BY <1>2, <1>3, <1>4, <1>5

LEMMA MessageSent ==
    ASSUME queue \in Seq(Queued), NEW m \in Queued, queue' = Append(queue, m),
           NEW type, m.type = type
    PROVE  /\ queue' \in Seq(Queued) /\ Len(queue) \in Nat /\ Len(queue') = Len(queue) + 1
           /\ queue'[Len(queue) + 1] = m
           /\ \A t : Waiting(t) \subseteq 1..Len(queue)
           /\ \A t : \A k \in Waiting(t) : queue'[k] = queue[k]
           /\ \A t : t # type => Waiting(t)' = Waiting(t)
           /\ Waiting(type)' = Waiting(type) \cup {Len(queue) + 1}
<1>1. /\ queue' \in Seq(Queued) /\ Len(queue) \in Nat /\ Len(queue') = Len(queue) + 1
      /\ DOMAIN queue = 1..Len(queue) /\ DOMAIN queue' = 1..(Len(queue) + 1)
      /\ queue'[Len(queue) + 1] = m
      /\ \A k \in 1..Len(queue) : queue'[k] = queue[k]
  BY Appended
<1> QED BY <1>1 DEF Waiting

LEMMA MessageTaken ==
    ASSUME queue \in Seq(Queued), NEW t, Take(t)
    PROVE  LET i == Earliest(Waiting(t)) IN
           /\ i \in Waiting(t) /\ i \in 1..Len(queue) /\ queue[i].type = t /\ queue[i] \in Queued
           /\ \A k \in Waiting(t) : i <= k
           /\ queue' \in Seq(Queued) /\ Len(queue') = Len(queue) - 1 /\ Len(queue) \in Nat \ {0}
           /\ \A s : Waiting(s) \subseteq 1..Len(queue) /\ Waiting(s)' \subseteq 1..(Len(queue) - 1)
           /\ \A s : \A k \in Waiting(s)' :
                 Up(i, k) \in Waiting(s) \ {i} /\ queue'[k] = queue[Up(i, k)]
           /\ \A s : \A k \in Waiting(s) \ {i} : \E j \in Waiting(s)' : queue'[j] = queue[k]
           /\ \A j, k \in 1..(Len(queue) - 1) :
                 (j < k => Up(i, j) < Up(i, k)) /\ (Up(i, j) = Up(i, k) => j = k)
<1> DEFINE i == Earliest(Waiting(t))  n == Len(queue)
<1>1. n \in Nat /\ DOMAIN queue = 1..n
  OBVIOUS
<1>2. Waiting(t) \in SUBSET Nat /\ Waiting(t) # {} /\ Waiting(t) \subseteq 1..n
  BY <1>1 DEF Waiting, Take
<1>3. i \in Waiting(t) /\ \A k \in Waiting(t) : i <= k
  <2>1. \E k \in Waiting(t) : \A l \in Waiting(t) : k <= l
    BY <1>2, LeastExists
  <2> QED BY <2>1 DEF Earliest
<1>4. queue' = RemoveAt(queue, i)
  BY DEF Take
<1>5. i \in 1..n /\ queue[i].type = t /\ queue[i] \in Queued
  BY <1>1, <1>3 DEF Waiting
<1> HIDE DEF i
<1>6. /\ queue' \in Seq(Queued) /\ Len(queue') = n - 1 /\ n \in Nat \ {0}
      /\ DOMAIN queue' = 1..(n - 1)
      /\ \A k \in 1..(n - 1) : queue'[k] = queue[Up(i, k)]
  BY <1>4, <1>5, WithoutOne
<1>7. /\ \A k \in 1..(n - 1) : Up(i, k) \in (1..n) \ {i}
      /\ \A k \in (1..n) \ {i} : \E j \in 1..(n - 1) : Up(i, j) = k
      /\ \A j, k \in 1..(n - 1) : j < k => Up(i, j) < Up(i, k)
      /\ \A j, k \in 1..(n - 1) : Up(i, j) = Up(i, k) => j = k
  BY <1>1, <1>5, UpMaps
<1> HIDE DEF n
<1>8. \A s : Waiting(s) \subseteq 1..n /\ Waiting(s)' \subseteq 1..(n - 1)
  BY <1>1, <1>6 DEF Waiting
<1>9. \A s : \A k \in Waiting(s)' : Up(i, k) \in Waiting(s) \ {i} /\ queue'[k] = queue[Up(i, k)]
  BY <1>1, <1>6, <1>7 DEF Waiting
<1>10. \A s : \A k \in Waiting(s) \ {i} : \E j \in Waiting(s)' : queue'[j] = queue[k]
  <2> TAKE s
  <2> TAKE k \in Waiting(s) \ {i}
  <2>1. k \in (1..n) \ {i} /\ queue[k].type = s
    BY <1>1 DEF Waiting
  <2>2. PICK j \in 1..(n - 1) : Up(i, j) = k
    BY <1>7, <2>1
  <2>3. j \in Waiting(s)' /\ queue'[j] = queue[k]
    BY <1>6, <2>1, <2>2 DEF Waiting
  <2> QED BY <2>3
<1> QED BY <1>3, <1>5, <1>6, <1>7, <1>8, <1>9, <1>10 DEF i, n

\* What the queue and the client's screen hold together: sending adds to it, reading does not
\* change it.
LEMMA SentToGrows ==
    ASSUME queue \in Seq(Queued), NEW m \in Queued, queue' = Append(queue, m),
           received' = received, NEW c
    PROVE  SentTo(c)' = SentTo(c) \cup (IF m.type = c THEN {m.line} ELSE {})
<1>1. /\ Waiting(c)' = Waiting(c) \cup (IF m.type = c THEN {Len(queue) + 1} ELSE {})
      /\ \A k \in Waiting(c) : queue'[k] = queue[k]
      /\ queue'[Len(queue) + 1] = m
  BY MessageSent
<1>2. {queue'[k].line : k \in Waiting(c)} = {queue[k].line : k \in Waiting(c)}
  BY <1>1
<1>3. CASE m.type # c
  BY <1>1, <1>2, <1>3 DEF SentTo
<1>4. CASE m.type = c
  <2> DEFINE W == Waiting(c)  n == Len(queue) + 1
  <2>1. Waiting(c)' = W \cup {n}
    BY <1>1, <1>4
  <2>2. {queue'[k].line : k \in W} = {queue[k].line : k \in W} /\ queue'[n] = m
    BY <1>1, <1>2
  <2> HIDE DEF W, n
  <2>3. {queue'[k].line : k \in W \cup {n}} = {queue'[k].line : k \in W} \cup {m.line}
    BY <2>2
  <2>4. SentTo(c)' = {received[c][k] : k \in DOMAIN received[c]}
                        \cup {queue'[k].line : k \in W \cup {n}}
    BY <2>1 DEF SentTo
  <2>5. SentTo(c) = {received[c][k] : k \in DOMAIN received[c]} \cup {queue[k].line : k \in W}
    BY DEF SentTo, W
  <2> QED BY <1>4, <2>2, <2>3, <2>4, <2>5
<1> QED BY <1>3, <1>4

LEMMA SentToKept ==
    ASSUME queue \in Seq(Queued), NEW t, Take(t), NEW c,
           \/ t # c /\ received'[c] = received[c]
           \/ t = c /\ received[c] \in Seq(Lines) /\ received'[c] = Append(received[c], Taken(c))
    PROVE  SentTo(c)' = SentTo(c)
<1> DEFINE i == Earliest(Waiting(t))
<1>1. /\ i \in Waiting(t) /\ queue[i].type = t
      /\ \A k \in Waiting(c)' : Up(i, k) \in Waiting(c) \ {i} /\ queue'[k] = queue[Up(i, k)]
      /\ \A k \in Waiting(c) \ {i} : \E j \in Waiting(c)' : queue'[j] = queue[k]
  BY MessageTaken
<1> HIDE DEF i
<1>2. {queue[k].line : k \in Waiting(c)}' = {queue[k].line : k \in Waiting(c) \ {i}}
  BY <1>1
<1>3. CASE t # c /\ received'[c] = received[c]
  <2>1. i \notin Waiting(c)
    BY <1>1, <1>3 DEF Waiting
  <2> QED BY <1>2, <1>3, <2>1 DEF SentTo
<1>4. CASE t = c /\ received[c] \in Seq(Lines) /\ received'[c] = Append(received[c], Taken(c))
  <2>1. {received[c][k] : k \in DOMAIN received[c]}'
           = {received[c][k] : k \in DOMAIN received[c]} \cup {queue[i].line}
    <3> DEFINE r == received[c]  x == queue[i].line
    <3>1. received'[c] = Append(r, x)
      BY <1>4 DEF Taken, i
    <3>2. /\ DOMAIN r = 1..Len(r) /\ DOMAIN Append(r, x) = 1..(Len(r) + 1) /\ Len(r) \in Nat
          /\ Append(r, x)[Len(r) + 1] = x /\ \A k \in 1..Len(r) : Append(r, x)[k] = r[k]
      BY <1>4
    <3> HIDE DEF r, x
    <3>3. {Append(r, x)[k] : k \in DOMAIN Append(r, x)} = {r[k] : k \in DOMAIN r} \cup {x}
      BY <3>2
    <3> QED BY <3>1, <3>3 DEF r, x
  <2>2. {queue[k].line : k \in Waiting(c)}
           = {queue[k].line : k \in Waiting(c) \ {i}} \cup {queue[i].line}
    BY <1>1, <1>4
  <2>3. SentTo(c)' = {received[c][k] : k \in DOMAIN received[c]}'
                        \cup {queue[k].line : k \in Waiting(c)}'
    BY DEF SentTo
  <2>4. SentTo(c) = {received[c][k] : k \in DOMAIN received[c]}
                       \cup {queue[k].line : k \in Waiting(c)}
    BY DEF SentTo
  <2> QED BY <1>2, <2>1, <2>2, <2>3, <2>4
<1> QED BY <1>3, <1>4

\* The queue is there for those who use it, and a line for whoever sends it.
Using ==
    /\ server # "down" => exists
    /\ server = "broadcasting" => line \in Lines
    /\ server # "broadcasting" => next = 1
    /\ \A c \in Pids : cpc[c] = "send" => buffer[c] \in Kinds /\ typed[c] >= 1

\* A client registers once: its handshake is not yet sent, in the queue, or in the table.
Registered ==
    /\ \A k, l \in DOMAIN clients : clients[k] = clients[l] => k = l
    /\ \A k \in DOMAIN clients : cpc[clients[k]] \notin {"start", "greet"}
    /\ \A k \in Waiting("HANDSHAKE_MTYPE") :
          /\ cpc[queue[k].line.from] \notin {"start", "greet"}
          /\ \A l \in DOMAIN clients : clients[l] # queue[k].line.from
          /\ \A l \in Waiting("HANDSHAKE_MTYPE") :
                queue[l].line.from = queue[k].line.from => k = l

\* The lines that wait for the server are later than those it has taken, in the order in which
\* they were typed, and earlier than the one that is not yet sent.
NotSent(c) == IF cpc[c] = "send" THEN 1 ELSE 0
ToBeTaken ==
    /\ \A c \in Pids : handled[c] + NotSent(c) <= typed[c]
    /\ \A k \in Waiting("SERVER_MTYPE") :
          LET l == queue[k].line
          IN  /\ handled[l.from] < l.n
              /\ l.n + NotSent(l.from) <= typed[l.from]
              /\ \A j \in Waiting("SERVER_MTYPE") : j < k => Precedes(queue[j].line, l)

\* Only lines that the server has taken are sent to anybody; the one it is at, to those that it
\* has served.
Served(c) == \E k \in 1..(next - 1) : clients[k] = c
Broadcasted ==
    /\ server = "broadcasting" => line.n = handled[line.from]
    /\ \A c \in Pids : \A l \in SentTo(c) :
          /\ l.n <= handled[l.from]
          /\ server = "broadcasting" /\ l.from = line.from /\ ~Served(c) => l.n < line.n

\* Everybody whom the broadcast has passed has been sent the line.
NobodyLeftOut ==
    server = "broadcasting" =>
        \A k \in 1..(next - 1) : clients[k] # line.from => line \in SentTo(clients[k])

ChatInv ==
    /\ InOrderAtMostOnce
    /\ Using
    /\ Registered
    /\ ToBeTaken
    /\ Broadcasted
    /\ NobodyLeftOut

LEMMA OrderKept ==
    ASSUME NEW c, InOrder(c), received'[c] = received[c], Waiting(c)' = Waiting(c),
           \A k \in Waiting(c) : queue'[k] = queue[k]
    PROVE  InOrder(c)' /\ SentTo(c)' = SentTo(c)
<1>1. InOrder(c)'
  BY DEF InOrder
<1>2. {queue'[k].line : k \in Waiting(c)} = {queue[k].line : k \in Waiting(c)}
  OBVIOUS
<1> QED BY <1>1, <1>2 DEF SentTo

LEMMA OrderAfterTake ==
    ASSUME queue \in Seq(Queued), NEW t, Take(t), NEW c, InOrder(c),
           \/ t # c /\ received'[c] = received[c]
           \/ t = c /\ received[c] \in Seq(Lines) /\ received'[c] = Append(received[c], Taken(c))
    PROVE  InOrder(c)'
<1> DEFINE i == Earliest(Waiting(t))  n == Len(queue)
<1>1. /\ i \in Waiting(t) /\ i \in 1..n /\ n \in Nat \ {0} /\ \A k \in Waiting(t) : i <= k
      /\ Waiting(c) \subseteq 1..n /\ Waiting(c)' \subseteq 1..(n - 1)
      /\ \A k \in Waiting(c)' : Up(i, k) \in Waiting(c) \ {i} /\ queue'[k] = queue[Up(i, k)]
      /\ \A j, k \in 1..(n - 1) : j < k => Up(i, j) < Up(i, k)
  BY MessageTaken
<1> HIDE DEF i, n
<1>2. \A k \in Waiting(c)' :
         /\ queue'[k].line.from # c
         /\ \A l \in Waiting(c)' : l < k => Precedes(queue'[l].line, queue'[k].line)
         /\ \A l \in DOMAIN received[c] : Precedes(received[c][l], queue'[k].line)
  BY <1>1 DEF InOrder
<1>3. CASE t # c /\ received'[c] = received[c]
  BY <1>2, <1>3 DEF InOrder
<1>4. CASE t = c /\ received[c] \in Seq(Lines) /\ received'[c] = Append(received[c], Taken(c))
  <2> DEFINE r == received[c]  x == queue[i].line  r2 == received'[c]
  <2>1. /\ DOMAIN r = 1..Len(r) /\ DOMAIN r2 = 1..(Len(r) + 1) /\ Len(r) \in Nat
        /\ r2[Len(r) + 1] = x /\ \A k \in 1..Len(r) : r2[k] = r[k]
    BY <1>4 DEF Taken, i
  <2>2. x.from # c /\ \A l \in DOMAIN r : Precedes(r[l], x)
    BY <1>1, <1>4 DEF InOrder
  <2>3. \A k \in DOMAIN r : r[k].from # c /\ \A l \in 1..(k - 1) : Precedes(r[l], r[k])
    BY DEF InOrder
  <2>4. \A k \in Waiting(c)' : Precedes(x, queue'[k].line)
    BY <1>1, <1>4 DEF InOrder
  <2>5. \A k \in Waiting(c)' : \A l \in DOMAIN r : Precedes(r[l], queue'[k].line)
    BY <1>2
  <2> HIDE DEF x, r, r2
  <2>6. \A k \in DOMAIN r2 : r2[k].from # c /\ \A l \in 1..(k - 1) : Precedes(r2[l], r2[k])
    BY <2>1, <2>2, <2>3
  <2>7. \A k \in Waiting(c)' : \A l \in DOMAIN r2 : Precedes(r2[l], queue'[k].line)
    BY <2>1, <2>4, <2>5
  <2> QED BY <1>2, <2>6, <2>7 DEF InOrder, r2
<1> QED BY <1>3, <1>4

-----------------------------------------------------------------------------
LEMMA InitChat == MQInit => ChatInv
<1> SUFFICES ASSUME MQInit PROVE ChatInv
  OBVIOUS
<1>1. /\ queue = <<>> /\ <<>> \in Seq(Queued) /\ <<>> \in Seq(Lines) /\ <<>> \in Seq(Pids)
      /\ Len(<<>>) = 0
      /\ DOMAIN <<>> = {}
  BY DEF MQInit
<1>2. \A t : Waiting(t) = {}
  BY <1>1 DEF Waiting
<1>3. MQTypeOK
  <2>1. exists \in BOOLEAN /\ msqid \subseteq Pids /\ (~exists => queue = <<>> /\ msqid = {})
    BY DEF MQInit
  <2>4. /\ queue \in Seq(Queued) /\ Len(queue) <= QueueMax /\ clients \in Seq(Pids)
    BY <1>1, ChatBoundsAssumption DEF MQInit
  <2>3. next \in 1..(Len(clients) + 1) /\ boots \in 0..MaxBoots
    BY <1>1, ChatBoundsAssumption DEF MQInit
  <2>2. /\ typed \in [Pids -> 0..MaxLines] /\ handled \in [Pids -> 0..MaxLines]
        /\ received \in [Pids -> Seq(Lines)]
    BY <1>1, ChatBoundsAssumption DEF MQInit
  <2> QED BY <2>1, <2>2, <2>3, <2>4 DEF MQInit, MQTypeOK
<1>4. \A c \in Pids : received[c] = <<>> /\ InOrder(c) /\ SentTo(c) = {}
  BY <1>1, <1>2 DEF MQInit, InOrder, SentTo
<1>5. Using /\ Registered /\ ToBeTaken /\ Broadcasted /\ NobodyLeftOut
  BY <1>1, <1>2, <1>4
     DEF MQInit, Using, Registered, ToBeTaken, NotSent, Broadcasted, NobodyLeftOut
<1> QED BY <1>3, <1>4, <1>5 DEF ChatInv, InOrderAtMostOnce

\* The steps that leave the queue and the server's work alone.
LEMMA QuietChat ==
    ASSUME ChatInv, MQTypeOK', Using',
           UNCHANGED <<queue, received, clients, line, next, handled>>,
           server' = "broadcasting" <=> server = "broadcasting",
           \A c \in Pids : cpc'[c] \in {"start", "greet"} => cpc[c] \in {"start", "greet"},
           \A c \in Pids : typed[c] + NotSent(c)' <= typed'[c] + NotSent(c)
    PROVE  ChatInv'
<1>1. \A t : Waiting(t)' = Waiting(t)
  BY DEF Waiting
<1>2. \A c \in Pids : InOrder(c)' /\ SentTo(c)' = SentTo(c)
  BY <1>1, OrderKept DEF ChatInv, InOrderAtMostOnce
<1>3. Registered'
  <2>1. /\ \A k \in DOMAIN clients : clients[k] \in Pids
        /\ \A k \in Waiting("HANDSHAKE_MTYPE") : queue[k].line.from \in Pids
    BY Kinded DEF ChatInv, InOrderAtMostOnce, MQTypeOK, Waiting
  <2> QED BY <1>1, <2>1 DEF ChatInv, Registered
<1>4. ToBeTaken'
  <2>1. \A k \in Waiting("SERVER_MTYPE") : queue[k].line \in Lines
    BY Kinded DEF ChatInv, InOrderAtMostOnce, MQTypeOK, Waiting
  <2>2. \A c \in Pids : /\ NotSent(c) \in Nat /\ NotSent(c)' \in Nat
                        /\ typed[c] \in Nat /\ typed'[c] \in Nat /\ handled[c] \in Nat
    BY DEF ChatInv, InOrderAtMostOnce, MQTypeOK, NotSent
  <2>3. \A l \in Lines : l.from \in Pids /\ l.n \in Nat
    BY DEF Lines
  <2>4. \A c \in Pids : handled[c] + NotSent(c)' <= typed'[c]
    BY <2>2 DEF ChatInv, ToBeTaken
  <2>5. \A c \in Pids, n \in Nat : n + NotSent(c) <= typed[c] => n + NotSent(c)' <= typed'[c]
    BY <2>2
  <2> QED BY <1>1, <2>1, <2>3, <2>4, <2>5 DEF ChatInv, ToBeTaken
<1>5. Broadcasted' /\ NobodyLeftOut'
  <2>1. server = "broadcasting" => \A k \in 1..(next - 1) : clients[k] \in Pids
    BY DEF ChatInv, InOrderAtMostOnce, MQTypeOK
  <2> QED BY <1>2, <2>1 DEF ChatInv, Broadcasted, Served, NobodyLeftOut
<1> QED BY <1>2, <1>3, <1>4, <1>5 DEF ChatInv, InOrderAtMostOnce

LEMMA ChatData ==
    ASSUME ChatInv
    PROVE  /\ queue \in Seq(Queued) /\ Len(queue) \in Nat /\ DOMAIN queue = 1..Len(queue)
           /\ clients \in Seq(Pids) /\ Len(clients) \in Nat /\ DOMAIN clients = 1..Len(clients)
           /\ \A k \in DOMAIN clients : clients[k] \in Pids
           /\ \A t : \A k \in Waiting(t) : k \in 1..Len(queue) /\ queue[k].type = t
           /\ \A k \in Waiting("HANDSHAKE_MTYPE") : queue[k].line.from \in Pids
           /\ \A k \in Waiting("SERVER_MTYPE") : queue[k].line \in Lines
           /\ \A c \in Pids : \A k \in Waiting(c) : queue[k].line \in Lines
           /\ \A c \in Pids : \A l \in SentTo(c) : l \in Lines
           /\ \A l \in Lines : l.from \in Pids /\ l.n \in 1..MaxLines /\ l.n \in Nat
           /\ \A c \in Pids : /\ typed[c] \in Nat /\ handled[c] \in Nat /\ NotSent(c) \in {0, 1}
                              /\ received[c] \in Seq(Lines)
                              /\ InOrder(c)
           /\ "SERVER_MTYPE" \notin Pids /\ "HANDSHAKE_MTYPE" \notin Pids
<1>1. MQTypeOK
  BY DEF ChatInv, InOrderAtMostOnce
<1>2. \A k \in DOMAIN queue : queue[k] \in Queued
  BY <1>1 DEF MQTypeOK
<1>3. /\ \A k \in Waiting("HANDSHAKE_MTYPE") : queue[k].line.from \in Pids
      /\ \A k \in Waiting("SERVER_MTYPE") : queue[k].line \in Lines
      /\ \A c \in Pids : \A k \in Waiting(c) : queue[k].line \in Lines
  BY <1>2, Kinded DEF Waiting
<1>4. \A c \in Pids : received[c] \in Seq(Lines)
  BY <1>1 DEF MQTypeOK
<1>5. \A c \in Pids : \A l \in SentTo(c) : l \in Lines
  <2> TAKE c \in Pids
  <2>1. \A k \in DOMAIN received[c] : received[c][k] \in Lines
    BY <1>4
  <2> QED BY <1>3, <2>1 DEF SentTo
<1>6. \A l \in Lines : l.from \in Pids /\ l.n \in 1..MaxLines /\ l.n \in Nat
  BY ChatBoundsAssumption DEF Lines
<1>7. \A c \in Pids : typed[c] \in Nat /\ handled[c] \in Nat /\ NotSent(c) \in {0, 1}
  BY <1>1, ChatBoundsAssumption DEF MQTypeOK, NotSent
<1>8. /\ queue \in Seq(Queued) /\ Len(queue) \in Nat /\ DOMAIN queue = 1..Len(queue)
      /\ clients \in Seq(Pids) /\ Len(clients) \in Nat /\ DOMAIN clients = 1..Len(clients)
      /\ \A k \in DOMAIN clients : clients[k] \in Pids
  BY <1>1 DEF MQTypeOK
<1>9. \A t : \A k \in Waiting(t) : k \in 1..Len(queue) /\ queue[k].type = t
  BY <1>8 DEF Waiting
<1>10. \A c \in Pids : InOrder(c)
  BY DEF ChatInv, InOrderAtMostOnce
<1>11. "SERVER_MTYPE" \notin Pids /\ "HANDSHAKE_MTYPE" \notin Pids
  BY PidsAssumption
<1> QED BY <1>3, <1>4, <1>5, <1>6, <1>7, <1>8, <1>9, <1>10, <1>11

\* What is known of the messages to the server that a message is taken from.
LEMMA Remaining ==
    ASSUME ChatInv, NEW t, Take(t)
    PROVE  /\ \A k \in Waiting("HANDSHAKE_MTYPE")' :
                 LET c == queue'[k].line.from IN
                 /\ c \in Pids /\ cpc[c] \notin {"start", "greet"}
                 /\ \A l \in DOMAIN clients : clients[l] # c
                 /\ \A l \in Waiting("HANDSHAKE_MTYPE")' : queue'[l].line.from = c => k = l
                 /\ t = "HANDSHAKE_MTYPE" => c # Taken(t).from
           /\ \A k \in Waiting("SERVER_MTYPE")' :
                 LET l == queue'[k].line IN
                 /\ l \in Lines /\ handled[l.from] < l.n /\ l.n + NotSent(l.from) <= typed[l.from]
                 /\ \A j \in Waiting("SERVER_MTYPE")' : j < k => Precedes(queue'[j].line, l)
                 /\ t = "SERVER_MTYPE" => Precedes(Taken(t), l)
<1> DEFINE i == Earliest(Waiting(t))  n == Len(queue)
<1>1. /\ i \in Waiting(t) /\ i \in 1..n /\ n \in Nat \ {0} /\ \A k \in Waiting(t) : i <= k
      /\ \A s : Waiting(s) \subseteq 1..n /\ Waiting(s)' \subseteq 1..(n - 1)
      /\ \A s : \A k \in Waiting(s)' : Up(i, k) \in Waiting(s) \ {i} /\ queue'[k] = queue[Up(i, k)]
      /\ \A j, k \in 1..(n - 1) :
            (j < k => Up(i, j) < Up(i, k)) /\ (Up(i, j) = Up(i, k) => j = k)
  BY MessageTaken, ChatData
<1>2. Taken(t) = queue[i].line
  BY DEF Taken
<1> HIDE DEF i, n
<1>3. ASSUME NEW k \in Waiting("HANDSHAKE_MTYPE")'
      PROVE  LET c == queue'[k].line.from IN
             /\ c \in Pids /\ cpc[c] \notin {"start", "greet"}
             /\ \A l \in DOMAIN clients : clients[l] # c
             /\ \A l \in Waiting("HANDSHAKE_MTYPE")' : queue'[l].line.from = c => k = l
             /\ t = "HANDSHAKE_MTYPE" => c # Taken(t).from
  <2>1. Up(i, k) \in Waiting("HANDSHAKE_MTYPE") \ {i} /\ queue'[k] = queue[Up(i, k)]
    BY <1>1
  <2>2. /\ queue[Up(i, k)].line.from \in Pids
        /\ cpc[queue[Up(i, k)].line.from] \notin {"start", "greet"}
        /\ \A l \in DOMAIN clients : clients[l] # queue[Up(i, k)].line.from
        /\ \A l \in Waiting("HANDSHAKE_MTYPE") :
              queue[l].line.from = queue[Up(i, k)].line.from => Up(i, k) = l
    BY <2>1, ChatData DEF ChatInv, Registered
  <2>3. \A l \in Waiting("HANDSHAKE_MTYPE")' : queue'[l].line.from = queue'[k].line.from => k = l
    BY <1>1, <2>1, <2>2
  <2>4. t = "HANDSHAKE_MTYPE" => queue'[k].line.from # Taken(t).from
    BY <1>1, <1>2, <2>1, <2>2
  <2> QED BY <2>1, <2>2, <2>3, <2>4
<1>4. ASSUME NEW k \in Waiting("SERVER_MTYPE")'
      PROVE  LET l == queue'[k].line IN
             /\ l \in Lines /\ handled[l.from] < l.n /\ l.n + NotSent(l.from) <= typed[l.from]
             /\ \A j \in Waiting("SERVER_MTYPE")' : j < k => Precedes(queue'[j].line, l)
             /\ t = "SERVER_MTYPE" => Precedes(Taken(t), l)
  <2>1. Up(i, k) \in Waiting("SERVER_MTYPE") \ {i} /\ queue'[k] = queue[Up(i, k)]
    BY <1>1
  <2> DEFINE l == queue[Up(i, k)].line
  <2>2. /\ l \in Lines /\ handled[l.from] < l.n /\ l.n + NotSent(l.from) <= typed[l.from]
        /\ \A j \in Waiting("SERVER_MTYPE") : j < Up(i, k) => Precedes(queue[j].line, l)
    BY <2>1, ChatData DEF ChatInv, ToBeTaken
  <2>3. \A j \in Waiting("SERVER_MTYPE")' : j < k => Precedes(queue'[j].line, l)
    BY <1>1, <2>2
  <2>4. t = "SERVER_MTYPE" => Precedes(Taken(t), l)
    BY <1>1, <1>2, <2>1, <2>2
  <2> QED BY <2>1, <2>2, <2>3, <2>4
<1> QED BY <1>3, <1>4

\* Taking a message keeps the queue's own part of the type invariant.
LEMMA TakeTyped ==
    ASSUME ChatInv, NEW t, Take(t)
    PROVE  /\ queue' \in Seq(Queued) /\ Len(queue') <= QueueMax
           /\ exists /\ exists' /\ msqid' = msqid
<1>1. /\ queue' \in Seq(Queued) /\ Len(queue') = Len(queue) - 1 /\ Len(queue) \in Nat \ {0}
  BY MessageTaken, ChatData
<1>2. /\ exists' = exists /\ msqid' = msqid /\ Len(queue) <= QueueMax /\ QueueMax \in Nat
      /\ ~exists => queue = <<>>
  BY ChatBoundsAssumption DEF ChatInv, InOrderAtMostOnce, MQTypeOK, Take
<1>3. queue # <<>>
  BY <1>1
<1> QED BY <1>1, <1>2, <1>3

-----------------------------------------------------------------------------
\* The steps of a client.
LEMMA StartChat ==
    ASSUME ChatInv, NEW c \in Pids, Start(c)
    PROVE  ChatInv'
<1>1. /\ UNCHANGED <<exists, queue, svars, buffer, typed, received>>
      /\ cpc[c] = "start" /\ cpc' = [cpc EXCEPT ![c] = IF exists THEN "greet" ELSE "exited"]
      /\ msqid' = IF exists THEN msqid \cup {c} ELSE msqid
  BY DEF Start, MQGoto
<1>2. MQTypeOK'
  BY <1>1 DEF ChatInv, InOrderAtMostOnce, MQTypeOK, svars
<1>3. /\ \A d \in Pids : cpc'[d] = "send" <=> cpc[d] = "send"
      /\ \A d \in Pids : cpc'[d] \in {"start", "greet"} => cpc[d] \in {"start", "greet"}
  BY <1>1 DEF ChatInv, InOrderAtMostOnce, MQTypeOK
<1>4. Using'
  BY <1>1, <1>3 DEF ChatInv, Using, svars
<1>5. \A d \in Pids : typed[d] + NotSent(d)' <= typed'[d] + NotSent(d)
  BY <1>1, <1>3, ChatData DEF NotSent
<1> QED BY <1>1, <1>2, <1>3, <1>4, <1>5, QuietChat DEF svars

LEMMA GoneChat ==
    ASSUME ChatInv, NEW c \in Pids, QueueGone(c)
    PROVE  ChatInv'
<1>1. /\ UNCHANGED <<qvars, svars, buffer, typed, received>> /\ cpc' = [cpc EXCEPT ![c] = "exited"]
  BY DEF QueueGone, MQGoto
<1>2. MQTypeOK'
  BY <1>1 DEF ChatInv, InOrderAtMostOnce, MQTypeOK, svars, qvars
<1>3. /\ \A d \in Pids : cpc'[d] = "send" => cpc[d] = "send"
      /\ \A d \in Pids : cpc'[d] \in {"start", "greet"} => cpc[d] \in {"start", "greet"}
  BY <1>1 DEF ChatInv, InOrderAtMostOnce, MQTypeOK
<1>4. Using'
  BY <1>1, <1>3 DEF ChatInv, Using, svars, qvars
<1>5. \A d \in Pids : typed[d] + NotSent(d)' <= typed'[d] + NotSent(d)
  BY <1>1, <1>3, ChatData DEF NotSent
<1> QED BY <1>1, <1>2, <1>3, <1>4, <1>5, QuietChat DEF svars, qvars

LEMMA TypeChat ==
    ASSUME ChatInv, NEW c \in Pids, TypeLine(c)
    PROVE  ChatInv'
<1> DEFINE more == cpc'[c] = "send"
<1>1. /\ UNCHANGED <<qvars, svars, received>> /\ cpc[c] = "input"
      /\ cpc' = [cpc EXCEPT ![c] = cpc'[c]] /\ cpc'[c] \in {"send", "read", "exited"}
      /\ buffer' = [buffer EXCEPT ![c] = buffer'[c]]
      /\ more => typed[c] < MaxLines /\ typed' = [typed EXCEPT ![c] = @ + 1] /\ buffer'[c] \in Kinds
      /\ ~more => typed' = typed /\ buffer'[c] \in {buffer[c], "empty"}
  BY DEF TypeLine, MQGoto, ChatInv, InOrderAtMostOnce, MQTypeOK
<1>2. typed' \in [Pids -> 0..MaxLines] /\ \A d \in Pids : d # c => typed'[d] = typed[d]
  <2>1. typed \in [Pids -> 0..MaxLines] /\ MaxLines \in Nat
    BY ChatBoundsAssumption DEF ChatInv, InOrderAtMostOnce, MQTypeOK
  <2>2. CASE more
    <3>1. typed' = [typed EXCEPT ![c] = typed[c] + 1] /\ typed[c] + 1 \in 0..MaxLines
      BY <1>1, <2>1, <2>2
    <3> QED BY <2>1, <3>1
  <2>3. CASE ~more
    BY <1>1, <2>1, <2>3
  <2> QED BY <2>2, <2>3
<1>3. MQTypeOK'
  <2>1. buffer \in [Pids -> Kinds \cup {"hello", "empty"}]
    BY DEF ChatInv, InOrderAtMostOnce, MQTypeOK
  <2>2. buffer' \in [Pids -> Kinds \cup {"hello", "empty"}]
    BY <1>1, <2>1
  <2>3. cpc' \in [Pids -> {"start", "greet", "read", "input", "send", "exited"}]
    BY <1>1 DEF ChatInv, InOrderAtMostOnce, MQTypeOK
  <2> QED BY <1>1, <1>2, <2>2, <2>3 DEF ChatInv, InOrderAtMostOnce, MQTypeOK, svars, qvars
<1>4. /\ \A d \in Pids : cpc'[d] \in {"start", "greet"} => cpc[d] \in {"start", "greet"}
      /\ \A d \in Pids : d # c => cpc'[d] = cpc[d] /\ buffer'[d] = buffer[d]
  BY <1>1 DEF ChatInv, InOrderAtMostOnce, MQTypeOK
<1>5. more => typed'[c] = typed[c] + 1
  BY <1>1 DEF ChatInv, InOrderAtMostOnce, MQTypeOK
<1>6. Using'
  BY <1>1, <1>2, <1>4, <1>5, ChatData DEF ChatInv, Using, svars, qvars
<1>7. \A d \in Pids : typed[d] + NotSent(d)' <= typed'[d] + NotSent(d)
  BY <1>1, <1>2, <1>4, <1>5, ChatData DEF NotSent
<1> QED BY <1>1, <1>3, <1>4, <1>6, <1>7, QuietChat DEF svars, qvars

LEMMA BroadcastKept ==
    ASSUME ChatInv, \A c \in Pids : SentTo(c)' = SentTo(c),
           UNCHANGED <<clients, line, next, handled>>,
           server' = "broadcasting" <=> server = "broadcasting"
    PROVE  Broadcasted' /\ NobodyLeftOut'
<1>1. server = "broadcasting" => \A k \in 1..(next - 1) : clients[k] \in Pids
  BY DEF ChatInv, InOrderAtMostOnce, MQTypeOK
<1> QED BY <1>1 DEF ChatInv, Broadcasted, Served, NobodyLeftOut

LEMMA ReadChat ==
    ASSUME ChatInv, NEW c \in Pids, Read(c)
    PROVE  ChatInv'
<1>1. /\ UNCHANGED <<svars, buffer, typed>> /\ cpc[c] = "read" /\ c \in msqid
      /\ cpc' = [cpc EXCEPT ![c] = cpc'[c]] /\ cpc'[c] \in {"read", "input"}
  BY DEF Read, MQGoto, ChatInv, InOrderAtMostOnce, MQTypeOK
<1>2. /\ \A d \in Pids : cpc'[d] = "send" <=> cpc[d] = "send"
      /\ \A d \in Pids : cpc'[d] \in {"start", "greet"} => cpc[d] \in {"start", "greet"}
      /\ cpc' \in [Pids -> {"start", "greet", "read", "input", "send", "exited"}]
  BY <1>1 DEF ChatInv, InOrderAtMostOnce, MQTypeOK
<1>3. \A d \in Pids : NotSent(d)' = NotSent(d)
  BY <1>2 DEF NotSent
<1>4. CASE Take(c) /\ received' = [received EXCEPT ![c] = Append(@, Taken(c))]
  <2>1. Taken(c) \in Lines
    BY <1>4, MessageTaken, ChatData DEF Taken
  <2>2. received' \in [Pids -> Seq(Lines)] /\ received'[c] = Append(received[c], Taken(c))
        /\ \A d \in Pids : d # c => received'[d] = received[d]
    BY <1>4, <2>1 DEF ChatInv, InOrderAtMostOnce, MQTypeOK
  <2>3. MQTypeOK'
    BY <1>1, <1>2, <1>4, <2>2, TakeTyped DEF ChatInv, InOrderAtMostOnce, MQTypeOK, svars
  <2>4. \A d \in Pids : InOrder(d)' /\ SentTo(d)' = SentTo(d)
    BY <1>4, <2>2, ChatData, OrderAfterTake, SentToKept
  <2>5. Using'
    BY <1>1, <1>2, <1>4, TakeTyped DEF ChatInv, Using, svars
  <2>6. Registered'
    BY <1>1, <1>2, <1>4, Remaining, ChatData DEF ChatInv, Registered, svars
  <2>7. ToBeTaken'
    BY <1>1, <1>3, <1>4, Remaining, ChatData DEF ChatInv, ToBeTaken, svars
  <2>8. Broadcasted' /\ NobodyLeftOut'
    BY <1>1, <2>4, BroadcastKept DEF svars
  <2> QED BY <2>3, <2>4, <2>5, <2>6, <2>7, <2>8 DEF ChatInv, InOrderAtMostOnce
<1>5. CASE UNCHANGED <<qvars, received>>
  <2>1. MQTypeOK'
    BY <1>1, <1>2, <1>5 DEF ChatInv, InOrderAtMostOnce, MQTypeOK, svars, qvars
  <2>2. Using'
    BY <1>1, <1>2, <1>5 DEF ChatInv, Using, svars, qvars
  <2>3. \A d \in Pids : typed[d] + NotSent(d)' <= typed'[d] + NotSent(d)
    BY <1>1, <1>3, ChatData
  <2> QED BY <1>1, <1>2, <1>5, <2>1, <2>2, <2>3, QuietChat DEF svars, qvars
<1> QED BY <1>4, <1>5 DEF Read

LEMMA SendTyped ==
    ASSUME ChatInv, NEW m \in Queued, Send(m)
    PROVE  /\ queue \in Seq(Queued) /\ queue' = Append(queue, m)
           /\ queue' \in Seq(Queued) /\ Len(queue') <= QueueMax
           /\ exists' = exists /\ msqid' = msqid
<1>1. queue' \in Seq(Queued) /\ Len(queue') = Len(queue) + 1 /\ Len(queue) \in Nat
  BY MessageSent, ChatData DEF Send
<1>2. Len(queue) < QueueMax /\ QueueMax \in Nat
  BY ChatBoundsAssumption DEF Send, HasRoom
<1> QED BY <1>1, <1>2, ChatData DEF Send

LEMMA GreetChat ==
    ASSUME ChatInv, NEW c \in Pids, Greet(c)
    PROVE  ChatInv'
<1>0. PICK m \in Queued, n \in Nat :
         /\ m = Handshake(c) /\ m.type = "HANDSHAKE_MTYPE" /\ m.line.from = c
         /\ n = Len(queue) + 1
  BY Kinded, ChatData
<1>1. /\ UNCHANGED <<svars, buffer, typed, received>> /\ cpc[c] = "greet" /\ c \in msqid
      /\ cpc' = [cpc EXCEPT ![c] = "read"] /\ Send(m)
  BY <1>0 DEF Greet, MQGoto
<1>3. /\ queue' = Append(queue, m) /\ queue' \in Seq(Queued) /\ Len(queue') <= QueueMax
      /\ exists' = exists /\ msqid' = msqid
  BY <1>1, <1>0, SendTyped
<1>4. /\ queue'[n] = m /\ \A t : n \notin Waiting(t)
      /\ \A t : \A k \in Waiting(t) : queue'[k] = queue[k]
      /\ \A t : t # "HANDSHAKE_MTYPE" => Waiting(t)' = Waiting(t)
      /\ Waiting("HANDSHAKE_MTYPE")' = Waiting("HANDSHAKE_MTYPE") \cup {n}
  <2>1. queue \in Seq(Queued)
    BY ChatData
  <2> QED BY <1>0, <1>3, <2>1, MessageSent
<1>5. /\ \A d \in Pids : cpc'[d] = "send" <=> cpc[d] = "send"
      /\ \A d \in Pids : cpc'[d] \in {"start", "greet"} => d # c /\ cpc[d] \in {"start", "greet"}
      /\ cpc' \in [Pids -> {"start", "greet", "read", "input", "send", "exited"}]
  BY <1>1 DEF ChatInv, InOrderAtMostOnce, MQTypeOK
<1>6. exists
  BY <1>1 DEF ChatInv, InOrderAtMostOnce, MQTypeOK
<1>7. MQTypeOK'
  BY <1>1, <1>3, <1>5, <1>6 DEF ChatInv, InOrderAtMostOnce, MQTypeOK, svars
<1>8. \A d \in Pids : InOrder(d)' /\ SentTo(d)' = SentTo(d)
  BY <1>1, <1>4, ChatData, OrderKept
<1>9. Using'
  BY <1>1, <1>3, <1>5 DEF ChatInv, Using, svars
<1>10. Registered'
  <2>1. /\ \A k \in DOMAIN clients : clients[k] # c
        /\ \A k \in Waiting("HANDSHAKE_MTYPE") : queue[k].line.from # c
    BY <1>1, ChatData DEF ChatInv, Registered
  <2>2. /\ \A k, l \in DOMAIN clients : clients[k] = clients[l] => k = l
        /\ \A k \in DOMAIN clients : cpc'[clients[k]] \notin {"start", "greet"}
    BY <1>5, ChatData DEF ChatInv, Registered
  <2>3. \A k \in Waiting("HANDSHAKE_MTYPE") : LET d == queue[k].line.from IN
           /\ d # c /\ cpc'[d] \notin {"start", "greet"}
           /\ \A l \in DOMAIN clients : clients[l] # d
           /\ \A l \in Waiting("HANDSHAKE_MTYPE") : queue[l].line.from = d => k = l
    BY <1>5, <2>1, ChatData DEF ChatInv, Registered
  <2>4. \A k \in Waiting("HANDSHAKE_MTYPE")' : LET d == queue'[k].line.from IN
           /\ cpc'[d] \notin {"start", "greet"}
           /\ \A l \in DOMAIN clients : clients[l] # d
           /\ \A l \in Waiting("HANDSHAKE_MTYPE")' : queue'[l].line.from = d => k = l
    BY <1>0, <1>4, <1>5, <2>1, <2>3
  <2> QED BY <1>1, <2>2, <2>4 DEF Registered, svars
<1>11. ToBeTaken'
  <2>1. \A d \in Pids : NotSent(d)' = NotSent(d)
    BY <1>5 DEF NotSent
  <2>2. /\ Waiting("SERVER_MTYPE")' = Waiting("SERVER_MTYPE")
        /\ \A k \in Waiting("SERVER_MTYPE") : queue'[k] = queue[k] /\ queue[k].line.from \in Pids
    BY <1>4, ChatData
  <2>3. UNCHANGED <<handled, typed>>
    BY <1>1 DEF svars
  <2> QED BY <2>1, <2>2, <2>3 DEF ChatInv, ToBeTaken
<1>12. Broadcasted' /\ NobodyLeftOut'
  BY <1>1, <1>8, BroadcastKept DEF svars
<1> QED BY <1>7, <1>8, <1>9, <1>10, <1>11, <1>12 DEF ChatInv, InOrderAtMostOnce

LEMMA SendLineChat ==
    ASSUME ChatInv, NEW c \in Pids, SendLine(c)
    PROVE  ChatInv'
<1>1. /\ UNCHANGED <<svars, buffer, typed, received>> /\ cpc[c] = "send" /\ c \in msqid
      /\ cpc' = [cpc EXCEPT ![c] = "read"]
      /\ Send(ToServer([from |-> c, n |-> typed[c], kind |-> buffer[c]]))
  BY DEF SendLine, MQGoto
<1>2. PICK l \in Lines : /\ l = [from |-> c, n |-> typed[c], kind |-> buffer[c]]
                        /\ l.from = c /\ l.n = typed[c]
  <2>1. buffer[c] \in Kinds /\ typed[c] \in 1..MaxLines
    BY <1>1, ChatBoundsAssumption DEF ChatInv, Using, InOrderAtMostOnce, MQTypeOK
  <2>2. [from |-> c, n |-> typed[c], kind |-> buffer[c]] \in Lines
    BY <2>1 DEF Lines
  <2> QED BY <2>2
<1>3. PICK m \in Queued, n \in Nat :
         /\ Send(m) /\ m.type = "SERVER_MTYPE" /\ m.line = l
         /\ n = Len(queue) + 1
  BY <1>1, <1>2, Kinded, ChatData
<1>4. /\ queue' = Append(queue, m) /\ queue' \in Seq(Queued) /\ Len(queue') <= QueueMax
      /\ exists' = exists /\ msqid' = msqid
  BY <1>1, <1>3, SendTyped
<1>14. \A t : \A k \in Waiting(t) : k < n /\ k \in Nat
  BY <1>3, ChatData
<1>5. /\ queue'[n] = m
      /\ \A t : \A k \in Waiting(t) : queue'[k] = queue[k]
      /\ \A t : t # "SERVER_MTYPE" => Waiting(t)' = Waiting(t)
      /\ Waiting("SERVER_MTYPE")' = Waiting("SERVER_MTYPE") \cup {n}
  <2>1. queue \in Seq(Queued)
    BY ChatData
  <2> QED BY <1>3, <1>4, <2>1, MessageSent
<1>6. /\ \A d \in Pids : cpc'[d] = "send" <=> cpc[d] = "send" /\ d # c
      /\ \A d \in Pids : cpc'[d] \in {"start", "greet"} => cpc[d] \in {"start", "greet"}
      /\ cpc' \in [Pids -> {"start", "greet", "read", "input", "send", "exited"}]
  BY <1>1 DEF ChatInv, InOrderAtMostOnce, MQTypeOK
<1>7. exists
  BY <1>1 DEF ChatInv, InOrderAtMostOnce, MQTypeOK
<1>8. MQTypeOK'
  BY <1>1, <1>4, <1>6, <1>7 DEF ChatInv, InOrderAtMostOnce, MQTypeOK, svars
<1>9. \A d \in Pids : InOrder(d)' /\ SentTo(d)' = SentTo(d)
  BY <1>1, <1>5, ChatData, OrderKept
<1>10. Using'
  BY <1>1, <1>4, <1>6 DEF ChatInv, Using, svars
<1>11. Registered'
  <2>1. /\ \A k, i \in DOMAIN clients : clients[k] = clients[i] => k = i
        /\ \A k \in DOMAIN clients : cpc'[clients[k]] \notin {"start", "greet"}
    BY <1>6, ChatData DEF ChatInv, Registered
  <2>2. \A k \in Waiting("HANDSHAKE_MTYPE") : LET d == queue[k].line.from IN
           /\ cpc'[d] \notin {"start", "greet"}
           /\ \A i \in DOMAIN clients : clients[i] # d
           /\ \A i \in Waiting("HANDSHAKE_MTYPE") : queue[i].line.from = d => k = i
    BY <1>6, ChatData DEF ChatInv, Registered
  <2> QED BY <1>1, <1>5, <2>1, <2>2 DEF Registered, svars
<1>12. ToBeTaken'
  <2>1. \A d \in Pids : (IF cpc'[d] = "send" THEN 1 ELSE 0) = IF d = c THEN 0 ELSE NotSent(d)
    BY <1>6 DEF NotSent
  <2>2. NotSent(c) = 1
    BY <1>1 DEF NotSent
  <2>3. handled[c] < typed[c]
    BY <2>2, ChatData DEF ChatInv, ToBeTaken
  <2>4. \A k \in Waiting("SERVER_MTYPE") : Precedes(queue[k].line, l)
    BY <1>2, <2>2, ChatData DEF ChatInv, ToBeTaken, Precedes
  <2>5. \A d \in Pids : handled[d] + (IF d = c THEN 0 ELSE NotSent(d)) <= typed[d]
    BY ChatData DEF ChatInv, ToBeTaken
  <2>6. \A k \in Waiting("SERVER_MTYPE") :
           LET j == queue[k].line
           IN  /\ handled[j.from] < j.n /\ j.from \in Pids
               /\ j.n + (IF j.from = c THEN 0 ELSE NotSent(j.from)) <= typed[j.from]
               /\ \A i \in Waiting("SERVER_MTYPE") : i < k => Precedes(queue[i].line, j)
    BY ChatData DEF ChatInv, ToBeTaken
  <2>7. \A k \in Waiting("SERVER_MTYPE")' :
           LET j == queue'[k].line
           IN  /\ handled[j.from] < j.n
               /\ j.from \in Pids
               /\ j.n + (IF j.from = c THEN 0 ELSE NotSent(j.from)) <= typed[j.from]
               /\ \A i \in Waiting("SERVER_MTYPE")' : i < k => Precedes(queue'[i].line, j)
    <3> TAKE k \in Waiting("SERVER_MTYPE")'
    <3>1. CASE k = n
      <4>1. queue'[k].line = l /\ l.from = c /\ l.n = typed[c]
        BY <1>2, <1>3, <1>5, <3>1
      <4>2. handled[c] < typed[c] /\ typed[c] + 0 <= typed[c]
        BY <2>3, ChatData
      <4>3. \A i \in Waiting("SERVER_MTYPE")' : i < k => Precedes(queue'[i].line, l)
        <5> TAKE i \in Waiting("SERVER_MTYPE")'
        <5>1. n \in Nat
          BY <1>3
        <5>2. i = n \/ i \in Waiting("SERVER_MTYPE")
          BY <1>5
        <5> QED BY <1>5, <2>4, <3>1, <5>1, <5>2
      <4> QED BY <4>1, <4>2, <4>3
    <3>2. CASE k \in Waiting("SERVER_MTYPE")
      BY <1>5, <1>14, <2>6, <3>2
    <3> QED BY <1>5, <3>1, <3>2
  <2>8. \A d \in Pids : handled[d] + (IF cpc'[d] = "send" THEN 1 ELSE 0) <= typed[d]
    BY <2>1, <2>5
  <2>9. \A k \in Waiting("SERVER_MTYPE")' : LET j == queue'[k].line IN
           j.n + (IF cpc'[j.from] = "send" THEN 1 ELSE 0) <= typed[j.from]
    BY <2>1, <2>7
  <2> QED BY <1>1, <2>7, <2>8, <2>9 DEF ToBeTaken, NotSent, svars
<1>13. Broadcasted' /\ NobodyLeftOut'
  BY <1>1, <1>9, BroadcastKept DEF svars
<1> QED BY <1>8, <1>9, <1>10, <1>11, <1>12, <1>13 DEF ChatInv, InOrderAtMostOnce

-----------------------------------------------------------------------------
\* The steps of the server.
LEMMA BootChat ==
    ASSUME ChatInv, Boot
    PROVE  ChatInv'
<1>1. /\ UNCHANGED <<queue, msqid, clients, text, line, next, handled, cvars>>
      /\ server = "down" /\ server' = "listening" /\ exists' = TRUE
      /\ boots < MaxBoots /\ boots' = boots + 1
  BY DEF Boot
<1>2. boots' \in 0..MaxBoots
  BY <1>1, ChatBoundsAssumption DEF ChatInv, InOrderAtMostOnce, MQTypeOK
<1>3. MQTypeOK'
  <2>1. exists' \in BOOLEAN /\ (~exists' => queue' = <<>> /\ msqid' = {})
    BY <1>1
  <2> QED BY <1>1, <1>2, <2>1 DEF ChatInv, InOrderAtMostOnce, MQTypeOK, cvars
<1>4. Using'
  BY <1>1 DEF ChatInv, Using, cvars
<1>5. \A c \in Pids : typed[c] + NotSent(c)' <= typed'[c] + NotSent(c)
  BY <1>1, ChatData DEF NotSent, cvars
<1> QED BY <1>1, <1>3, <1>4, <1>5, QuietChat DEF cvars

LEMMA DownChat ==
    ASSUME ChatInv, Interrupt \/ Kill
    PROVE  ChatInv'
<1>1. /\ clients' = <<>> /\ server' = "down" /\ text' = "unset" /\ line' = NoLine /\ next' = 1
      /\ UNCHANGED <<handled, boots, cvars>>
      /\ \/ exists' = FALSE /\ queue' = <<>> /\ msqid' = {}
         \/ UNCHANGED qvars
  BY DEF Interrupt, Kill, Down
<1>2. /\ <<>> \in Seq(Pids) /\ <<>> \in Seq(Queued) /\ Len(<<>>) = 0 /\ DOMAIN <<>> = {}
      /\ 0 <= QueueMax /\ 1 \in 1..(0 + 1)
  BY ChatBoundsAssumption
<1>3. MQTypeOK'
  <2>1. /\ exists' \in BOOLEAN /\ msqid' \subseteq Pids
        /\ ~exists' => queue' = <<>> /\ msqid' = {}
    BY <1>1 DEF ChatInv, InOrderAtMostOnce, MQTypeOK, qvars
  <2>2. queue' \in Seq(Queued) /\ Len(queue') <= QueueMax
    BY <1>1, <1>2 DEF ChatInv, InOrderAtMostOnce, MQTypeOK, qvars
  <2> QED BY <1>1, <1>2, <2>1, <2>2 DEF ChatInv, InOrderAtMostOnce, MQTypeOK, cvars
<1>4. CASE UNCHANGED qvars
  <2>1. \A t : Waiting(t)' = Waiting(t)
    BY <1>4 DEF Waiting, qvars
  <2>2. \A c \in Pids : InOrder(c)' /\ SentTo(c)' = SentTo(c)
    BY <1>1, <1>4, <2>1, ChatData, OrderKept DEF cvars, qvars
  <2>3. Using' /\ Registered' /\ ToBeTaken'
    BY <1>1, <1>2, <1>4, <2>1, ChatData
       DEF ChatInv, Using, Registered, ToBeTaken, NotSent, cvars, qvars
  <2>4. Broadcasted' /\ NobodyLeftOut'
    BY <1>1, <2>2 DEF ChatInv, Broadcasted, NobodyLeftOut
  <2> QED BY <1>3, <2>2, <2>3, <2>4 DEF ChatInv, InOrderAtMostOnce
<1>5. CASE queue' = <<>>
  <2>1. \A t : Waiting(t)' = {}
    BY <1>2, <1>5 DEF Waiting
  <2>2. \A c \in Pids : InOrder(c)' /\ SentTo(c)' \subseteq SentTo(c)
    BY <1>1, <2>1, ChatData DEF InOrder, SentTo, cvars
  <2>3. Using' /\ Registered' /\ ToBeTaken'
    BY <1>1, <1>2, <2>1, ChatData DEF ChatInv, Using, Registered, ToBeTaken, NotSent, cvars
  <2>4. Broadcasted' /\ NobodyLeftOut'
    BY <1>1, <2>2 DEF ChatInv, Broadcasted, NobodyLeftOut
  <2> QED BY <1>3, <2>2, <2>3, <2>4 DEF ChatInv, InOrderAtMostOnce
<1> QED BY <1>1, <1>4, <1>5

LEMMA HandshakeChat ==
    ASSUME ChatInv, TakeHandshake
    PROVE  ChatInv'
<1> DEFINE i == Earliest(Waiting("HANDSHAKE_MTYPE"))
<1>1. /\ UNCHANGED <<server, text, line, next, handled, boots, cvars>> /\ server = "listening"
      /\ Take("HANDSHAKE_MTYPE") /\ clients' = Append(clients, Taken("HANDSHAKE_MTYPE").from)
  BY DEF TakeHandshake
<1>2. i \in Waiting("HANDSHAKE_MTYPE") /\ Taken("HANDSHAKE_MTYPE") = queue[i].line
  BY <1>1, ChatData, MessageTaken DEF Taken
<1> HIDE DEF i
<1>3. PICK c \in Pids : c = Taken("HANDSHAKE_MTYPE").from
  BY <1>2, ChatData
<1>4. /\ cpc[c] \notin {"start", "greet"} /\ \A k \in DOMAIN clients : clients[k] # c
  BY <1>2, <1>3 DEF ChatInv, Registered
<1>5. /\ clients' \in Seq(Pids) /\ Len(clients') = Len(clients) + 1 /\ Len(clients) \in Nat
      /\ DOMAIN clients = 1..Len(clients) /\ DOMAIN clients' = 1..(Len(clients) + 1)
      /\ clients'[Len(clients) + 1] = c /\ \A k \in 1..Len(clients) : clients'[k] = clients[k]
  BY <1>1, <1>3, ChatData, Appended
<1>6. MQTypeOK'
  <2>1. next' \in 1..(Len(clients') + 1)
    BY <1>1, <1>5 DEF ChatInv, InOrderAtMostOnce, MQTypeOK
  <2> QED BY <1>1, <1>5, <2>1, TakeTyped DEF ChatInv, InOrderAtMostOnce, MQTypeOK, cvars
<1>7. \A d \in Pids : InOrder(d)' /\ SentTo(d)' = SentTo(d)
  BY <1>1, ChatData, OrderAfterTake, SentToKept DEF cvars
<1>8. Using'
  BY <1>1, TakeTyped DEF ChatInv, Using, cvars
<1>9. Registered'
  <2>1. /\ \A k, l \in DOMAIN clients : clients[k] = clients[l] => k = l
        /\ \A k \in DOMAIN clients : cpc[clients[k]] \notin {"start", "greet"}
    BY DEF ChatInv, Registered
  <2>2. /\ \A k, l \in DOMAIN clients' : clients'[k] = clients'[l] => k = l
        /\ \A k \in DOMAIN clients' : cpc[clients'[k]] \notin {"start", "greet"}
    BY <1>4, <1>5, <2>1
  <2>3. \A k \in Waiting("HANDSHAKE_MTYPE")' : LET d == queue'[k].line.from IN
           /\ cpc[d] \notin {"start", "greet"} /\ d # c
           /\ \A l \in DOMAIN clients : clients[l] # d
           /\ \A l \in Waiting("HANDSHAKE_MTYPE")' : queue'[l].line.from = d => k = l
    BY <1>1, <1>3, Remaining
  <2>4. \A k \in Waiting("HANDSHAKE_MTYPE")' :
           \A l \in DOMAIN clients' : clients'[l] # queue'[k].line.from
    BY <1>5, <2>3
  <2> QED BY <1>1, <2>2, <2>3, <2>4 DEF Registered, cvars
<1>10. ToBeTaken'
  <2>1. \A d \in Pids : NotSent(d)' = NotSent(d)
    BY <1>1 DEF NotSent, cvars
  <2> QED BY <1>1, <2>1, Remaining, ChatData DEF ChatInv, ToBeTaken, cvars
<1>11. Broadcasted' /\ NobodyLeftOut'
  BY <1>1, <1>7 DEF ChatInv, Broadcasted, NobodyLeftOut
<1> QED BY <1>6, <1>7, <1>8, <1>9, <1>10, <1>11 DEF ChatInv, InOrderAtMostOnce

\* delete_client() deletes the client, and nobody else.
LEMMA DeletesOne ==
    ASSUME NEW F, NEW q \in Seq(F), \A k, l \in DOMAIN q : q[k] = q[l] => k = l, NEW c
    PROVE  /\ Deleted(q, c) \in Seq(F)
           /\ \A k, l \in DOMAIN Deleted(q, c) : Deleted(q, c)[k] = Deleted(q, c)[l] => k = l
           /\ \A k \in DOMAIN Deleted(q, c) : \E j \in DOMAIN q : Deleted(q, c)[k] = q[j]
           /\ \A k \in DOMAIN q :
                 q[k] # c => \E j \in DOMAIN Deleted(q, c) : Deleted(q, c)[j] = q[k]
<1> DEFINE found == {k \in DOMAIN q : q[k] = c}
<1>1. Len(q) \in Nat /\ DOMAIN q = 1..Len(q)
  OBVIOUS
<1>2. CASE found = {}
  BY <1>2 DEF Deleted
<1>3. CASE found # {}
  <2> DEFINE i == Earliest(found)
  <2>1. \E k \in found : \A l \in found : k <= l
    BY <1>1, <1>3, LeastExists
  <2>2. i \in found
    BY <2>1 DEF Earliest
  <2>3. i \in 1..Len(q) /\ q[i] = c
    BY <1>1, <2>2
  <2>4. Deleted(q, c) = RemoveAt(q, i)
    BY <1>3 DEF Deleted
  <2> HIDE DEF i, found
  <2> DEFINE r == RemoveAt(q, i)  n == Len(q)
  <2>5. /\ r \in Seq(F) /\ DOMAIN r = 1..(n - 1) /\ n \in Nat
        /\ \A k \in 1..(n - 1) : r[k] = q[Up(i, k)]
    BY <2>3, WithoutOne
  <2>6. /\ \A k \in 1..(n - 1) : Up(i, k) \in (1..n) \ {i}
        /\ \A k \in (1..n) \ {i} : \E j \in 1..(n - 1) : Up(i, j) = k
        /\ \A j, k \in 1..(n - 1) : Up(i, j) = Up(i, k) => j = k
    BY <1>1, <2>3, UpMaps
  <2> HIDE DEF r
  <2>7. \A k, l \in 1..(n - 1) : r[k] = r[l] => k = l
    BY <1>1, <2>5, <2>6
  <2>8. \A k \in 1..n : q[k] # c => \E j \in 1..(n - 1) : r[j] = q[k]
    BY <2>3, <2>5, <2>6
  <2>9. \A k \in 1..(n - 1) : \E j \in 1..n : r[k] = q[j]
    BY <2>5, <2>6
  <2> QED BY <1>1, <2>4, <2>5, <2>7, <2>8, <2>9 DEF r
<1> QED BY <1>2, <1>3

LEMMA LineChat ==
    ASSUME ChatInv, TakeLine
    PROVE  ChatInv'
<1> DEFINE i == Earliest(Waiting("SERVER_MTYPE"))
<1>1. /\ server = "listening" /\ Take("SERVER_MTYPE") /\ UNCHANGED <<boots, cvars>>
  BY DEF TakeLine
<1>2. i \in Waiting("SERVER_MTYPE") /\ Taken("SERVER_MTYPE") = queue[i].line
  BY <1>1, ChatData, MessageTaken DEF Taken
<1> HIDE DEF i
<1>3. PICK l \in Lines : l = Taken("SERVER_MTYPE")
  BY <1>2, ChatData
<1>4. /\ text' = Parsed(l) /\ handled' = [handled EXCEPT ![l.from] = l.n]
      /\ \/ /\ clients' = Deleted(clients, l.from)
            /\ UNCHANGED <<server, line, next>>
         \/ /\ server' = "broadcasting" /\ line' = l /\ next' = 1
            /\ UNCHANGED clients
  BY <1>3 DEF TakeLine
<1>5. /\ l.from \in Pids /\ l.n \in 1..MaxLines /\ handled[l.from] < l.n
      /\ l.n + NotSent(l.from) <= typed[l.from]
  BY <1>2, <1>3, ChatData DEF ChatInv, ToBeTaken
<1>6. /\ handled' \in [Pids -> 0..MaxLines] /\ handled'[l.from] = l.n
      /\ \A c \in Pids : c # l.from => handled'[c] = handled[c]
      /\ \A c \in Pids : handled[c] <= handled'[c] /\ handled'[c] \in Nat
  <2>1. handled \in [Pids -> 0..MaxLines] /\ MaxLines \in Nat
    BY ChatBoundsAssumption DEF ChatInv, InOrderAtMostOnce, MQTypeOK
  <2>2. l.n \in 0..MaxLines
    BY <1>5, <2>1
  <2>3. handled' \in [Pids -> 0..MaxLines] /\ handled'[l.from] = l.n
    BY <1>4, <1>5, <2>1, <2>2
  <2>4. \A c \in Pids : c # l.from => handled'[c] = handled[c]
    BY <1>4, <2>1
  <2>5. \A c \in Pids : handled[c] \in Nat /\ handled'[c] \in Nat
    BY <2>1, <2>3
  <2>6. handled[l.from] <= handled'[l.from]
    BY <1>5, <2>3, <2>5
  <2> QED BY <1>5, <2>3, <2>4, <2>5, <2>6
<1>7. next = 1 /\ next' = 1
  BY <1>1, <1>4 DEF ChatInv, Using
<1>8. /\ \A k, j \in DOMAIN clients : clients[k] = clients[j] => k = j
      /\ \A k \in DOMAIN clients : cpc[clients[k]] \notin {"start", "greet"}
  BY DEF ChatInv, Registered
<1>9. /\ clients' \in Seq(Pids)
      /\ \A k, j \in DOMAIN clients' : clients'[k] = clients'[j] => k = j
      /\ \A k \in DOMAIN clients' : \E j \in DOMAIN clients : clients'[k] = clients[j]
  <2>1. clients \in Seq(Pids)
    BY ChatData
  <2>2. CASE clients' = Deleted(clients, l.from)
    <3> DEFINE q == Deleted(clients, l.from)
    <3>1. /\ q \in Seq(Pids)
          /\ \A k, j \in DOMAIN q : q[k] = q[j] => k = j
          /\ \A k \in DOMAIN q : \E j \in DOMAIN clients : q[k] = clients[j]
      BY <1>8, <2>1, DeletesOne
    <3> HIDE DEF q
    <3> QED BY <2>2, <3>1 DEF q
  <2>3. CASE UNCHANGED clients
    BY <1>8, <2>1, <2>3
  <2> QED BY <1>4, <2>2, <2>3
<1>10. MQTypeOK'
  <2>1. next' \in 1..(Len(clients') + 1)
    BY <1>7, <1>9
  <2>2. text' \in {"unset", "chat", "shutdown"}
    BY <1>4, ChatBoundsAssumption DEF Parsed, Lines, ChatInv, InOrderAtMostOnce, MQTypeOK
  <2>3. server' \in {"down", "listening", "broadcasting"} /\ line' \in Lines \cup {NoLine}
    BY <1>1, <1>4 DEF ChatInv, InOrderAtMostOnce, MQTypeOK
  <2> QED BY <1>1, <1>6, <1>9, <2>1, <2>2, <2>3, TakeTyped
          DEF ChatInv, InOrderAtMostOnce, MQTypeOK, cvars
<1>11. \A c \in Pids : InOrder(c)' /\ SentTo(c)' = SentTo(c)
  BY <1>1, ChatData, OrderAfterTake, SentToKept DEF cvars
<1>12. Using'
  BY <1>1, <1>4, <1>7, TakeTyped DEF ChatInv, Using, cvars
<1>13. Registered'
  <2>1. \A k \in Waiting("HANDSHAKE_MTYPE")' : LET d == queue'[k].line.from IN
           /\ cpc[d] \notin {"start", "greet"}
           /\ \A j \in DOMAIN clients : clients[j] # d
           /\ \A j \in Waiting("HANDSHAKE_MTYPE")' : queue'[j].line.from = d => k = j
    BY <1>1, Remaining
  <2>2. \A k \in Waiting("HANDSHAKE_MTYPE")' :
           \A j \in DOMAIN clients' : clients'[j] # queue'[k].line.from
    BY <1>9, <2>1
  <2>3. \A k \in DOMAIN clients' : cpc[clients'[k]] \notin {"start", "greet"}
    BY <1>8, <1>9
  <2> QED BY <1>1, <1>9, <2>1, <2>2, <2>3 DEF Registered, cvars
<1>14. ToBeTaken'
  <2>1. \A c \in Pids : NotSent(c)' = NotSent(c)
    BY <1>1 DEF NotSent, cvars
  <2>2. \A c \in Pids : handled'[c] + NotSent(c) <= typed[c]
    BY <1>5, <1>6, ChatData DEF ChatInv, ToBeTaken
  <2>3. \A k \in Waiting("SERVER_MTYPE")' : LET m == queue'[k].line IN
           /\ m.from \in Pids /\ handled'[m.from] < m.n
           /\ m.n + NotSent(m.from) <= typed[m.from]
           /\ \A j \in Waiting("SERVER_MTYPE")' : j < k => Precedes(queue'[j].line, m)
    <3> TAKE k \in Waiting("SERVER_MTYPE")'
    <3>1. PICK m \in Lines : m = queue'[k].line
      BY <1>1, Remaining
    <3>2. /\ handled[m.from] < m.n /\ m.n + NotSent(m.from) <= typed[m.from]
          /\ \A j \in Waiting("SERVER_MTYPE")' : j < k => Precedes(queue'[j].line, m)
          /\ Precedes(l, m)
      BY <1>1, <1>3, <3>1, Remaining
    <3>3. m.from \in Pids
      BY ChatData
    <3>4. handled'[m.from] < m.n
      BY <1>6, <3>2, <3>3 DEF Precedes
    <3> QED BY <3>1, <3>2, <3>3, <3>4
  <2> QED BY <1>1, <2>1, <2>2, <2>3 DEF ToBeTaken, cvars
<1>15. Broadcasted'
  <2>1. \A c \in Pids : \A m \in SentTo(c) :
           m.from \in Pids /\ m.n \in Nat /\ m.n <= handled[m.from]
    BY ChatData DEF ChatInv, Broadcasted
  <2>2. \A c \in Pids : \A m \in SentTo(c) :
           m.n <= handled'[m.from] /\ (m.from = l.from => m.n < l.n)
    BY <1>5, <1>6, <2>1, ChatData
  <2> QED BY <1>1, <1>4, <1>6, <1>11, <2>2 DEF Broadcasted
<1>16. NobodyLeftOut'
  BY <1>7 DEF NobodyLeftOut
<1> QED BY <1>10, <1>11, <1>12, <1>13, <1>14, <1>15, <1>16 DEF ChatInv, InOrderAtMostOnce

LEMMA BroadcastChat ==
    ASSUME ChatInv, Broadcast
    PROVE  ChatInv'
<1>1. /\ server = "broadcasting" /\ UNCHANGED <<clients, text, handled, boots, cvars>>
      /\ line \in Lines /\ line.from \in Pids /\ line.n = handled[line.from]
      /\ next \in 1..(Len(clients) + 1) /\ next \in Nat
  BY ChatData DEF Broadcast, ChatInv, Using, Broadcasted, InOrderAtMostOnce, MQTypeOK
<1>2. /\ \A c \in Pids : NotSent(c)' = NotSent(c)
      /\ \A c \in Pids : received'[c] = received[c]
  BY <1>1 DEF NotSent, cvars
<1>3. CASE AllServed /\ server' = "listening" /\ line' = NoLine /\ next' = 1 /\ UNCHANGED qvars
  <2>1. \A t : Waiting(t)' = Waiting(t)
    BY <1>3 DEF Waiting, qvars
  <2>2. \A c \in Pids : InOrder(c)' /\ SentTo(c)' = SentTo(c)
    BY <1>2, <1>3, <2>1, ChatData, OrderKept DEF qvars
  <2>3. MQTypeOK'
    <3>1. next' \in 1..(Len(clients) + 1)
      BY <1>1, <1>3, ChatData
    <3> QED BY <1>1, <1>3, <3>1 DEF ChatInv, InOrderAtMostOnce, MQTypeOK, qvars, cvars
  <2>4. Using' /\ Registered'
    BY <1>1, <1>3, <2>1, ChatData DEF ChatInv, Using, Registered, cvars, qvars
  <2>5. ToBeTaken'
    BY <1>1, <1>2, <1>3, <2>1, ChatData DEF ChatInv, ToBeTaken, cvars, qvars
  <2>6. Broadcasted' /\ NobodyLeftOut'
    BY <1>1, <1>3, <2>2 DEF ChatInv, Broadcasted, NobodyLeftOut
  <2> QED BY <2>2, <2>3, <2>4, <2>5, <2>6 DEF ChatInv, InOrderAtMostOnce
<1>4. CASE ~AllServed /\ next' = next + 1 /\ UNCHANGED <<server, line>>
  <2>1. next \in DOMAIN clients /\ next' \in 1..(Len(clients) + 1)
    BY <1>1, <1>4, ChatData DEF AllServed
  <2>2. PICK c \in Pids : c = clients[next]
    BY <2>1, ChatData
  <2>3. \A k \in 1..next : k = next \/ k \in 1..(next - 1)
    BY <1>1
  <2>4. 1..(next' - 1) = 1..next
    BY <1>1, <1>4
  <2>5. CASE Skipped(c) /\ UNCHANGED qvars
    <3>1. \A t : Waiting(t)' = Waiting(t)
      BY <2>5 DEF Waiting, qvars
    <3>2. \A d \in Pids : InOrder(d)' /\ SentTo(d)' = SentTo(d)
      BY <1>2, <2>5, <3>1, ChatData, OrderKept DEF qvars
    <3>3. MQTypeOK'
      BY <1>1, <1>4, <2>1, <2>5 DEF ChatInv, InOrderAtMostOnce, MQTypeOK, qvars, cvars
    <3>4. Using' /\ Registered'
      BY <1>1, <1>4, <2>5, <3>1, ChatData DEF ChatInv, Using, Registered, cvars, qvars
    <3>5. ToBeTaken'
      BY <1>1, <1>2, <2>5, <3>1, ChatData DEF ChatInv, ToBeTaken, cvars, qvars
    <3>6. Broadcasted'
      <4>1. \A d \in Pids :
               (\E k \in 1..(next - 1) : clients[k] = d) => \E k \in 1..next : clients[k] = d
        BY <1>1
      <4> QED BY <1>1, <1>4, <2>4, <3>2, <4>1 DEF ChatInv, Broadcasted, Served
    <3>7. NobodyLeftOut'
      <4> SUFFICES ASSUME NEW k \in 1..next, clients[k] # line.from
                   PROVE  line \in SentTo(clients[k])' /\ clients'[k] = clients[k]
        BY <1>1, <1>4, <2>4 DEF NobodyLeftOut
      <4>1. k \in 1..(next - 1) /\ clients[k] \in Pids
        <5>1. clients[next] = line.from
          BY <2>2, <2>5 DEF Skipped
        <5>2. k \in 1..(next - 1)
          BY <2>3, <5>1
        <5>3. k \in DOMAIN clients
          BY <1>1, <2>1, ChatData
        <5> QED BY <5>2, <5>3, ChatData
      <4> QED BY <1>1, <3>2, <4>1 DEF ChatInv, NobodyLeftOut
    <3> QED BY <3>2, <3>3, <3>4, <3>5, <3>6, <3>7 DEF ChatInv, InOrderAtMostOnce
  <2>6. CASE ~Skipped(c) /\ Send(To(c, line))
    <3>1. PICK m \in Queued, n \in Nat :
             /\ Send(m) /\ m.type = c /\ m.line = line /\ n = Len(queue) + 1
      BY <1>1, <2>6, Kinded, ChatData
    <3>2. /\ queue' = Append(queue, m) /\ queue' \in Seq(Queued) /\ Len(queue') <= QueueMax
          /\ exists' = exists /\ msqid' = msqid
      BY <3>1, SendTyped
    <3>3. /\ queue'[n] = m
          /\ \A t : \A k \in Waiting(t) : queue'[k] = queue[k]
          /\ \A t : t # c => Waiting(t)' = Waiting(t)
          /\ Waiting(c)' = Waiting(c) \cup {n}
      <4>1. queue \in Seq(Queued)
        BY ChatData
      <4> QED BY <3>1, <3>2, <4>1, MessageSent
    <3>4. \A k \in Waiting(c) : k < n /\ k \in Nat
      BY <3>1, ChatData
    <3>5. exists
      BY <1>1 DEF ChatInv, Using
    <3>6. MQTypeOK'
      BY <1>1, <1>4, <2>1, <3>2, <3>5 DEF ChatInv, InOrderAtMostOnce, MQTypeOK, cvars
    <3>7. Using'
      BY <1>1, <1>4, <3>2 DEF ChatInv, Using, cvars
    <3>8. Registered'
      <4>1. /\ Waiting("HANDSHAKE_MTYPE")' = Waiting("HANDSHAKE_MTYPE")
            /\ \A k \in Waiting("HANDSHAKE_MTYPE") : queue'[k] = queue[k]
        BY <3>3, ChatData
      <4> QED BY <1>1, <4>1, ChatData DEF ChatInv, Registered, cvars
    <3>9. ToBeTaken'
      <4>1. /\ Waiting("SERVER_MTYPE")' = Waiting("SERVER_MTYPE")
            /\ \A k \in Waiting("SERVER_MTYPE") : queue'[k] = queue[k]
        BY <3>3, ChatData
      <4>2. handled' = handled /\ typed' = typed
        BY <1>1 DEF cvars
      <4>3. \A k \in Waiting("SERVER_MTYPE") : LET l == queue[k].line IN
               /\ l.from \in Pids /\ handled[l.from] < l.n /\ l.n + NotSent(l.from) <= typed[l.from]
               /\ \A j \in Waiting("SERVER_MTYPE") : j < k => Precedes(queue[j].line, l)
        BY ChatData DEF ChatInv, ToBeTaken
      <4> QED BY <1>2, <4>1, <4>2, <4>3 DEF ChatInv, ToBeTaken
    <3>10. \A d \in Pids : d # c => InOrder(d)' /\ SentTo(d)' = SentTo(d)
      BY <1>2, <3>3, ChatData, OrderKept
    <3>11. SentTo(c)' = SentTo(c) \cup {line}
      BY <1>1, <3>1, <3>2, ChatData, SentToGrows DEF cvars
    <3>12. \A l \in SentTo(c) : Precedes(l, line)
      <4>1. ~Served(c)
        BY <1>1, <2>1, <2>2, ChatData DEF ChatInv, Registered, Served
      <4> QED BY <1>1, <4>1 DEF ChatInv, Broadcasted, Precedes
    <3>13. InOrder(c)'
      <4>1. \A l \in DOMAIN received[c] : Precedes(received[c][l], line)
        BY <3>12 DEF SentTo
      <4>2. \A k \in Waiting(c) : Precedes(queue[k].line, line)
        BY <3>12 DEF SentTo
      <4>3. line.from # c
        BY <2>6 DEF Skipped
      <4>4. InOrder(c)
        BY ChatData
      <4>5. \A k \in Waiting(c) \cup {n} :
               /\ queue'[k].line.from # c
               /\ \A l \in DOMAIN received[c] : Precedes(received[c][l], queue'[k].line)
               /\ \A l \in Waiting(c) \cup {n} : l < k => Precedes(queue'[l].line, queue'[k].line)
        <5> TAKE k \in Waiting(c) \cup {n}
        <5>1. CASE k = n
          BY <3>1, <3>3, <3>4, <4>1, <4>2, <4>3, <5>1
        <5>2. CASE k \in Waiting(c)
          BY <3>1, <3>3, <3>4, <4>4, <5>2 DEF InOrder
        <5> QED BY <5>1, <5>2
      <4> QED BY <1>2, <3>3, <4>4, <4>5 DEF InOrder
    <3>14. Broadcasted'
      <4>1. Served(c)'
        <5>1. next \in 1..(next' - 1) /\ clients'[next] = c
          BY <1>1, <1>4, <2>2
        <5> QED BY <5>1 DEF Served
      <4>2. \A d \in Pids :
               (\E k \in 1..(next - 1) : clients[k] = d) => \E k \in 1..next : clients[k] = d
        BY <1>1
      <4>3. \A d \in Pids : Served(d) => Served(d)'
        BY <1>1, <2>4, <4>2 DEF Served
      <4>4. line.n <= handled[line.from]
        BY <1>1, ChatData
      <4>5. ASSUME NEW d \in Pids, NEW l \in SentTo(d)'
            PROVE  /\ l.n <= handled[l.from]
                   /\ l.from = line.from /\ ~Served(d)' => l.n < line.n
        <5>1. CASE d = c
          BY <3>11, <4>1, <4>4, <5>1 DEF ChatInv, Broadcasted
        <5>2. CASE d # c
          BY <1>1, <3>10, <4>3, <5>2 DEF ChatInv, Broadcasted
        <5> QED BY <5>1, <5>2
      <4> QED BY <1>1, <1>4, <4>5 DEF Broadcasted
    <3>15. NobodyLeftOut'
      <4> SUFFICES ASSUME NEW k \in 1..next, clients[k] # line.from
                   PROVE  line \in SentTo(clients[k])'
        BY <1>1, <1>4, <2>4 DEF NobodyLeftOut
      <4>1. clients[k] \in Pids /\ clients'[k] = clients[k]
        BY <1>1, <2>1, ChatData
      <4>2. k # next => line \in SentTo(clients[k])
        BY <1>1, <2>3 DEF ChatInv, NobodyLeftOut
      <4> QED BY <2>2, <3>10, <3>11, <4>1, <4>2
    <3> QED BY <3>6, <3>7, <3>8, <3>9, <3>10, <3>13, <3>14, <3>15 DEF ChatInv, InOrderAtMostOnce
  <2> QED BY <1>4, <2>2, <2>5, <2>6 DEF Broadcast
<1> QED BY <1>3, <1>4 DEF Broadcast

LEMMA StepChat == ChatInv /\ [MQNext]_MQvars => ChatInv'
<1> SUFFICES ASSUME ChatInv, [MQNext]_MQvars PROVE ChatInv'
  OBVIOUS
<1>1. CASE \E c \in Pids : ClientStep(c)
  BY <1>1, StartChat, GreetChat, ReadChat, TypeChat, SendLineChat, GoneChat DEF ClientStep
<1>2. CASE ServerStep
  BY <1>2, HandshakeChat, LineChat, BroadcastChat DEF ServerStep
<1>3. CASE Boot \/ Interrupt \/ Kill
  BY <1>3, BootChat, DownChat
<1>4. CASE UNCHANGED MQvars
  <2>1. UNCHANGED <<qvars, svars, cvars>>
    BY <1>4 DEF MQvars
  <2>2. MQTypeOK'
    BY <2>1 DEF ChatInv, InOrderAtMostOnce, MQTypeOK, qvars, svars, cvars
  <2>3. Using'
    BY <2>1 DEF ChatInv, Using, qvars, svars, cvars
  <2>4. \A c \in Pids : typed[c] + NotSent(c)' <= typed'[c] + NotSent(c)
    BY <2>1, ChatData DEF NotSent, cvars
  <2> QED BY <2>1, <2>2, <2>3, <2>4, QuietChat DEF qvars, svars, cvars
<1> QED BY <1>1, <1>2, <1>3, <1>4 DEF MQNext

\* The invariant of MsgQueueChat, whatever the size of the queue.
THEOREM ChatInvariance == MQSpec => []ChatInv
  BY InitChat, StepChat, PTL DEF MQSpec

\* A client never gets its own lines, and those of another in their order and once at most,
\* whatever the room in the queue, however many clients, lines and kills there are.
THEOREM LinesInOrder == MQSpec => []InOrderAtMostOnce
<1>1. ChatInv => InOrderAtMostOnce
  BY DEF ChatInv
<1> QED BY ChatInvariance, <1>1, PTL

\* When a broadcast ends, everybody in the table but the sender has been sent the line.
THEOREM EverybodyServed == MQSpec => NobodyPassedOver
<1>1. ASSUME ChatInv, [MQNext]_MQvars, server = "broadcasting", server' = "listening",
             NEW k \in DOMAIN clients, clients[k] # line.from
      PROVE  line \in SentTo(clients[k])
  <2>1. AllServed
    <3>1. ~UNCHANGED MQvars
      BY <1>1 DEF MQvars, svars
    <3>2. \A c \in Pids : ~ClientStep(c)
      BY <1>1 DEF ClientStep, Start, Greet, Read, TypeLine, SendLine, QueueGone, svars
    <3>3. ~Boot /\ ~Interrupt /\ ~Kill /\ ~TakeHandshake /\ ~TakeLine
      BY <1>1 DEF Boot, Interrupt, Kill, Down, TakeHandshake, TakeLine
    <3> QED BY <1>1, <3>1, <3>2, <3>3 DEF MQNext, ServerStep, Broadcast
  <2>2. k \in 1..(next - 1)
    <3>1. /\ next \in 1..(Len(clients) + 1) /\ k \in 1..Len(clients) /\ Len(clients) \in Nat
          /\ next > Len(clients)
      BY <1>1, <2>1, ChatData DEF AllServed, ChatInv, InOrderAtMostOnce, MQTypeOK
    <3> QED BY <3>1
  <2> QED BY <1>1, <2>2 DEF ChatInv, NobodyLeftOut
<1>2. ChatInv /\ [MQNext]_MQvars =>
         [(server = "broadcasting" /\ server' = "listening")
            => \A k \in DOMAIN clients :
                  clients[k] # line.from => line \in SentTo(clients[k])]_MQvars
  BY <1>1
<1> QED BY ChatInvariance, <1>2, PTL DEF MQSpec, NobodyPassedOver

\* A client leaves the table only when its own line is taken, or with the server.
THEOREM NobodyElseDeleted == MQSpec => OthersStay
<1>1. ASSUME ChatInv, MQNext, NEW c \in Pids, Contains(clients, c), ~Contains(clients', c)
      PROVE  server' = "down" \/ handled'[c] # handled[c]
  <2>1. PICK k \in DOMAIN clients : clients[k] = c
    BY <1>1, ChatData DEF Contains
  <2>2. clients' # clients
    BY <1>1
  <2>3. \A d \in Pids : ~ClientStep(d)
    BY <2>2 DEF ClientStep, Start, Greet, Read, TypeLine, SendLine, QueueGone, svars
  <2>4. ~Boot /\ ~Broadcast
    BY <2>2 DEF Boot, Broadcast
  <2>5. CASE Interrupt \/ Kill
    BY <2>5 DEF Interrupt, Kill, Down
  <2>6. CASE TakeHandshake
    <3> DEFINE d == Taken("HANDSHAKE_MTYPE").from
    <3>1. clients' = Append(clients, d) /\ Take("HANDSHAKE_MTYPE")
      BY <2>6 DEF TakeHandshake
    <3>2. d \in Pids
      BY <1>1, <3>1, MessageTaken, ChatData DEF Taken
    <3> HIDE DEF d
    <3>3. Len(clients') = Len(clients) + 1 /\ clients'[k] = clients[k]
      BY <1>1, <2>1, <3>1, <3>2, ChatData, Appended
    <3> QED BY <1>1, <2>1, <3>3, ChatData DEF Contains
  <2>7. CASE TakeLine
    <3> DEFINE i == Earliest(Waiting("SERVER_MTYPE"))
    <3>1. i \in Waiting("SERVER_MTYPE") /\ Taken("SERVER_MTYPE") = queue[i].line
      BY <1>1, <2>7, ChatData, MessageTaken DEF Taken, TakeLine
    <3> HIDE DEF i
    <3>2. PICK l \in Lines : l = Taken("SERVER_MTYPE")
      BY <1>1, <3>1, ChatData
    <3>3. clients' = Deleted(clients, l.from) /\ handled' = [handled EXCEPT ![l.from] = l.n]
      BY <2>2, <2>7, <3>2 DEF TakeLine
    <3>4. handled[l.from] < l.n /\ l.from \in Pids
      BY <1>1, <3>1, <3>2, ChatData DEF ChatInv, ToBeTaken
    <3>5. CASE c = l.from
      <4>1. handled'[c] = l.n
        BY <1>1, <3>3, <3>4, <3>5 DEF ChatInv, InOrderAtMostOnce, MQTypeOK
      <4> QED BY <1>1, <3>4, <3>5, <4>1, ChatData
    <3>6. CASE c # l.from
      <4> DEFINE q == Deleted(clients, l.from)
      <4>1. clients \in Seq(Pids) /\ \A j, m \in DOMAIN clients : clients[j] = clients[m] => j = m
        BY <1>1, ChatData DEF ChatInv, Registered
      <4>2. /\ q \in Seq(Pids)
            /\ \A m \in DOMAIN clients :
                  clients[m] # l.from => \E j \in DOMAIN q : q[j] = clients[m]
        BY <4>1, DeletesOne
      <4> HIDE DEF q
      <4>3. \E j \in DOMAIN q : q[j] = c
        BY <2>1, <3>6, <4>2
      <4>4. Contains(q, c)
        BY <4>2, <4>3 DEF Contains
      <4> QED BY <1>1, <3>3, <4>4 DEF q
    <3> QED BY <3>5, <3>6
  <2> QED BY <1>1, <2>3, <2>4, <2>5, <2>6, <2>7 DEF MQNext, ServerStep
<1>2. ChatInv /\ [MQNext]_MQvars =>
         [\A c \in Pids : (Contains(clients, c) /\ ~Contains(clients', c))
                             => (server' = "down" \/ handled'[c] # handled[c])]_MQvars
  BY <1>1
<1> QED BY ChatInvariance, <1>2, PTL DEF MQSpec, OthersStay
-----------------------------------------------------------------------------
(* The echo over raw sockets. *)

CacheRecords == [port : Nat, number : Nat]

\* What there is of datagrams, and what of it has come to c.
Come(c) == got[c] \cup {inbox[c][k] : k \in DOMAIN inbox[c]}
Around == net \cup UNION {Come(c) : c \in Clients}

\* A datagram is a line that its client has sent, or the answer to one that came from elsewhere
\* than the server's port; no two requests are the same line.
Genuine(d) ==
    /\ d.n \in 1..sent[d.who]
    /\ d.kind = "request" => d.to = ServerPort /\ d.from = port[d.who]
    /\ d.kind = "answer" => d.to = port[d.who] /\ d.to # ServerPort
AllGenuine ==
    /\ \A d \in Around : Genuine(d)
    /\ \A c \in Clients : \A d \in Come(c) : d.to = port[c]
    /\ \A d, e \in net :
          d.kind = "request" /\ e.kind = "request" /\ d.who = e.who /\ d.n = e.n => d = e

\* A client that is alone with its port has at most one datagram on the way, in either
\* direction or in its socket's buffer, and that only while it waits.
OneRound(c) ==
    /\ pc[c] = "prompt" =>
          /\ \A d \in net : d.who # c
          /\ inbox[c] = <<>>
          /\ \A d \in got[c] : d.n = sent[c]
    /\ pc[c] = "wait" =>
          /\ \A d \in net : d.who = c =>
                d.n = sent[c] /\ inbox[c] = <<>> /\ \A e \in net : e.who = c => e = d
          /\ Len(inbox[c]) <= 1
          /\ \A k \in DOMAIN inbox[c] : inbox[c][k].n = sent[c]
Rounds == fault # "duplicated" => \A c \in Clients : ~Shared(c) => OneRound(c)

\* The lines from port p that are no more on their way to the server.
Done(p) == {x \in SentFrom(p) : \A d \in net : d.kind = "request" => <<d.who, d.n>> # x}

\* A record counts no more lines than have arrived, and each answer has the number of a line
\* that had arrived.
Records ==
    /\ \A i \in DOMAIN client_cache : client_cache[i].port \in Ports \cup {0}
    /\ \A i, j \in DOMAIN client_cache :
          (client_cache[i].port = client_cache[j].port /\ client_cache[i].port # 0) => i = j
Counting ==
    /\ \A p \in Ports : IsFiniteSet(SentFrom(p))
    /\ fault # "duplicated" =>
          /\ \A i \in DOMAIN client_cache :
                client_cache[i].port # 0 =>
                   client_cache[i].number <= Cardinality(Done(client_cache[i].port))
          /\ \A d \in Around : d.kind = "answer" => d.number \in 1..Cardinality(SentFrom(d.to))

\* Until something is forgotten, a record is at or past the numbers it has given.
Distinct ==
    ~reset => \A d \in Around : d.kind = "answer" =>
        /\ \E i \in DOMAIN client_cache :
              client_cache[i].port = d.to /\ d.number <= client_cache[i].number
        /\ \A e \in Around : e.kind = "answer" /\ d.to = e.to /\ d.number = e.number => d = e

EchoInv == RUTypeOK /\ AllGenuine /\ Rounds /\ Records /\ Counting /\ Distinct

LEMMA SubsetCounts ==
    ASSUME NEW S, NEW T, S \subseteq T, IsFiniteSet(T)
    PROVE  /\ IsFiniteSet(S) /\ Cardinality(S) \in Nat /\ Cardinality(T) \in Nat
           /\ Cardinality(S) <= Cardinality(T)
<1>1. IsFiniteSet(S) /\ Cardinality(S) <= Cardinality(T)
  BY FS_Subset
<1> QED BY <1>1, FS_CardinalityType

LEMMA EchoData ==
    ASSUME EchoInv
    PROVE  /\ net \subseteq Around /\ net \subseteq Datagrams
           /\ \A c \in Clients : Come(c) \subseteq Around /\ Come(c) \subseteq Datagrams
           /\ Around \subseteq Datagrams
           /\ \A c \in Clients : /\ inbox[c] \in Seq(Datagrams) /\ Len(inbox[c]) \in Nat
                                 /\ DOMAIN inbox[c] = 1..Len(inbox[c])
                                 /\ got[c] \subseteq Come(c)
                                 /\ \A k \in DOMAIN inbox[c] : inbox[c][k] \in Come(c)
                                 /\ sent[c] \in Nat /\ port[c] \in Ports
           /\ \A d \in Datagrams : /\ d.who \in Clients /\ d.n \in Nat /\ d.number \in Nat
                                   /\ d.kind \in {"request", "answer"}
           /\ \A d \in Around : Genuine(d) /\ (d.kind = "answer" => d.to \in Ports)
           /\ client_cache \in Seq(CacheRecords) /\ Len(client_cache) \in Nat
           /\ DOMAIN client_cache = 1..Len(client_cache)
           /\ \A i \in DOMAIN client_cache :
                 client_cache[i].port \in Ports \cup {0} /\ client_cache[i].number \in Nat
<1>1. RUTypeOK
  BY DEF EchoInv
<1>2. /\ net \subseteq Around /\ net \subseteq Datagrams
      /\ \A c \in Clients : Come(c) \subseteq Around
  BY <1>1 DEF RUTypeOK, Around
<1>3. \A c \in Clients : /\ inbox[c] \in Seq(Datagrams) /\ Len(inbox[c]) \in Nat
                         /\ DOMAIN inbox[c] = 1..Len(inbox[c])
                         /\ got[c] \subseteq Datagrams
                         /\ sent[c] \in Nat /\ port[c] \in Ports
  BY <1>1 DEF RUTypeOK
<1>4. \A c \in Clients : /\ got[c] \subseteq Come(c)
                         /\ \A k \in DOMAIN inbox[c] : inbox[c][k] \in Come(c)
  BY DEF Come
<1>5. \A c \in Clients : Come(c) \subseteq Datagrams
  BY <1>3 DEF Come
<1>6. Around \subseteq Datagrams
  BY <1>2, <1>5 DEF Around
<1>7. \A d \in Datagrams : /\ d.who \in Clients /\ d.n \in Nat /\ d.number \in Nat
                           /\ d.kind \in {"request", "answer"}
  BY DEF Datagrams
<1>8. \A d \in Around : Genuine(d) /\ (d.kind = "answer" => d.to \in Ports)
  BY <1>3, <1>6, <1>7 DEF EchoInv, AllGenuine, Genuine
<1>9. /\ client_cache \in Seq(CacheRecords) /\ Len(client_cache) \in Nat
      /\ DOMAIN client_cache = 1..Len(client_cache)
  BY <1>1 DEF RUTypeOK, CacheRecords
<1>10. ASSUME NEW i \in DOMAIN client_cache
       PROVE  client_cache[i].port \in Ports \cup {0} /\ client_cache[i].number \in Nat
  <2>1. client_cache[i].port \in Ports \cup {0}
    BY DEF EchoInv, Records
  <2>2. client_cache[i] \in CacheRecords
    BY <1>9, InSequence
  <2> QED BY <2>1, <2>2 DEF CacheRecords
<1> QED BY <1>2, <1>3, <1>4, <1>5, <1>6, <1>7, <1>8, <1>9, <1>10

LEMMA SentAre ==
    ASSUME NEW p
    PROVE  \A x : x \in SentFrom(p) <=>
               \E c \in Clients : port[c] = p /\ \E k \in 1..sent[c] : x = <<c, k>>
  BY DEF SentFrom

LEMMA DoneCounts ==
    ASSUME EchoInv, NEW p \in Ports
    PROVE  /\ IsFiniteSet(SentFrom(p)) /\ Cardinality(SentFrom(p)) \in Nat
           /\ IsFiniteSet(Done(p)) /\ Cardinality(Done(p)) \in Nat
           /\ Cardinality(Done(p)) <= Cardinality(SentFrom(p))
<1>1. IsFiniteSet(SentFrom(p))
  BY DEF EchoInv, Counting
<1>2. Done(p) \subseteq SentFrom(p)
  BY DEF Done
<1> QED BY <1>1, <1>2, SubsetCounts

\* The network, the clients or a server that forgets: there is nothing new.
LEMMA NothingNew ==
    ASSUME EchoInv, UNCHANGED <<port, sent>>,
           net' \subseteq net, Around' \subseteq Around,
           \A c \in Clients : \A d \in Come(c)' : d.to = port[c],
           fault' # "duplicated" => fault # "duplicated",
           \/ client_cache' = client_cache /\ reset' = reset
           \/ /\ reset' /\ Records'
              /\ \A i \in DOMAIN client_cache' : client_cache'[i].port # 0 =>
                    \/ client_cache'[i].number = 0
                    \/ \E j \in DOMAIN client_cache :
                          /\ client_cache[j].port = client_cache'[i].port
                          /\ client_cache'[i].number <= client_cache[j].number,
           client_cache' \in Seq(CacheRecords)
    PROVE  AllGenuine' /\ Records' /\ Counting' /\ Distinct'
<1>1. \A d \in Around : Genuine(d) => Genuine(d)'
  BY DEF Genuine
<1>2. AllGenuine'
  BY <1>1 DEF EchoInv, AllGenuine
<1>3. Records'
  BY DEF EchoInv, Records
<1>4. \A p \in Ports : SentFrom(p)' = SentFrom(p)
  BY DEF SentFrom
<1>5. \A p \in Ports : Cardinality(Done(p)) \in Nat /\ Cardinality(Done(p)') \in Nat
                       /\ Cardinality(Done(p)) <= Cardinality(Done(p)')
  <2> SUFFICES ASSUME NEW p \in Ports
               PROVE  Cardinality(Done(p)) \in Nat /\ Cardinality(Done(p)') \in Nat
                      /\ Cardinality(Done(p)) <= Cardinality(Done(p)')
    OBVIOUS
  <2>1. Done(p) \subseteq Done(p)' /\ Done(p)' \subseteq SentFrom(p)
    BY <1>4 DEF Done
  <2>2. IsFiniteSet(Done(p)')
    BY <2>1, DoneCounts, SubsetCounts
  <2> QED BY <2>1, <2>2, SubsetCounts
<1>6. Counting'
  <2>1. \A p \in Ports : IsFiniteSet(SentFrom(p))'
    BY <1>4, DoneCounts
  <2>2. ASSUME fault' # "duplicated", NEW d \in Around', d.kind = "answer"
        PROVE  d.number \in 1..Cardinality(SentFrom(d.to)')
    BY <1>4, <2>2, EchoData DEF EchoInv, Counting
  <2>3. ASSUME fault' # "duplicated", NEW i \in DOMAIN client_cache', NEW p \in Ports,
               client_cache'[i].port = p
        PROVE  client_cache'[i].number <= Cardinality(Done(p)')
    <3>1. client_cache'[i] \in CacheRecords
      BY <2>3, InSequence
    <3> DEFINE m == client_cache'[i].number
    <3>2. m \in Nat
      BY <3>1 DEF CacheRecords
    <3>3. \A j \in DOMAIN client_cache :
             client_cache[j].port = p => client_cache[j].number <= Cardinality(Done(p))
      BY <2>3, PortsAssumption DEF EchoInv, Counting
    <3>4. m = 0 \/ \E j \in DOMAIN client_cache :
                      client_cache[j].port = p /\ m <= client_cache[j].number
      <4>1. p # 0
        BY PortsAssumption
      <4>2. client_cache' = client_cache => m <= client_cache[i].number
        BY <3>2
      <4> QED BY <2>3, <4>1, <4>2
    <3> HIDE DEF m
    <3>5. m <= Cardinality(Done(p)')
      <4>1. /\ Cardinality(Done(p)) \in Nat /\ Cardinality(Done(p)') \in Nat
            /\ Cardinality(Done(p)) <= Cardinality(Done(p)')
        BY <1>5
      <4>2. ASSUME NEW j \in DOMAIN client_cache,
                   client_cache[j].port = p, m <= client_cache[j].number
            PROVE  m <= Cardinality(Done(p)')
        <5>1. client_cache[j].number \in Nat /\ client_cache[j].number <= Cardinality(Done(p))
          BY <3>3, <4>2, EchoData
        <5> QED BY <3>2, <4>1, <4>2, <5>1
      <4> QED BY <3>4, <4>1, <4>2
    <3> QED BY <3>5 DEF m
  <2>4. \A i \in DOMAIN client_cache' :
           client_cache'[i].port # 0 => client_cache'[i].port \in Ports
    BY <1>3 DEF Records
  <2> QED BY <2>1, <2>2, <2>3, <2>4 DEF Counting
<1>7. Distinct'
  BY DEF EchoInv, Distinct
<1> QED BY <1>2, <1>3, <1>6, <1>7

\* A client says something: it is a line of its own, and one more of its port.
LEMMA Said ==
    ASSUME EchoInv, NEW c \in Clients, NEW words \in {"other", "fin", "finish"},
           sent' = [sent EXCEPT ![c] = @ + 1], net' = net \cup {Request(c, words)},
           UNCHANGED <<client_cache, port, got, fault, reset>>,
           inbox' = inbox \/ inbox' = [inbox EXCEPT ![c] = <<>>],
           pc' \in [Clients -> {"prompt", "wait", "gone"}]
    PROVE  RUTypeOK' /\ AllGenuine' /\ Records' /\ Counting' /\ Distinct'
<1>1. /\ sent \in [Clients -> Nat] /\ port \in [Clients -> Ports]
      /\ net \subseteq Datagrams /\ inbox \in [Clients -> Seq(Datagrams)]
  BY DEF EchoInv, RUTypeOK
<1>2. /\ sent' \in [Clients -> Nat] /\ sent'[c] = sent[c] + 1
      /\ \A d \in Clients : sent[d] \in Nat /\ sent'[d] \in Nat /\ sent[d] <= sent'[d]
      /\ \A d \in Clients \ {c} : sent'[d] = sent[d]
  BY <1>1
<1>3. PICK r \in Datagrams : r = Request(c, words)
  BY <1>1, <1>2 DEF Request, Datagrams
<1>4. /\ net' = net \cup {r} /\ r.kind = "request" /\ r.to = ServerPort /\ r.from = port[c]
      /\ r.who = c /\ r.n = sent[c] + 1
  BY <1>2, <1>3 DEF Request
<1>5. \A d \in Clients : inbox'[d] = inbox[d] \/ inbox'[d] = <<>>
  BY <1>1
<1>6. \A d \in Clients : Come(d)' \subseteq Come(d)
  BY <1>5 DEF Come
<1>7. Around' \subseteq Around \cup {r}
  BY <1>4, <1>6 DEF Around
<1>8. RUTypeOK'
  <2>1. inbox' \in [Clients -> Seq(Datagrams)]
    <3>1. <<>> \in Seq(Datagrams)
      OBVIOUS
    <3> QED BY <1>1, <3>1
  <2>2. net' \subseteq Datagrams
    BY <1>1, <1>3, <1>4
  <2> QED BY <1>1, <1>2, <2>1, <2>2 DEF EchoInv, RUTypeOK
<1>9. AllGenuine'
  <2>1. \A d \in Datagrams : Genuine(d) => Genuine(d)'
    <3> SUFFICES ASSUME NEW d \in Datagrams, Genuine(d)
                 PROVE  Genuine(d)'
      OBVIOUS
    <3>1. d.who \in Clients /\ d.n \in Nat
      BY EchoData
    <3>2. d.n \in 1..sent'[d.who]
      BY <1>2, <3>1 DEF Genuine
    <3> QED BY <3>2 DEF Genuine
  <2>2. Genuine(r)'
    <3>1. r.n \in 1..sent'[r.who]
      BY <1>2, <1>4
    <3> QED BY <1>4, <3>1 DEF Genuine
  <2>3. ASSUME NEW d \in Around' PROVE Genuine(d)'
    <3>1. CASE d \in Around
      BY <2>1, <3>1, EchoData
    <3>2. CASE d = r
      BY <2>2, <3>2
    <3> QED BY <1>7, <3>1, <3>2
  <2>4. \A d \in Clients : \A e \in Come(d)' : e.to = port'[d]
    BY <1>6 DEF EchoInv, AllGenuine
  <2>5. \A d \in net : d.who = c => d.n # r.n
    <3> SUFFICES ASSUME NEW d \in net, d.who = c
                 PROVE  d.n # r.n
      OBVIOUS
    <3>1. d.n \in 1..sent[c]
      BY EchoData DEF Genuine
    <3> QED BY <1>2, <1>4, <3>1
  <2>6. \A d, e \in net' :
          d.kind = "request" /\ e.kind = "request" /\ d.who = e.who /\ d.n = e.n => d = e
    BY <1>4, <2>5 DEF EchoInv, AllGenuine
  <2> QED BY <2>3, <2>4, <2>6 DEF AllGenuine
<1>10. \A p \in Ports : /\ SentFrom(p)' \subseteq SentFrom(p) \cup {<<c, sent[c] + 1>>}
                        /\ SentFrom(p) \subseteq SentFrom(p)'
                        /\ Done(p) \subseteq Done(p)'
  <2> SUFFICES ASSUME NEW p \in Ports
               PROVE  /\ SentFrom(p)' \subseteq SentFrom(p) \cup {<<c, sent[c] + 1>>}
                      /\ SentFrom(p) \subseteq SentFrom(p)'
                      /\ Done(p) \subseteq Done(p)'
    OBVIOUS
  <2>1. \A x : x \in SentFrom(p)' <=>
             \E d \in Clients : port[d] = p /\ \E k \in 1..sent'[d] : x = <<d, k>>
    BY DEF SentFrom
  <2>2. \A d \in Clients : \A k \in 1..sent[d] : k \in 1..sent'[d]
    BY <1>2
  <2>3. \A d \in Clients : \A k \in 1..sent'[d] : k \in 1..sent[d] \/ (d = c /\ k = sent[c] + 1)
    BY <1>2
  <2>4. SentFrom(p) \subseteq SentFrom(p)'
    BY <2>1, <2>2, SentAre
  <2>5. SentFrom(p)' \subseteq SentFrom(p) \cup {<<c, sent[c] + 1>>}
    BY <2>1, <2>3, SentAre
  <2>6. <<c, sent[c] + 1>> \notin SentFrom(p)
    <3>1. sent[c] + 1 \notin 1..sent[c]
      BY <1>2
    <3> QED BY <3>1, SentAre
  <2>7. Done(p) \subseteq Done(p)'
    BY <1>4, <2>4, <2>6 DEF Done
  <2> QED BY <2>4, <2>5, <2>7
<1>11. \A p \in Ports : /\ IsFiniteSet(SentFrom(p)')
                        /\ Cardinality(SentFrom(p)) \in Nat /\ Cardinality(SentFrom(p)') \in Nat
                        /\ Cardinality(SentFrom(p)) <= Cardinality(SentFrom(p)')
                        /\ Cardinality(Done(p)) \in Nat /\ Cardinality(Done(p)') \in Nat
                        /\ Cardinality(Done(p)) <= Cardinality(Done(p)')
  <2> SUFFICES ASSUME NEW p \in Ports
               PROVE  /\ IsFiniteSet(SentFrom(p)')
                      /\ Cardinality(SentFrom(p)) \in Nat /\ Cardinality(SentFrom(p)') \in Nat
                      /\ Cardinality(SentFrom(p)) <= Cardinality(SentFrom(p)')
                      /\ Cardinality(Done(p)) \in Nat /\ Cardinality(Done(p)') \in Nat
                      /\ Cardinality(Done(p)) <= Cardinality(Done(p)')
    OBVIOUS
  <2>1. IsFiniteSet(SentFrom(p) \cup {<<c, sent[c] + 1>>})
    BY DoneCounts, FS_AddElement
  <2>2. IsFiniteSet(SentFrom(p)')
    BY <1>10, <2>1, SubsetCounts
  <2>3. Done(p)' \subseteq SentFrom(p)'
    BY DEF Done
  <2>4. IsFiniteSet(Done(p)')
    BY <2>2, <2>3, SubsetCounts
  <2>5. /\ Cardinality(SentFrom(p)) \in Nat /\ Cardinality(SentFrom(p)') \in Nat
        /\ Cardinality(SentFrom(p)) <= Cardinality(SentFrom(p)')
    BY <1>10, <2>2, SubsetCounts
  <2>6. /\ Cardinality(Done(p)) \in Nat /\ Cardinality(Done(p)') \in Nat
        /\ Cardinality(Done(p)) <= Cardinality(Done(p)')
    BY <1>10, <2>4, SubsetCounts
  <2> QED BY <2>2, <2>5, <2>6
<1>12. Records'
  BY DEF EchoInv, Records
<1>13. Counting'
  <2>1. ASSUME fault # "duplicated", NEW i \in DOMAIN client_cache, NEW p \in Ports,
               client_cache[i].port = p
        PROVE  client_cache[i].number <= Cardinality(Done(p)')
    <3>1. client_cache[i].number \in Nat /\ client_cache[i].number <= Cardinality(Done(p))
      BY <2>1, EchoData, PortsAssumption DEF EchoInv, Counting
    <3> QED BY <1>11, <3>1
  <2>2. ASSUME fault # "duplicated", NEW d \in Around', d.kind = "answer"
        PROVE  d.number \in 1..Cardinality(SentFrom(d.to)')
    <3>1. d \in Around
      BY <1>4, <1>7, <2>2
    <3>2. d.to \in Ports /\ d.number \in Nat
      BY <2>2, <3>1, EchoData
    <3>3. d.number \in 1..Cardinality(SentFrom(d.to))
      BY <2>2, <3>1 DEF EchoInv, Counting
    <3> QED BY <1>11, <3>2, <3>3
  <2>3. \A p \in Ports : IsFiniteSet(SentFrom(p))'
    BY <1>11
  <2> QED BY <1>12, <2>1, <2>2, <2>3 DEF Counting, Records
<1>14. Distinct'
  <2>1. \A d \in Around' : d.kind = "answer" => d \in Around
    BY <1>4, <1>7
  <2> QED BY <2>1 DEF EchoInv, Distinct
<1> QED BY <1>8, <1>9, <1>12, <1>13, <1>14

LEMMA TypeEcho == ASSUME EchoInv, NEW c \in Clients, Type(c) PROVE EchoInv'
<1>1. PICK words \in {"other", "finish"} : net' = net \cup {Request(c, words)}
  BY DEF Type
<1>2. pc' = [pc EXCEPT ![c] = "wait"] /\ pc[c] = "prompt"
  BY DEF Type, RUGoto
<1>3. /\ pc \in [Clients -> {"prompt", "wait", "gone"}] /\ sent \in [Clients -> Nat]
      /\ sent' = [sent EXCEPT ![c] = @ + 1]
      /\ UNCHANGED <<client_cache, port, inbox, got, fault, reset>>
  BY DEF Type, EchoInv, RUTypeOK
<1>4. RUTypeOK' /\ AllGenuine' /\ Records' /\ Counting' /\ Distinct'
  BY <1>1, <1>2, <1>3, Said
<1>5. Rounds'
  <2> SUFFICES ASSUME fault # "duplicated", NEW d \in Clients, ~Shared(d)
               PROVE  OneRound(d)'
    BY <1>3 DEF Rounds, Shared
  <2>1. OneRound(d)
    BY DEF EchoInv, Rounds
  <2> DEFINE r == Request(c, words)
  <2>2. r.who = c /\ r.n = sent'[c] /\ net' = net \cup {r}
    BY <1>1 DEF Request
  <2> HIDE DEF r
  <2>3. CASE d = c
    <3>1. pc'[c] = "wait" /\ inbox'[c] = <<>> /\ \A e \in net : e.who # c
      BY <1>2, <1>3, <2>1, <2>3 DEF OneRound
    <3> QED BY <2>2, <2>3, <3>1 DEF OneRound
  <2>4. CASE d # c
    <3>1. pc'[d] = pc[d] /\ sent'[d] = sent[d] /\ inbox'[d] = inbox[d] /\ got'[d] = got[d]
      BY <1>2, <1>3, <2>4
    <3>2. \A e \in net' : e.who = d => e \in net
      BY <2>2, <2>4
    <3>3. net \subseteq net'
      BY <2>2
    <3> QED BY <2>1, <3>1, <3>2, <3>3 DEF OneRound
  <2> QED BY <2>3, <2>4
<1> QED BY <1>4, <1>5 DEF EchoInv

LEMMA LeaveEcho == ASSUME EchoInv, NEW c \in Clients, Leave(c) PROVE EchoInv'
<1>1. /\ pc \in [Clients -> {"prompt", "wait", "gone"}] /\ sent \in [Clients -> Nat]
      /\ inbox \in [Clients -> Seq(Datagrams)]
      /\ pc' = [pc EXCEPT ![c] = "gone"] /\ sent' = [sent EXCEPT ![c] = @ + 1]
      /\ inbox' = [inbox EXCEPT ![c] = <<>>] /\ net' = net \cup {Request(c, "fin")}
      /\ UNCHANGED <<client_cache, port, got, fault, reset>>
  BY DEF Leave, RUGoto, EchoInv, RUTypeOK
<1>2. RUTypeOK' /\ AllGenuine' /\ Records' /\ Counting' /\ Distinct'
  BY <1>1, Said
<1>3. Rounds'
  <2> SUFFICES ASSUME fault # "duplicated", NEW d \in Clients, ~Shared(d)
               PROVE  OneRound(d)'
    BY <1>1 DEF Rounds, Shared
  <2>1. OneRound(d)
    BY DEF EchoInv, Rounds
  <2> DEFINE r == Request(c, "fin")
  <2>2. r.who = c /\ net' = net \cup {r}
    BY <1>1 DEF Request
  <2> HIDE DEF r
  <2>3. CASE d = c
    BY <1>1, <2>3 DEF OneRound
  <2>4. CASE d # c
    <3>1. pc'[d] = pc[d] /\ sent'[d] = sent[d] /\ inbox'[d] = inbox[d] /\ got'[d] = got[d]
      BY <1>1, <2>4
    <3>2. \A e \in net' : e.who = d => e \in net
      BY <2>2, <2>4
    <3> QED BY <2>1, <3>1, <3>2 DEF OneRound
  <2> QED BY <2>3, <2>4
<1> QED BY <1>2, <1>3 DEF EchoInv

LEMMA TakeEcho == ASSUME EchoInv, NEW c \in Clients, TakeAnswer(c) PROVE EchoInv'
<1>1. /\ pc \in [Clients -> {"prompt", "wait", "gone"}] /\ inbox \in [Clients -> Seq(Datagrams)]
      /\ got \in [Clients -> SUBSET Datagrams]
      /\ pc[c] = "wait" /\ pc' = [pc EXCEPT ![c] = "prompt"]
      /\ inbox[c] # <<>> /\ inbox' = [inbox EXCEPT ![c] = Tail(inbox[c])]
      /\ got' = [got EXCEPT ![c] = {Head(inbox[c])}]
      /\ UNCHANGED <<net, client_cache, port, sent, fault, reset>>
  BY DEF TakeAnswer, RUGoto, EchoInv, RUTypeOK
<1>2. /\ inbox[c] \in Seq(Datagrams) /\ Len(inbox[c]) \in Nat \ {0}
      /\ Head(inbox[c]) = inbox[c][1] /\ 1 \in DOMAIN inbox[c]
      /\ Tail(inbox[c]) \in Seq(Datagrams) /\ Len(Tail(inbox[c])) = Len(inbox[c]) - 1
      /\ \A k \in DOMAIN Tail(inbox[c]) :
            k + 1 \in DOMAIN inbox[c] /\ Tail(inbox[c])[k] = inbox[c][k + 1]
  BY <1>1
<1>3. /\ inbox'[c] = Tail(inbox[c]) /\ got'[c] = {inbox[c][1]} /\ pc'[c] = "prompt"
      /\ \A d \in Clients \ {c} : inbox'[d] = inbox[d] /\ got'[d] = got[d] /\ pc'[d] = pc[d]
  BY <1>1, <1>2
<1>4. \A d \in Clients : Come(d)' \subseteq Come(d)
  <2>1. Come(c)' \subseteq Come(c)
    BY <1>2, <1>3 DEF Come
  <2>2. \A d \in Clients \ {c} : Come(d)' = Come(d)
    BY <1>3 DEF Come
  <2> QED BY <2>1, <2>2
<1>5. Around' \subseteq Around
  BY <1>1, <1>4 DEF Around
<1>6. RUTypeOK'
  <2>1. inbox' \in [Clients -> Seq(Datagrams)]
    BY <1>1, <1>2
  <2>2. got' \in [Clients -> SUBSET Datagrams]
    <3>1. inbox[c][1] \in Datagrams
      BY <1>2, EchoData
    <3> QED BY <1>1, <1>2, <3>1
  <2>3. pc' \in [Clients -> {"prompt", "wait", "gone"}]
    BY <1>1
  <2> QED BY <1>1, <2>1, <2>2, <2>3 DEF EchoInv, RUTypeOK
<1>7. AllGenuine' /\ Records' /\ Counting' /\ Distinct'
  <2>1. \A d \in Clients : \A e \in Come(d)' : e.to = port[d]
    BY <1>4 DEF EchoInv, AllGenuine
  <2>2. client_cache' \in Seq(CacheRecords)
    BY <1>1, EchoData
  <2> QED BY <1>1, <1>5, <2>1, <2>2, NothingNew
<1>8. Rounds'
  <2> SUFFICES ASSUME fault # "duplicated", NEW d \in Clients, ~Shared(d)
               PROVE  OneRound(d)'
    BY <1>1 DEF Rounds, Shared
  <2>1. OneRound(d)
    BY DEF EchoInv, Rounds
  <2>2. CASE d = c
    <3>1. \A e \in net : e.who # c
      BY <1>1, <2>1, <2>2 DEF OneRound
    <3>2. inbox'[c] = <<>>
      <4>1. Len(inbox[c]) <= 1
        BY <1>1, <2>1, <2>2 DEF OneRound
      <4> QED BY <1>2, <1>3, <4>1
    <3>3. inbox[c][1].n = sent[c]
      BY <1>1, <1>2, <2>1, <2>2 DEF OneRound
    <3> QED BY <1>1, <1>3, <2>2, <3>1, <3>2, <3>3 DEF OneRound
  <2>3. CASE d # c
    BY <1>1, <1>3, <2>1, <2>3 DEF OneRound
  <2> QED BY <2>2, <2>3
<1> QED BY <1>6, <1>7, <1>8 DEF EchoInv

\* What neither a client nor the server sees: a loss, a restart, or nothing.
LEMMA UnseenEcho ==
    ASSUME EchoInv, net' \subseteq net, UNCHANGED <<pc, port, inbox, sent, got>>,
           fault' # "duplicated" => fault # "duplicated",
           (client_cache' = client_cache /\ reset' = reset) \/ (client_cache' = <<>> /\ reset')
    PROVE  EchoInv'
<1>1. Around' \subseteq Around /\ \A c \in Clients : Come(c)' = Come(c)
  BY DEF Around, Come
<1>2. client_cache' \in Seq(CacheRecords)
  <2>1. <<>> \in Seq(CacheRecords)
    OBVIOUS
  <2> QED BY <2>1, EchoData
<1>3. RUTypeOK'
  BY <1>2 DEF EchoInv, RUTypeOK, CacheRecords
<1>4. AllGenuine' /\ Records' /\ Counting' /\ Distinct'
  <2>1. \A d \in Clients : \A e \in Come(d)' : e.to = port[d]
    BY <1>1 DEF EchoInv, AllGenuine
  <2>2. client_cache' = <<>> => DOMAIN client_cache' = {}
    OBVIOUS
  <2>3. client_cache' = <<>> => Records'
    BY <2>2 DEF Records
  <2> QED BY <1>1, <1>2, <2>1, <2>2, <2>3, NothingNew
<1>5. Rounds'
  <2> SUFFICES ASSUME fault # "duplicated", NEW d \in Clients, ~Shared(d)
               PROVE  OneRound(d)'
    BY DEF Rounds, Shared
  <2>1. OneRound(d)
    BY DEF EchoInv, Rounds
  <2> QED BY <2>1 DEF OneRound
<1> QED BY <1>3, <1>4, <1>5 DEF EchoInv

LEMMA ForgottenIs ==
    ASSUME NEW q \in Seq(CacheRecords), NEW i \in DOMAIN q,
           NEW k \in 1..(Len(q) + 1)
    PROVE  LET r == Forgotten(q, i, k) IN
           /\ r \in Seq(CacheRecords) /\ Len(r) = Len(q) /\ DOMAIN r = DOMAIN q
           /\ \A j \in DOMAIN r :
                 \/ r[j] = [port |-> 0, number |-> 0]
                 \/ /\ Up(k, j) \in DOMAIN q /\ r[j].port = q[Up(k, j)].port
                    /\ r[j].number = IF Up(k, j) = i THEN 0 ELSE q[Up(k, j)].number
<1> DEFINE n == Len(q)  r == Forgotten(q, i, k)
           z == [q EXCEPT ![i].number = 0]
<1>1. n \in Nat /\ DOMAIN q = 1..n /\ i \in 1..n
  OBVIOUS
<1>2. \A j \in 1..n : q[j] \in CacheRecords
  BY <1>1, InSequence
<1>3. DOMAIN z = 1..n /\ \A j \in 1..n :
         /\ z[j] \in CacheRecords /\ z[j].port = q[j].port
         /\ z[j].number = IF j = i THEN 0 ELSE q[j].number
  BY <1>1, <1>2 DEF CacheRecords
<1>4. [port |-> 0, number |-> 0] \in CacheRecords
  BY DEF CacheRecords
<1>5. r = [j \in 1..n |-> IF j < k THEN z[j]
                          ELSE IF j < n THEN z[j + 1] ELSE [port |-> 0, number |-> 0]]
  BY DEF Forgotten
<1> HIDE DEF z, n, r
<1>6. \A j \in 1..n : \/ r[j] = [port |-> 0, number |-> 0]
                      \/ Up(k, j) \in 1..n /\ r[j] = z[Up(k, j)]
  BY <1>1, <1>5 DEF Up, n
<1>7. r \in Seq(CacheRecords) /\ DOMAIN r = 1..n /\ Len(r) = n
  <2>1. \A j \in 1..n : r[j] \in CacheRecords
    BY <1>3, <1>4, <1>6
  <2>2. r = [j \in 1..n |-> r[j]]
    BY <1>5
  <2> QED BY <1>1, <2>1, <2>2, IsSequence
<1> QED BY <1>1, <1>3, <1>6, <1>7 DEF n, r

\* What get_or_add() and the count make of the records.
CountedFor(p) == [WithSender(p) EXCEPT ![Index(p)].number = @ + 1]

LEMMA CountedIs ==
    ASSUME EchoInv, NEW p \in Ports
    PROVE  LET q == CountedFor(p)  i == Index(p) IN
           /\ q \in Seq(CacheRecords) /\ i \in DOMAIN q
           /\ DOMAIN client_cache \subseteq DOMAIN q
           /\ q[i].port = p /\ q[i].number \in Nat \ {0}
           /\ IF i \in DOMAIN client_cache
              THEN client_cache[i].port = p /\ q[i].number = client_cache[i].number + 1
              ELSE q[i].number = 1
           /\ \A j \in DOMAIN q \ {i} : j \in DOMAIN client_cache /\ q[j] = client_cache[j]
           /\ \A j \in DOMAIN client_cache : client_cache[j].port = p => j = i
<1> DEFINE n == Len(client_cache)
           q == CountedFor(p)  i == Index(p)  w == WithSender(p)
<1>1. /\ client_cache \in Seq(CacheRecords) /\ n \in Nat /\ DOMAIN client_cache = 1..n
      /\ \A j \in 1..n : client_cache[j] \in CacheRecords
  BY EchoData, InSequence
<1>2. p \in Nat /\ p # 0
  BY PortsAssumption
<1>3. [port |-> p, number |-> 0] \in CacheRecords
  BY <1>2 DEF CacheRecords
<1>4. q = [w EXCEPT ![i].number = @ + 1]
  BY DEF CountedFor
<1>5. CASE Known(p) = {}
  <2>1. i = n + 1 /\ w = Append(client_cache, [port |-> p, number |-> 0])
    BY <1>5 DEF Index, WithSender
  <2>2. \A j \in 1..n : client_cache[j].port # p
    BY <1>1, <1>5 DEF Known, SameClient
  <2> HIDE DEF n, w, i, q
  <2>3. /\ w \in Seq(CacheRecords) /\ DOMAIN w = 1..(n + 1) /\ w[n + 1] = [port |-> p, number |-> 0]
        /\ \A j \in 1..n : w[j] = client_cache[j]
    BY <1>1, <1>3, <2>1, Appended DEF n
  <2>4. /\ DOMAIN q = 1..(n + 1) /\ \A j \in 1..n : q[j] = client_cache[j]
        /\ q[n + 1] = [port |-> p, number |-> 1]
    <3>1. DOMAIN q = 1..(n + 1) /\ \A j \in 1..n : q[j] = client_cache[j]
      <4>1. i \notin 1..n /\ \A j \in 1..n : j \in 1..(n + 1)
        BY <1>1, <2>1 DEF n
      <4>2. DOMAIN q = DOMAIN w /\ \A j \in DOMAIN w : j # i => q[j] = w[j]
        BY <1>4
      <4> QED BY <2>3, <4>1, <4>2
    <3>2. q[n + 1] = [w[n + 1] EXCEPT !.number = @ + 1]
      BY <1>1, <1>4, <2>1, <2>3
    <3> QED BY <2>3, <3>1, <3>2
  <2>5. q \in Seq(CacheRecords)
    <3>1. [port |-> p, number |-> 1] \in CacheRecords
      BY <1>2 DEF CacheRecords
    <3>2. \A j \in 1..(n + 1) : q[j] \in CacheRecords
      BY <1>1, <2>4, <3>1
    <3>3. q = [j \in 1..(n + 1) |-> q[j]]
      BY <1>4, <2>3, <2>4
    <3> QED BY <1>1, <3>2, <3>3, IsSequence
  <2>6. q[i].port = p /\ q[i].number = 1
    BY <2>1, <2>4
  <2>7. i \in DOMAIN q /\ DOMAIN client_cache \subseteq DOMAIN q /\ i \notin DOMAIN client_cache
    BY <1>1, <2>1, <2>4
  <2>8. \A j \in DOMAIN q \ {i} : j \in DOMAIN client_cache /\ q[j] = client_cache[j]
    BY <1>1, <2>1, <2>4
  <2> QED BY <1>1, <2>2, <2>5, <2>6, <2>7, <2>8 DEF q, i
<1>6. CASE Known(p) # {}
  <2>1. w = client_cache
    BY <1>6 DEF WithSender
  <2>2. PICK k \in 1..n : client_cache[k].port = p
    BY <1>1, <1>6 DEF Known, SameClient
  <2>3. \A j \in 1..n : client_cache[j].port = p => j = k
    BY <1>1, <1>2, <2>2 DEF EchoInv, Records
  <2>4. Known(p) = {k}
    BY <1>1, <2>2, <2>3 DEF Known, SameClient
  <2>5. i = k
    BY <1>1, <2>4 DEF Index
  <2> HIDE DEF n, w, i, q
  <2>6. client_cache[k].number \in Nat /\ client_cache[k] \in CacheRecords
    BY <1>1 DEF CacheRecords
  <2>7. /\ DOMAIN q = 1..n /\ \A j \in (1..n) \ {k} : q[j] = client_cache[j]
        /\ q[k] = [client_cache[k] EXCEPT !.number = @ + 1]
    BY <1>1, <1>4, <2>1, <2>5
  <2>8. q[k] \in CacheRecords /\ q[k].port = p /\ q[k].number = client_cache[k].number + 1
    BY <2>2, <2>6, <2>7 DEF CacheRecords
  <2>9. q \in Seq(CacheRecords)
    <3>1. \A j \in 1..n : q[j] \in CacheRecords
      BY <1>1, <2>7, <2>8
    <3>2. q = [j \in 1..n |-> q[j]]
      BY <1>1, <1>4, <2>1, <2>7
    <3> QED BY <1>1, <3>1, <3>2, IsSequence
  <2>10. q[i].number \in Nat \ {0}
    BY <2>5, <2>6, <2>8
  <2> QED BY <1>1, <2>2, <2>3, <2>5, <2>7, <2>8, <2>9, <2>10 DEF q, i
<1> QED BY <1>5, <1>6

\* Whoever is given the datagram has its port.
LEMMA Received ==
    ASSUME EchoInv, NEW d \in net, Given(d), UNCHANGED <<pc, port, sent, got>>
    PROVE  /\ inbox' \in [Clients -> Seq(Datagrams)]
           /\ \A c \in Clients : /\ Come(c)' \subseteq Come(c) \cup {d}
                                 /\ \A e \in Come(c)' : e.to = port[c]
<1>1. /\ inbox' = [c \in Clients |-> IF Picks(c, d) THEN Append(inbox[c], d) ELSE inbox[c]]
      /\ got' = got /\ d \in Datagrams
  BY EchoData DEF Given
<1>2. ASSUME NEW c \in Clients
      PROVE  /\ inbox'[c] \in Seq(Datagrams)
             /\ Come(c)' \subseteq Come(c) \cup {d}
             /\ \A e \in Come(c)' : e.to = port[c]
  <2>1. \A e \in Come(c) : e.to = port[c]
    BY DEF EchoInv, AllGenuine
  <2>2. inbox[c] \in Seq(Datagrams)
    BY EchoData
  <2>3. CASE Picks(c, d)
    <3>1. inbox'[c] = Append(inbox[c], d) /\ d.to = port[c]
      BY <1>1, <2>3 DEF Picks, ItsPort
    <3>2. Come(c)' \subseteq Come(c) \cup {d}
      BY <1>1, <2>2, <3>1, Appended DEF Come
    <3>3. inbox'[c] \in Seq(Datagrams)
      BY <1>1, <2>2, <3>1, Appended
    <3> QED BY <2>1, <3>1, <3>2, <3>3
  <2>4. CASE ~Picks(c, d)
    <3>1. inbox'[c] = inbox[c]
      BY <1>1, <2>4
    <3>2. Come(c)' = Come(c)
      BY <1>1, <3>1 DEF Come
    <3> QED BY <2>1, <2>2, <3>1, <3>2
  <2> QED BY <2>3, <2>4
<1> QED BY <1>1, <1>2

\* A datagram that arrives once stays the only one of its client: the server may put its
\* answer in its place.
LEMMA RoundsGoOn ==
    ASSUME EchoInv, NEW d \in net, Given(d), UNCHANGED <<pc, port, sent, got>>,
           fault # "duplicated",
           NEW a, a.who = d.who, a.n = d.n, net' \subseteq (net \ {d}) \cup {a},
           d.kind = "answer" => net' \subseteq net \ {d}
    PROVE  Rounds'
<1>1. /\ inbox' = [c \in Clients |-> IF Picks(c, d) THEN Append(inbox[c], d) ELSE inbox[c]]
      /\ UNCHANGED <<pc, port, sent, got>>
  BY DEF Given
<1> SUFFICES ASSUME NEW c \in Clients, ~Shared(c)
             PROVE  OneRound(c)'
  BY <1>1 DEF Rounds, Shared
<1>2. OneRound(c)
  BY DEF EchoInv, Rounds
<1>3. d \in Datagrams /\ d \in Around /\ Genuine(d) /\ d.who \in Clients
  BY EchoData
<1>4. Picks(c, d) => d.kind = "answer" /\ d.who = c
  <2> SUFFICES ASSUME Picks(c, d) PROVE d.kind = "answer" /\ d.who = c
    OBVIOUS
  <2>1. d.to = port[c] /\ port[c] # ServerPort
    BY DEF Picks, ItsPort, Shared
  <2>2. d.kind = "answer"
    BY <1>3, <2>1, EchoData DEF Genuine
  <2>3. port[d.who] = port[c]
    BY <1>3, <2>1, <2>2 DEF Genuine
  <2> QED BY <1>3, <2>2, <2>3 DEF Shared
<1>5. CASE d.who # c
  <2>1. inbox'[c] = inbox[c] /\ \A e \in net' : e.who = c => e \in net
    BY <1>1, <1>4, <1>5
  <2> QED BY <1>1, <1>2, <2>1 DEF OneRound
<1>6. CASE d.who = c
  <2>1. pc[c] # "prompt"
    BY <1>2, <1>6 DEF OneRound
  <2>2. CASE pc[c] = "wait"
    <3>1. d.n = sent[c] /\ inbox[c] = <<>> /\ \A e \in net : e.who = c => e = d
      BY <1>2, <1>6, <2>2 DEF OneRound
    <3>2. \A e \in net' : e.who = c => e = a
      BY <3>1
    <3>3. CASE d.kind = "answer"
      <4>1. \A e \in net' : e.who # c
        BY <3>1, <3>3
      <4>2. inbox'[c] = <<>> \/ inbox'[c] = <<d>>
        <5>1. inbox'[c] = inbox[c] \/ inbox'[c] = Append(inbox[c], d)
          BY <1>1
        <5>2. Append(<<>>, d) = <<d>>
          OBVIOUS
        <5> QED BY <3>1, <5>1, <5>2
      <4>3. Len(inbox'[c]) <= 1 /\ \A k \in DOMAIN inbox'[c] : inbox'[c][k].n = sent[c]
        <5>1. CASE inbox'[c] = <<>>
          BY <5>1
        <5>2. CASE inbox'[c] = <<d>>
          <6>1. Len(<<d>>) = 1 /\ \A k \in DOMAIN <<d>> : <<d>>[k] = d
            OBVIOUS
          <6> QED BY <3>1, <5>2, <6>1
        <5> QED BY <4>2, <5>1, <5>2
      <4> QED BY <1>1, <2>2, <4>1, <4>3 DEF OneRound
    <3>4. CASE d.kind # "answer"
      <4>1. inbox'[c] = <<>>
        BY <1>1, <1>4, <3>1, <3>4
      <4>2. \A e \in net' : e.who = c => e.n = sent[c]
        BY <3>1, <3>2
      <4>3. Len(inbox'[c]) <= 1 /\ DOMAIN inbox'[c] = {}
        BY <4>1
      <4> QED BY <1>1, <2>2, <3>2, <4>1, <4>2, <4>3 DEF OneRound
    <3> QED BY <3>3, <3>4
  <2>3. CASE pc[c] \notin {"prompt", "wait"}
    BY <1>1, <2>3 DEF OneRound
  <2> QED BY <2>1, <2>2, <2>3
<1> QED BY <1>5, <1>6

\* The three things that may happen to a datagram, and to the server with it.
Passed(d, others) ==
    net' = others /\ client_cache' = client_cache /\ reset' = reset
SaidFin(d, others) ==
    /\ ForServer(d) /\ net' = others /\ reset'
    /\ \E k \in 1..(Len(CountedFor(d.from)) + 1) :
          client_cache' = Forgotten(CountedFor(d.from), Index(d.from), k)
Answering(d, others) ==
    /\ ForServer(d) /\ reset' = reset
    /\ client_cache' = CountedFor(d.from)
    /\ net' = others \cup {Answer(d, CountedFor(d.from)[Index(d.from)].number)}

LEMMA ArriveForms ==
    ASSUME EchoInv, NEW d \in net, Arrive(d)
    PROVE  /\ Given(d) /\ UNCHANGED <<pc, port, sent, got>>
           /\ fault' # "duplicated" => fault # "duplicated"
           /\ \E others \in SUBSET net :
                 /\ fault' # "duplicated" => others = net \ {d}
                 /\ Passed(d, others) \/ SaidFin(d, others) \/ Answering(d, others)
<1>1. Given(d) /\ UNCHANGED <<pc, port, sent, got>>
  BY DEF Arrive, client
<1>2. PICK twice \in BOOLEAN :
         /\ fault' = IF twice THEN "duplicated" ELSE fault
         /\ LET others == IF twice THEN net ELSE net \ {d} IN
            IF ForServer(d) THEN Serve(d, others)
            ELSE net' = others /\ UNCHANGED <<client_cache, reset>>
  BY DEF Arrive
<1> DEFINE o == IF twice THEN net ELSE net \ {d}
<1>3. PICK others \in SUBSET net : others = o
  OBVIOUS
<1>4. /\ fault' # "duplicated" => fault # "duplicated" /\ others = net \ {d}
  BY <1>2, <1>3
<1>5. IF ForServer(d) THEN Serve(d, others)
      ELSE net' = others /\ UNCHANGED <<client_cache, reset>>
  BY <1>2, <1>3
<1> HIDE DEF o
<1>6. CASE ForServer(d)
  <2>1. Serve(d, others)
    BY <1>5, <1>6
  <2> QED BY <1>1, <1>4, <1>6, <2>1 DEF Serve, SaidFin, Answering, CountedFor
<1>7. CASE ~ForServer(d)
  BY <1>1, <1>4, <1>5, <1>7 DEF Passed
<1> QED BY <1>6, <1>7

LEMMA ForServerIs ==
    ASSUME EchoInv, NEW d \in net, ForServer(d)
    PROVE  /\ d.kind = "request" /\ d.who \in Clients
           /\ d.from = port[d.who] /\ d.from \in Ports /\ d.from # ServerPort
<1>1. d \in Datagrams /\ Genuine(d) /\ d.who \in Clients
  BY EchoData
<1>2. d.kind = "request"
  BY <1>1, EchoData DEF ForServer, Genuine
<1> QED BY <1>1, <1>2, EchoData DEF ForServer, FromOthers, Genuine

LEMMA PassedEcho ==
    ASSUME EchoInv, NEW d \in net, Arrive(d), NEW others \in SUBSET net,
           fault' # "duplicated" => others = net \ {d},
           Passed(d, others) \/ SaidFin(d, others)
    PROVE  EchoInv'
<1>1. /\ Given(d) /\ UNCHANGED <<pc, port, sent, got>> /\ net' = others
      /\ fault' # "duplicated" => fault # "duplicated"
  BY ArriveForms DEF Passed, SaidFin
<1>2. \A c \in Clients : Come(c)' \subseteq Come(c) \cup {d} /\ \A e \in Come(c)' : e.to = port[c]
  BY <1>1, Received
<1>3. Around' \subseteq Around
  BY <1>1, <1>2 DEF Around
<1>4. /\ client_cache' \in Seq(CacheRecords)
      /\ \/ client_cache' = client_cache /\ reset' = reset
         \/ /\ reset' /\ Records'
            /\ \A i \in DOMAIN client_cache' : client_cache'[i].port # 0 =>
                  \/ client_cache'[i].number = 0
                  \/ \E j \in DOMAIN client_cache :
                        /\ client_cache[j].port = client_cache'[i].port
                        /\ client_cache'[i].number <= client_cache[j].number
  <2>1. CASE Passed(d, others)
    BY <2>1, EchoData DEF Passed
  <2>2. CASE SaidFin(d, others)
    <3>1. PICK k \in 1..(Len(CountedFor(d.from)) + 1) :
             client_cache' = Forgotten(CountedFor(d.from), Index(d.from), k)
      BY <2>2 DEF SaidFin
    <3>2. d.from \in Ports /\ reset'
      BY <2>2, ForServerIs DEF SaidFin
    <3> DEFINE q == CountedFor(d.from)  i == Index(d.from)
    <3>3. /\ q \in Seq(CacheRecords) /\ i \in DOMAIN q /\ q[i].port = d.from
          /\ \A j \in DOMAIN q \ {i} : j \in DOMAIN client_cache /\ q[j] = client_cache[j]
          /\ \A j \in DOMAIN client_cache : client_cache[j].port = d.from => j = i
      BY <3>2, CountedIs
    <3> HIDE DEF q, i
    <3>4. /\ client_cache' \in Seq(CacheRecords) /\ DOMAIN client_cache' = DOMAIN q
          /\ \A j \in DOMAIN client_cache' :
                \/ client_cache'[j] = [port |-> 0, number |-> 0]
                \/ /\ Up(k, j) \in DOMAIN q /\ client_cache'[j].port = q[Up(k, j)].port
                   /\ client_cache'[j].number = IF Up(k, j) = i THEN 0 ELSE q[Up(k, j)].number
      BY <3>1, <3>3, ForgottenIs DEF q, i
    <3>5. ASSUME NEW j \in DOMAIN client_cache', client_cache'[j].port # 0
          PROVE  /\ Up(k, j) \in DOMAIN q /\ client_cache'[j].port = q[Up(k, j)].port
                 /\ client_cache'[j].number = IF Up(k, j) = i THEN 0 ELSE q[Up(k, j)].number
      BY <3>4, <3>5
    <3>6. \A j \in DOMAIN q : q[j].port \in Ports \cup {0}
      BY <3>2, <3>3, EchoData
    <3>7. \A j, l \in DOMAIN q : q[j].port = q[l].port /\ q[j].port # 0 => j = l
      BY <3>3 DEF EchoInv, Records
    <3>8. Records'
      <4>1. \A j \in DOMAIN client_cache' : client_cache'[j].port \in Ports \cup {0}
        BY <3>5, <3>6
      <4>2. \A j, l \in DOMAIN q : Up(k, j) = Up(k, l) => j = l
        <5>1. \A j \in DOMAIN q : j \in Nat
          BY <3>3
        <5> QED BY <3>1, <5>1 DEF Up
      <4>3. \A j, l \in DOMAIN client_cache' :
               client_cache'[j].port = client_cache'[l].port /\ client_cache'[j].port # 0 => j = l
        BY <3>4, <3>5, <3>7, <4>2
      <4> QED BY <4>1, <4>3 DEF Records
    <3>9. ASSUME NEW j \in DOMAIN client_cache', client_cache'[j].port # 0
          PROVE  \/ client_cache'[j].number = 0
                 \/ \E l \in DOMAIN client_cache :
                       /\ client_cache[l].port = client_cache'[j].port
                       /\ client_cache'[j].number <= client_cache[l].number
      <4>1. CASE Up(k, j) = i
        BY <3>5, <3>9, <4>1
      <4>2. CASE Up(k, j) # i
        <5>1. /\ Up(k, j) \in DOMAIN client_cache
              /\ client_cache'[j].port = client_cache[Up(k, j)].port
              /\ client_cache'[j].number = client_cache[Up(k, j)].number
          BY <3>3, <3>5, <3>9, <4>2
        <5> QED BY <5>1, EchoData
      <4> QED BY <4>1, <4>2
    <3> QED BY <3>2, <3>4, <3>8, <3>9
  <2> QED BY <2>1, <2>2
<1>5. RUTypeOK'
  <2>1. inbox' \in [Clients -> Seq(Datagrams)] /\ net' \subseteq Datagrams
    BY <1>1, Received, EchoData
  <2> QED BY <1>1, <1>4, <2>1 DEF EchoInv, RUTypeOK, CacheRecords
<1>6. AllGenuine' /\ Records' /\ Counting' /\ Distinct'
  BY <1>1, <1>2, <1>3, <1>4, NothingNew
<1>7. Rounds'
  <2>1. CASE fault' # "duplicated"
    BY <1>1, <2>1, RoundsGoOn
  <2>2. CASE fault' = "duplicated"
    BY <2>2 DEF Rounds
  <2> QED BY <2>1, <2>2
<1> QED BY <1>5, <1>6, <1>7 DEF EchoInv

LEMMA AnsweringEcho ==
    ASSUME EchoInv, NEW d \in net, Arrive(d), NEW others \in SUBSET net,
           fault' # "duplicated" => others = net \ {d},
           Answering(d, others)
    PROVE  EchoInv'
<1> DEFINE q == CountedFor(d.from)  i == Index(d.from)
<1>1. /\ Given(d) /\ UNCHANGED <<pc, port, sent, got, reset>> /\ client_cache' = q
      /\ fault' # "duplicated" => fault # "duplicated"
  BY ArriveForms DEF Answering
<1>2. /\ d.kind = "request" /\ d.who \in Clients /\ d.from = port[d.who]
      /\ d.from \in Ports /\ d.from # ServerPort
  BY ForServerIs DEF Answering
<1>3. /\ q \in Seq(CacheRecords) /\ i \in DOMAIN q
      /\ DOMAIN client_cache \subseteq DOMAIN q
      /\ q[i].port = d.from /\ q[i].number \in Nat \ {0}
      /\ IF i \in DOMAIN client_cache
         THEN client_cache[i].port = d.from /\ q[i].number = client_cache[i].number + 1
         ELSE q[i].number = 1
      /\ \A j \in DOMAIN q \ {i} : j \in DOMAIN client_cache /\ q[j] = client_cache[j]
      /\ \A j \in DOMAIN client_cache : client_cache[j].port = d.from => j = i
  BY <1>2, CountedIs
<1>4. d \in Datagrams /\ Genuine(d) /\ d.n \in Nat
  BY EchoData
<1> HIDE DEF q, i
<1>5. PICK m \in Nat \ {0} : m = q[i].number
  BY <1>3
<1>6. PICK a \in Datagrams : a = Answer(d, m)
  BY <1>2, <1>4 DEF Answer, ToSender, Datagrams
<1>7. /\ a.kind = "answer" /\ a.to = d.from /\ a.from = ServerPort /\ a.number = m
      /\ a.who = d.who /\ a.n = d.n
  BY <1>4, <1>6 DEF Answer, ToSender, Datagrams
<1>8. net' = others \cup {a}
  BY <1>5, <1>6 DEF Answering, q, i
<1>9. /\ \A c \in Clients : Come(c)' \subseteq Come(c) \cup {d}
                            /\ \A e \in Come(c)' : e.to = port[c]
      /\ inbox' \in [Clients -> Seq(Datagrams)]
  BY <1>1, Received
<1>10. Around' \subseteq Around \cup {a}
  BY <1>1, <1>8, <1>9 DEF Around
<1>11. RUTypeOK'
  <2>1. net' \subseteq Datagrams
    BY <1>8, EchoData
  <2> QED BY <1>1, <1>3, <1>9, <2>1 DEF EchoInv, RUTypeOK, CacheRecords
<1>12. AllGenuine'
  <2>1. \A e \in Around : Genuine(e)'
    BY <1>1, EchoData DEF Genuine
  <2>2. Genuine(a)'
    BY <1>1, <1>2, <1>4, <1>7 DEF Genuine
  <2>3. \A e \in Around' : Genuine(e)'
    BY <1>10, <2>1, <2>2
  <2>4. \A e, f \in net' :
          e.kind = "request" /\ f.kind = "request" /\ e.who = f.who /\ e.n = f.n => e = f
    BY <1>7, <1>8 DEF EchoInv, AllGenuine
  <2>5. \A c \in Clients : \A e \in Come(c)' : e.to = port'[c]
    BY <1>1, <1>9
  <2> QED BY <2>3, <2>4, <2>5 DEF AllGenuine
<1>13. Records'
  <2>1. \A j \in DOMAIN q : q[j].port \in Ports \cup {0}
    <3> TAKE j \in DOMAIN q
    <3>1. CASE j = i
      BY <1>2, <1>3, <3>1
    <3>2. CASE j # i
      BY <1>3, <3>2, EchoData
    <3> QED BY <3>1, <3>2
  <2>2. \A j, l \in DOMAIN q : q[j].port = q[l].port /\ q[j].port # 0 => j = l
    BY <1>3 DEF EchoInv, Records
  <2> QED BY <1>1, <2>1, <2>2 DEF Records
<1>14. \A p \in Ports : SentFrom(p)' = SentFrom(p)
  BY <1>1 DEF SentFrom
<1>15. \A p \in Ports : Done(p) \subseteq Done(p)' /\ Done(p)' \subseteq SentFrom(p)
  BY <1>7, <1>8, <1>14 DEF Done
<1>16. \A p \in Ports : Cardinality(Done(p)) \in Nat /\ Cardinality(Done(p)') \in Nat
                        /\ Cardinality(Done(p)) <= Cardinality(Done(p)')
                        /\ Cardinality(Done(p)') <= Cardinality(SentFrom(p))
                        /\ Cardinality(SentFrom(p)) \in Nat
                        /\ IsFiniteSet(Done(p)')
  <2> SUFFICES ASSUME NEW p \in Ports
               PROVE  /\ Cardinality(Done(p)) \in Nat /\ Cardinality(Done(p)') \in Nat
                      /\ Cardinality(Done(p)) <= Cardinality(Done(p)')
                      /\ Cardinality(Done(p)') <= Cardinality(SentFrom(p))
                      /\ Cardinality(SentFrom(p)) \in Nat
                      /\ IsFiniteSet(Done(p)')
    OBVIOUS
  <2>1. IsFiniteSet(Done(p)') /\ Cardinality(Done(p)') <= Cardinality(SentFrom(p))
    BY <1>15, DoneCounts, SubsetCounts
  <2> QED BY <1>15, <2>1, DoneCounts, SubsetCounts
<1>17. ASSUME fault' # "duplicated"
       PROVE  m <= Cardinality(Done(d.from)')
  <2> DEFINE x == <<d.who, d.n>>
  <2>1. x \in SentFrom(d.from) /\ x \notin Done(d.from)
    <3>1. x \in SentFrom(d.from)
      BY <1>2, <1>4, SentAre DEF Genuine
    <3> QED BY <1>2, <3>1 DEF Done
  <2>2. x \in Done(d.from)'
    <3>1. \A e \in net' : e.kind = "request" => e \in net /\ e # d
      BY <1>1, <1>7, <1>8, <1>17
    <3>2. \A e \in net' : e.kind = "request" => <<e.who, e.n>> # x
      BY <1>2, <3>1 DEF EchoInv, AllGenuine
    <3>3. x \in SentFrom(d.from)'
      BY <1>2, <1>14, <2>1
    <3> QED BY <3>2, <3>3 DEF Done
  <2>3. Cardinality(Done(d.from) \cup {x}) = Cardinality(Done(d.from)) + 1
    BY <1>2, <2>1, DoneCounts, FS_AddElement
  <2>4. Done(d.from) \cup {x} \subseteq Done(d.from)'
    BY <1>2, <1>15, <2>2
  <2>5. Cardinality(Done(d.from)) + 1 <= Cardinality(Done(d.from)')
    BY <1>2, <1>16, <2>3, <2>4, SubsetCounts
  <2>6. CASE i \notin DOMAIN client_cache
    BY <1>2, <1>3, <1>5, <1>16, <2>5, <2>6
  <2>7. CASE i \in DOMAIN client_cache
    <3>1. client_cache[i].number <= Cardinality(Done(d.from))
      <4>1. d.from # 0
        BY <1>2, PortsAssumption
      <4> QED BY <1>1, <1>3, <1>17, <2>7, <4>1 DEF EchoInv, Counting
    <3> QED BY <1>2, <1>3, <1>5, <1>16, <2>5, <2>7, <3>1, EchoData
  <2> QED BY <2>6, <2>7
<1>18. Counting'
  <2>1. \A p \in Ports : IsFiniteSet(SentFrom(p))'
    BY <1>14, DoneCounts
  <2>2. ASSUME fault' # "duplicated", NEW e \in Around', e.kind = "answer"
        PROVE  e.number \in 1..Cardinality(SentFrom(e.to)')
    <3>1. CASE e \in Around
      BY <1>1, <1>14, <2>2, <3>1, EchoData DEF EchoInv, Counting
    <3>2. CASE e = a
      <4>1. m <= Cardinality(SentFrom(d.from)) /\ Cardinality(SentFrom(d.from)) \in Nat
        BY <1>2, <1>16, <1>17, <2>2
      <4>2. SentFrom(e.to)' = SentFrom(d.from) /\ e.number = m
        BY <1>2, <1>7, <1>14, <3>2
      <4> QED BY <4>1, <4>2
    <3> QED BY <1>10, <2>2, <3>1, <3>2
  <2>3. ASSUME fault' # "duplicated", NEW j \in DOMAIN q, NEW p \in Ports, q[j].port = p
        PROVE  q[j].number <= Cardinality(Done(p)')
    <3>1. CASE j = i
      BY <1>3, <1>5, <1>17, <2>3, <3>1
    <3>2. CASE j # i
      <4>1. j \in DOMAIN client_cache /\ q[j] = client_cache[j]
        BY <1>3, <3>2
      <4>2. p # 0
        BY PortsAssumption
      <4>3. client_cache[j].number <= Cardinality(Done(p)) /\ client_cache[j].number \in Nat
        BY <1>1, <2>3, <4>1, <4>2, EchoData DEF EchoInv, Counting
      <4> QED BY <1>16, <4>1, <4>3
    <3> QED BY <3>1, <3>2
  <2>4. \A j \in DOMAIN q : q[j].port # 0 => q[j].port \in Ports
    BY <1>1, <1>13 DEF Records
  <2> QED BY <1>1, <2>1, <2>2, <2>3, <2>4 DEF Counting
<1>19. Distinct'
  <2> SUFFICES ASSUME ~reset, NEW e \in Around', e.kind = "answer"
               PROVE  /\ \E j \in DOMAIN q : q[j].port = e.to /\ e.number <= q[j].number
                      /\ \A f \in Around' :
                            f.kind = "answer" /\ e.to = f.to /\ e.number = f.number => e = f
    BY <1>1 DEF Distinct
  <2>1. ASSUME NEW f \in Around, f.kind = "answer"
        PROVE  /\ \E j \in DOMAIN q : q[j].port = f.to /\ f.number <= q[j].number
               /\ f.to = a.to => f.number # m
    <3>1. PICK j \in DOMAIN client_cache :
             client_cache[j].port = f.to /\ f.number <= client_cache[j].number
      BY <2>1 DEF EchoInv, Distinct
    <3>2. /\ f.number \in Nat /\ client_cache[j].number \in Nat /\ j \in DOMAIN q
      BY <1>3, EchoData
    <3>3. CASE j = i
      <4>1. q[j].port = f.to /\ q[j].number = client_cache[j].number + 1 /\ q[j].number = m
        BY <1>3, <1>5, <3>1, <3>3
      <4>2. f.number <= q[j].number /\ f.number # m
        BY <3>1, <3>2, <4>1
      <4> QED BY <3>2, <4>1, <4>2
    <3>4. CASE j # i
      <4>1. q[j] = client_cache[j] /\ client_cache[j].port # d.from
        BY <1>3, <3>1, <3>2, <3>4
      <4> QED BY <1>7, <3>1, <3>2, <4>1
    <3> QED BY <3>3, <3>4
  <2> QED BY <1>3, <1>5, <1>7, <1>10, <2>1 DEF EchoInv, Distinct
<1>20. Rounds'
  <2>1. CASE fault' # "duplicated"
    <3>1. net' \subseteq (net \ {d}) \cup {a} /\ d.kind # "answer"
      BY <1>2, <1>8, <2>1
    <3> QED BY <1>1, <1>7, <2>1, <3>1, RoundsGoOn
  <2>2. CASE fault' = "duplicated"
    BY <2>2 DEF Rounds
  <2> QED BY <2>1, <2>2
<1> QED BY <1>11, <1>12, <1>13, <1>18, <1>19, <1>20 DEF EchoInv

LEMMA FailsEcho ==
    ASSUME EchoInv, NEW d \in net, AnswerFails(d)
    PROVE  EchoInv'
<1>1. /\ Given(d) /\ UNCHANGED <<pc, port, sent, got>> /\ net' = net \ {d}
      /\ client_cache' = <<>> /\ reset' /\ fault # "duplicated"
  BY DEF AnswerFails, client
<1>2. /\ \A c \in Clients : Come(c)' \subseteq Come(c) \cup {d}
                            /\ \A e \in Come(c)' : e.to = port[c]
      /\ inbox' \in [Clients -> Seq(Datagrams)]
  BY <1>1, Received
<1>3. Around' \subseteq Around
  BY <1>1, <1>2 DEF Around
<1>4. client_cache' \in Seq(CacheRecords) /\ DOMAIN client_cache' = {}
  <2>1. <<>> \in Seq(CacheRecords) /\ DOMAIN <<>> = {}
    OBVIOUS
  <2> QED BY <1>1, <2>1
<1>5. RUTypeOK'
  BY <1>1, <1>2, <1>4 DEF EchoInv, RUTypeOK, CacheRecords
<1>6. Records'
  BY <1>4 DEF Records
<1>7. AllGenuine' /\ Counting' /\ Distinct'
  BY <1>1, <1>2, <1>3, <1>4, <1>6, NothingNew
<1>8. Rounds'
  BY <1>1, RoundsGoOn
<1> QED BY <1>5, <1>6, <1>7, <1>8 DEF EchoInv

LEMMA InitEcho == RUInit => EchoInv
<1> SUFFICES ASSUME RUInit PROVE EchoInv
  OBVIOUS
<1>1. /\ net = {} /\ client_cache = <<>> /\ DOMAIN client_cache = {}
      /\ \A c \in Clients : /\ inbox[c] = <<>> /\ DOMAIN inbox[c] = {}
                            /\ got[c] = {} /\ sent[c] = 0
  <2>1. DOMAIN <<>> = {}
    OBVIOUS
  <2>2. \A c \in Clients : inbox[c] = <<>> /\ got[c] = {} /\ sent[c] = 0
    BY DEF RUInit
  <2>3. net = {} /\ client_cache = <<>>
    BY DEF RUInit
  <2> QED BY <2>1, <2>2, <2>3
<1>2. Around = {} /\ \A c \in Clients : Come(c) = {}
  BY <1>1 DEF Around, Come
<1>3. RUTypeOK
  <2>1. port \in [Clients -> Ports]
    BY PortsAssumption DEF RUInit
  <2>2. client_cache \in Seq([port : Nat, number : Nat])
    BY <1>1
  <2>3. inbox \in [Clients -> Seq(Datagrams)]
    <3>1. <<>> \in Seq(Datagrams)
      OBVIOUS
    <3> QED BY <3>1 DEF RUInit
  <2> QED BY <2>1, <2>2, <2>3 DEF RUTypeOK, RUInit
<1>4. AllGenuine /\ Records /\ Distinct
  BY <1>1, <1>2 DEF AllGenuine, Records, Distinct
<1>5. Rounds
  BY <1>1 DEF Rounds, OneRound, RUInit
<1>6. Counting
  <2>1. ASSUME NEW p \in Ports PROVE IsFiniteSet(SentFrom(p))
    <3>1. SentFrom(p) = {}
      BY <1>1 DEF SentFrom
    <3> QED BY <3>1, FS_EmptySet
  <2> QED BY <1>1, <1>2, <2>1 DEF Counting
<1> QED BY <1>3, <1>4, <1>5, <1>6 DEF EchoInv

LEMMA StepEcho == EchoInv /\ [RUNext]_RUvars => EchoInv'
<1> SUFFICES ASSUME EchoInv, [RUNext]_RUvars PROVE EchoInv'
  OBVIOUS
<1>1. CASE Lose
  BY <1>1, UnseenEcho DEF Lose, client
<1>2. CASE Restart
  BY <1>2, UnseenEcho DEF Restart, client
<1>3. CASE UNCHANGED RUvars
  BY <1>3, UnseenEcho DEF RUvars, client, hist
<1>4. ASSUME NEW c \in Clients, Client(c) PROVE EchoInv'
  BY <1>4, TypeEcho, TakeEcho, LeaveEcho DEF Client
<1>5. ASSUME NEW c \in Clients, Delivery(c) PROVE EchoInv'
  <2>1. PICK d \in net : Arrive(d)
    BY <1>5 DEF Delivery
  <2> QED BY <2>1, ArriveForms, PassedEcho, AnsweringEcho
<1>6. ASSUME NEW d \in net, AnswerFails(d) PROVE EchoInv'
  BY <1>6, FailsEcho
<1> QED BY <1>1, <1>2, <1>3, <1>4, <1>5, <1>6 DEF RUNext

\* The invariant of RawUdpEcho, for any clients, ports and lines, and with anything that the
\* network may do.
THEOREM EchoInvariance == RUSpec => []EchoInv
  BY InitEcho, StepEcho, PTL DEF RUSpec

\* A client that is alone with its port takes for an answer only the answer to its own last
\* line, as long as the network gives nobody a datagram twice.
THEOREM AnswersAreInStep == RUSpec => []InStep
<1>1. EchoInv => InStep
  <2> SUFFICES ASSUME EchoInv, fault # "duplicated", NEW c \in Clients, ~Shared(c), NEW d \in got[c]
               PROVE  d.who = c /\ d.kind = "answer" /\ (pc[c] = "prompt" => d.n = sent[c])
    BY DEF InStep, EchoInv
  <2>1. d \in Come(c) /\ d \in Around /\ d \in Datagrams /\ Genuine(d) /\ d.who \in Clients
    BY EchoData
  <2>2. d.to = port[c] /\ port[c] # ServerPort
    BY <2>1 DEF EchoInv, AllGenuine, Shared
  <2>3. d.kind = "answer"
    BY <2>1, <2>2, EchoData DEF Genuine
  <2>4. d.who = c
    BY <2>1, <2>2, <2>3 DEF Genuine, Shared
  <2>5. pc[c] = "prompt" => d.n = sent[c]
    BY DEF EchoInv, Rounds, OneRound
  <2> QED BY <2>3, <2>4, <2>5
<1> QED BY EchoInvariance, <1>1, PTL

\* Numbers count lines that were sent, no two lines of a port have one number until something
\* is forgotten, and a port has one record, for any number of clients, lines and answers.
THEOREM NumbersAreCounted == RUSpec => []NumbersCount
<1>1. EchoInv => NumbersCount
  <2> SUFFICES ASSUME EchoInv PROVE NumbersCount
    OBVIOUS
  <2>1. AllAnswers \subseteq Around
    <3>1. /\ net \subseteq Around
          /\ \A c \in Clients : /\ got[c] \subseteq Around
                                /\ \A k \in DOMAIN inbox[c] : inbox[c][k] \in Around
      BY EchoData
    <3>2. {d \in net : d.kind = "answer"} \subseteq Around
      BY <3>1
    <3>3. UNION {got[c] : c \in Clients} \subseteq Around
      BY <3>1
    <3>4. \A c \in Clients : {inbox[c][i] : i \in DOMAIN inbox[c]} \subseteq Around
      BY <3>1
    <3>5. UNION {{inbox[c][i] : i \in DOMAIN inbox[c]} : c \in Clients} \subseteq Around
      BY <3>4, Zenon
    <3> QED BY <3>2, <3>3, <3>5 DEF AllAnswers
  <2>2. fault # "duplicated" => \A d \in AllAnswers :
           d.kind = "answer" => d.number \in 1..Cardinality(SentFrom(d.to))
    BY <2>1 DEF EchoInv, Counting
  <2>3. ~reset => \A d, e \in AllAnswers :
           (d.kind = "answer" /\ e.kind = "answer" /\ d.to = e.to /\ d.number = e.number) => d = e
    BY <2>1 DEF EchoInv, Distinct
  <2>4. \A i, j \in DOMAIN client_cache :
           (client_cache[i].port = client_cache[j].port /\ client_cache[i].port # 0) => i = j
    BY DEF EchoInv, Records
  <2> QED BY <2>2, <2>3, <2>4 DEF NumbersCount
<1> QED BY EchoInvariance, <1>1, PTL
-----------------------------------------------------------------------------
(* The pool of drivers. *)

USE MaxDriversAssumption, TimersAssumption

\* Nothing is on the way between the master and d.
Idle(d) ==
    /\ to_driver[d] = <<>> /\ to_master[d] = <<>>
    /\ "pipe" \notin edges[d] /\ "pipe" \notin batch[d]

\* The question is in the pipe and epoll tells the driver so, exactly once.
Asked(d) ==
    /\ \E m \in Messages : to_driver[d] = <<m>>
    /\ to_master[d] = <<>>
    /\ ("pipe" \in edges[d]) # ("pipe" \in batch[d])

\* The answer is in the pipe.
Answered(d) ==
    /\ to_driver[d] = <<>>
    /\ \E a \in Answers : to_master[d] = <<a>>
    /\ to_master[d] = <<"Available">> => (status[d] = AVAILABLE /\ timer[d] = "off")
    /\ "pipe" \notin edges[d] /\ "pipe" \notin batch[d]

\* Only the driver the master waits for is not idle, unless it will not answer.
PipeInv == \A d \in Drivers :
    IF master = "await" /\ d = asked
    THEN Asked(d) \/ Answered(d) \/ (Idle(d) /\ d \in dead \cup silent)
    ELSE Idle(d)

\* An expired timer is reported exactly once; only a BUSY driver has a timer.
TimerInv == \A d \in Drivers :
    /\ ("timer" \in edges[d] \/ "timer" \in batch[d]) <=> timer[d] = "expired"
    /\ ~("timer" \in edges[d] /\ "timer" \in batch[d])
    /\ timer[d] # "off" => status[d] = BUSY
    /\ status[d] = BUSY => (timer[d] # "off" \/ tv_sec[d] = 0)

\* The master waits for a driver it has created.
AskedInv == master = "await" => asked \in 1..upto

IInv == TypeOK /\ AskedInv /\ PipeInv /\ TimerInv

\* What the library's sequences do, in the only cases that happen.
LEMMA Singletons ==
    ASSUME NEW S, NEW x \in S
    PROVE  /\ Append(<<>>, x) = <<x>> /\ Head(<<x>>) = x /\ Tail(<<x>>) = <<>>
           /\ <<>> \o <<x>> = <<x>> /\ <<x>> \o <<>> = <<x>>
           /\ <<x>> # <<>> /\ <<x>> \in Seq(S)
  OBVIOUS

LEMMA EmptySequence == ASSUME NEW S PROVE <<>> \in Seq(S)
  OBVIOUS

-----------------------------------------------------------------------------
LEMMA InitIInv == Init => IInv
  BY EmptySequence
     DEF Init, IInv, TypeOK, AskedInv, PipeInv, TimerInv, Idle, Drivers, AVAILABLE, BUSY

\* The commands that send nothing.
LEMMA CommandsKeep ==
    ASSUME IInv, CreateDriver \/ Exit \/ Crash
    PROVE  IInv'
<1>1. TypeOK' /\ AskedInv'
  <2>1. CASE CreateDriver
    <3>1. drivers_count' \in 0..MAX_DRIVERS /\ drivers_count' = drivers_count + 1
      BY <2>1 DEF IInv, TypeOK, CreateDriver, TableFull
    <3>. QED
      BY <2>1, <3>1 DEF IInv, TypeOK, AskedInv, CreateDriver, pipes, clock, deaths
  <2>2. CASE Exit \/ Crash
    BY <2>2 DEF IInv, TypeOK, AskedInv, Exit, Crash, pipes, clock, deaths
  <2>. QED
    BY <2>1, <2>2
<1>2. PipeInv'
  BY DEF IInv, TypeOK, PipeInv, Idle, CreateDriver, Exit, Crash, pipes, clock, deaths
<1>3. TimerInv'
  BY DEF IInv, TimerInv, CreateDriver, Exit, Crash, pipes, clock, deaths
<1>. QED
  BY <1>1, <1>2, <1>3 DEF IInv

\* Writing to a driver with which nothing is on the way.
LEMMA WriteAsks ==
    ASSUME TypeOK, NEW d \in Drivers, NEW m \in Messages, Idle(d), Write(d, m),
           UNCHANGED <<to_master, batch>>
    PROVE  /\ Asked(d)'
           /\ to_driver' \in [Drivers -> Seq(Messages)]
           /\ edges' \in [Drivers -> SUBSET {"pipe", "timer"}]
           /\ \A e \in Drivers \ {d} : to_driver'[e] = to_driver[e] /\ edges'[e] = edges[e]
           /\ "timer" \in edges'[d] <=> "timer" \in edges[d]
<1>1. to_driver'[d] = <<m>> /\ edges'[d] = edges[d] \cup {"pipe"}
  BY Singletons DEF TypeOK, Idle, Write
<1>2. Asked(d)'
  BY <1>1 DEF Idle, Asked
<1>3. <<m>> \in Seq(Messages)
  BY Singletons
<1>4. to_driver' = [to_driver EXCEPT ![d] = <<m>>]
  BY <1>1 DEF Write, TypeOK
<1>. QED
  BY <1>1, <1>2, <1>3, <1>4 DEF TypeOK, Write

LEMMA AskKeeps ==
    ASSUME IInv, NEW d \in Drivers, NEW l \in d..drivers_count, NEW m \in Messages,
           Ask(d, l, m)
    PROVE  IInv'
<1>1. Idle(d)
  BY DEF IInv, PipeInv, Ask
<1>2. /\ Asked(d)'
      /\ to_driver' \in [Drivers -> Seq(Messages)]
      /\ edges' \in [Drivers -> SUBSET {"pipe", "timer"}]
      /\ \A e \in Drivers \ {d} : to_driver'[e] = to_driver[e] /\ edges'[e] = edges[e]
      /\ "timer" \in edges'[d] <=> "timer" \in edges[d]
  BY <1>1, WriteAsks DEF IInv, Ask
<1>3. TypeOK' /\ AskedInv'
  BY <1>2 DEF IInv, TypeOK, AskedInv, Ask, clock, deaths, Drivers
<1>4. PipeInv'
  BY <1>2 DEF IInv, PipeInv, Idle, Ask, deaths
<1>5. TimerInv'
  BY <1>2 DEF IInv, TimerInv, Ask, clock
<1>. QED
  BY <1>3, <1>4, <1>5 DEF IInv

LEMMA ReceiveKeeps ==
    ASSUME IInv, Receive
    PROVE  IInv'
<1>1. asked \in Drivers /\ Answered(asked)
  BY DEF IInv, TypeOK, AskedInv, PipeInv, Idle, Asked, Receive, Drivers
<1>2. to_master' = [to_master EXCEPT ![asked] = <<>>]
  BY <1>1, Singletons DEF Answered, Receive
<1>3. to_master' \in [Drivers -> Seq(Answers)]
  BY <1>1, <1>2, EmptySequence DEF IInv, TypeOK
<1>4. CASE asked < upto
  <2>1. asked + 1 \in Drivers /\ asked + 1 # asked /\ asked + 1 \in 0..drivers_count
    BY <1>1, <1>4 DEF IInv, TypeOK, Drivers
  <2>2. Idle(asked + 1)
    BY <2>1 DEF IInv, PipeInv
  <2>. DEFINE d == asked + 1
  <2>3. /\ to_driver'[d] = <<StatusQuery>>
        /\ to_driver' = [to_driver EXCEPT ![d] = <<StatusQuery>>]
        /\ edges' = [edges EXCEPT ![d] = @ \cup {"pipe"}]
    BY <1>4, <2>1, <2>2, Singletons DEF IInv, TypeOK, Idle, Receive, Write
  <2>4. <<StatusQuery>> \in Seq(Messages) /\ StatusQuery \in Messages
    BY Singletons DEF Messages
  <2>5. TypeOK' /\ AskedInv'
    BY <1>3, <1>4, <2>1, <2>3, <2>4 DEF IInv, TypeOK, AskedInv, Receive, clock, deaths
  <2>6. PipeInv'
    <3>0. master' = "await" /\ asked' = d
      BY <1>4, <2>1 DEF IInv, TypeOK, Receive
    <3> SUFFICES ASSUME NEW e \in Drivers
                 PROVE  /\ e = d => Asked(e)'
                        /\ e # d => Idle(e)'
      BY <3>0 DEF PipeInv
    <3>1. CASE e = d
      BY <1>2, <1>4, <2>1, <2>2, <2>3, <2>4, <3>1 DEF IInv, TypeOK, Idle, Asked, Receive
    <3>2. CASE e = asked
      BY <1>1, <1>2, <2>1, <2>3, <3>2 DEF IInv, TypeOK, Answered, Idle, Receive
    <3>3. CASE e # d /\ e # asked
      BY <1>2, <2>1, <2>3, <3>3 DEF IInv, TypeOK, PipeInv, Idle, Receive
    <3>. QED
      BY <2>1, <3>1, <3>2, <3>3
  <2>7. TimerInv'
    BY <2>1, <2>3 DEF IInv, TypeOK, TimerInv, Receive, clock
  <2>. QED
    BY <2>5, <2>6, <2>7 DEF IInv
<1>5. CASE asked = upto
  <2>1. /\ master' = "prompt"
        /\ UNCHANGED <<asked, upto, drivers_count, to_driver, edges, batch, clock, deaths>>
    BY <1>5 DEF IInv, TypeOK, Receive
  <2>2. TypeOK' /\ AskedInv'
    BY <1>3, <2>1 DEF IInv, TypeOK, AskedInv, clock, deaths
  <2>3. PipeInv'
    BY <1>1, <1>2, <2>1 DEF IInv, TypeOK, PipeInv, Answered, Idle
  <2>4. TimerInv'
    BY <2>1 DEF IInv, TimerInv, clock
  <2>. QED
    BY <2>2, <2>3, <2>4 DEF IInv
<1>. QED
  BY <1>4, <1>5 DEF Receive
-----------------------------------------------------------------------------
LEMMA TimerExpiresKeeps ==
    ASSUME IInv, NEW d \in Drivers, TimerExpires(d)
    PROVE  IInv'
<1> USE DEF IInv, TimerExpires, TimerEdge, mvars, pipes, deaths
<1>1. TypeOK' /\ AskedInv'
  BY DEF TypeOK, AskedInv
<1>2. PipeInv'
  BY DEF TypeOK, PipeInv, Idle, Asked, Answered
<1>3. TimerInv'
  BY DEF TypeOK, TimerInv
<1>. QED
  BY <1>1, <1>2, <1>3

LEMMA WakeKeeps ==
    ASSUME IInv, NEW d \in Drivers, Wake(d)
    PROVE  IInv'
<1> USE DEF IInv, Wake, mvars, pipes, clock, deaths
<1>1. TypeOK' /\ AskedInv'
  BY DEF TypeOK, AskedInv
<1>2. PipeInv'
  BY DEF TypeOK, PipeInv, Idle, Asked, Answered
<1>3. TimerInv'
  BY DEF TypeOK, TimerInv
<1>. QED
  BY <1>1, <1>2, <1>3

LEMMA HandleTimerKeeps ==
    ASSUME IInv, NEW d \in Drivers, HandleTimer(d)
    PROVE  IInv'
<1> USE DEF IInv, HandleTimer, mvars, pipes, deaths
<1>1. TypeOK' /\ AskedInv'
  BY DEF TypeOK, AskedInv
<1>2. PipeInv'
  BY DEF TypeOK, PipeInv, Idle, Asked, Answered
<1>3. TimerInv'
  BY DEF TypeOK, TimerInv, AVAILABLE, BUSY
<1>. QED
  BY <1>1, <1>2, <1>3

LEMMA FailsKeeps ==
    ASSUME IInv, NEW d \in Drivers, Fails(d)
    PROVE  IInv'
<1> USE DEF IInv, Fails, mvars, pipes, clock
<1>1. TypeOK' /\ AskedInv'
  BY DEF TypeOK, AskedInv
<1>2. PipeInv'
  BY DEF TypeOK, PipeInv, Idle, Asked, Answered
<1>3. TimerInv'
  BY DEF TypeOK, TimerInv
<1>. QED
  BY <1>1, <1>2, <1>3

\* A message is a status request or a task with one of the timers.
LEMMA MessageForms ==
    ASSUME NEW m \in Messages
    PROVE  /\ m.kind \in {"task", "status"}
           /\ m.kind = "task" => (m.time \in Timers /\ m.time \in Int)
<1>1. CASE m = StatusQuery
  BY <1>1 DEF StatusQuery
<1>2. ASSUME NEW t \in Timers, m = Task(t)
      PROVE  m.kind = "task" /\ m.time = t /\ t \in Int
  BY <1>2 DEF Task
<1>. QED
  BY <1>1, <1>2 DEF Messages

LEMMA HandleMessageKeeps ==
    ASSUME IInv, NEW d \in Drivers, HandleMessage(d)
    PROVE  IInv'
<1>1. master = "await" /\ d = asked /\ Asked(d)
  BY DEF IInv, PipeInv, Idle, Answered, HandleMessage
<1>2. PICK m \in Messages : to_driver[d] = <<m>>
  BY <1>1 DEF Asked
<1>3. /\ Head(to_driver[d]) = m
      /\ to_driver' = [to_driver EXCEPT ![d] = <<>>]
      /\ to_driver' \in [Drivers -> Seq(Messages)]
      /\ Respond(d, m)
  <2>1. Head(to_driver[d]) = m /\ Tail(to_driver[d]) = <<>>
    BY <1>2, Singletons
  <2>2. to_driver' = [to_driver EXCEPT ![d] = Tail(@)] /\ Respond(d, Head(to_driver[d]))
    BY DEF HandleMessage
  <2>3. to_driver \in [Drivers -> Seq(Messages)]
    BY DEF IInv, TypeOK
  <2>. QED
    BY <2>1, <2>2, <2>3, EmptySequence
<1>4. "pipe" \notin edges[d] /\ to_master[d] = <<>>
  BY <1>1 DEF Asked, HandleMessage
<1>5. /\ batch' = [batch EXCEPT ![d] = @ \ {"pipe"}] /\ UNCHANGED edges
      /\ UNCHANGED <<master, drivers_count, asked, upto>>
  BY DEF HandleMessage, mvars
<1>6. m.kind \in {"task", "status"} /\ (m.kind = "task" => m.time \in Timers /\ m.time \in Int)
  BY MessageForms
\* Every driver other than d stays as it is.
<1>7. \A e \in Drivers \ {d} : /\ to_driver'[e] = to_driver[e] /\ edges'[e] = edges[e]
                              /\ batch'[e] = batch[e] /\ to_master'[e] = to_master[e]
                              /\ status'[e] = status[e] /\ timer'[e] = timer[e]
                              /\ tv_sec'[e] = tv_sec[e]
  BY <1>3, <1>5 DEF IInv, TypeOK, HandleMessage, Respond, Refuse, Accept, Report, Tell, clock
\* It is enough to look at d.
<1>8. SUFFICES ASSUME TRUE
      PROVE  /\ to_master' \in [Drivers -> Seq(Answers)]
             /\ status' \in [Drivers -> {AVAILABLE, BUSY}]
             /\ tv_sec' \in [Drivers -> Timers \cup {0}]
             /\ timer' \in [Drivers -> {"off", "armed", "expired"}]
             /\ dead' \subseteq Drivers /\ silent' \subseteq Drivers
             /\ Answered(d)' \/ (Idle(d)' /\ d \in dead' \cup silent')
             /\ timer'[d] = "expired" <=> timer[d] = "expired"
             /\ timer'[d] # "off" => status'[d] = BUSY
             /\ status'[d] = BUSY => (timer'[d] # "off" \/ tv_sec'[d] = 0)
  <2>1. TypeOK' /\ AskedInv'
    BY <1>3, <1>5, <1>8 DEF IInv, TypeOK, AskedInv
  <2>2. PipeInv'
    <3>1. master' = "await" /\ asked' = d
      BY <1>1, <1>5
    <3>2. \A e \in Drivers \ {d} : Idle(e)
      BY <1>1 DEF IInv, PipeInv
    <3>3. \A e \in Drivers \ {d} : Idle(e)'
      BY <1>7, <3>2 DEF Idle
    <3>. QED
      BY <1>8, <3>1, <3>3 DEF PipeInv
  <2>3. TimerInv'
    BY <1>5, <1>7, <1>8 DEF IInv, TypeOK, TimerInv
  <2>. QED
    BY <2>1, <2>2, <2>3 DEF IInv
<1> USE DEF Tell
<1>9. CASE Refuse(d, m)
  <2>1. /\ dead' = dead \cup {d} /\ tv_sec' = [tv_sec EXCEPT ![d] = m.time]
        /\ UNCHANGED <<to_master, status, timer, silent>>
    BY <1>9 DEF Refuse
  <2>2. status[d] = AVAILABLE /\ m.kind = "task"
    BY <1>9 DEF Refuse, StillTask
  <2>. QED
    BY <1>3, <1>4, <1>5, <1>6, <2>1, <2>2 DEF IInv, TypeOK, TimerInv, Idle, AVAILABLE, BUSY
<1>10. CASE Accept(d, m)
  <2>1. status[d] = AVAILABLE /\ m.kind = "task" /\ m.time \in Int /\ m.time >= 0
    BY <1>6, <1>10 DEF Accept, StillTask
  <2>2. AnswersTo(d, m) = <<"ok">>
    BY <1>10, <2>1, Singletons DEF Accept, AnswersTo, AVAILABLE, BUSY
  <2>3. /\ status' = [status EXCEPT ![d] = BUSY] /\ tv_sec' = [tv_sec EXCEPT ![d] = m.time]
        /\ timer' = [timer EXCEPT ![d] = Settime(m.time)] /\ UNCHANGED dead
    BY <1>10 DEF Accept
  <2>4. timer[d] = "off"
    BY <2>1 DEF IInv, TimerInv, AVAILABLE, BUSY
  <2>5. Settime(m.time) \in {"off", "armed"} /\ (Settime(m.time) = "off" => m.time = 0)
    BY <2>1 DEF Settime
  <2>6. CASE Tell(d, m) /\ UNCHANGED silent
    <3>1. /\ to_master' = [to_master EXCEPT ![d] = <<"ok">>]
          /\ to_master' \in [Drivers -> Seq(Answers)]
      BY <1>4, <2>2, <2>6, Singletons DEF IInv, TypeOK, Answers
    <3>2. <<"ok">> # <<"Available">>
      OBVIOUS
    <3>3. Answered(d)'
      BY <1>3, <1>4, <1>5, <3>1, <3>2 DEF IInv, TypeOK, Answered, Answers
    <3>. QED
      BY <1>6, <2>1, <2>3, <2>4, <2>5, <2>6, <3>1, <3>3 DEF IInv, TypeOK
  <2>7. CASE silent' = silent \cup {d} /\ UNCHANGED to_master
    <3>1. Idle(d)'
      BY <1>3, <1>4, <1>5, <2>7 DEF IInv, TypeOK, Idle
    <3>. QED
      BY <1>6, <2>1, <2>3, <2>4, <2>5, <2>7, <3>1 DEF IInv, TypeOK
  <2>. QED
    BY <1>10, <2>6, <2>7 DEF Accept
<1>11. CASE Report(d, m)
  <2>1. StatusAnswer(d) \in Answers /\ AnswersTo(d, m) = <<StatusAnswer(d)>>
    BY <1>6, <1>11, Singletons
       DEF IInv, TypeOK, Report, AnswersTo, StatusAnswer, Answers, StillTask
  <2>2. UNCHANGED <<status, tv_sec, timer, silent>>
    BY <1>11 DEF Report, clock
  <2>3. CASE Tell(d, m) /\ UNCHANGED dead
    <3>1. /\ to_master' = [to_master EXCEPT ![d] = <<StatusAnswer(d)>>]
          /\ to_master' \in [Drivers -> Seq(Answers)]
      BY <1>4, <2>1, <2>3, Singletons DEF IInv, TypeOK
    <3>2. <<StatusAnswer(d)>> = <<"Available">> => (status[d] = AVAILABLE /\ timer[d] = "off")
      BY DEF StatusAnswer, IInv, TimerInv, AVAILABLE, BUSY
    <3>3. Answered(d)'
      BY <1>3, <1>4, <1>5, <2>1, <2>2, <3>1, <3>2 DEF IInv, TypeOK, Answered
    <3>. QED
      BY <2>2, <2>3, <3>1, <3>3 DEF IInv, TypeOK, TimerInv
  <2>4. CASE dead' = dead \cup {d} /\ UNCHANGED to_master
    <3>1. Idle(d)'
      BY <1>3, <1>4, <1>5, <2>4 DEF IInv, TypeOK, Idle
    <3>. QED
      BY <2>2, <2>4, <3>1 DEF IInv, TypeOK, TimerInv
  <2>. QED
    BY <1>11, <2>3, <2>4 DEF Report
<1>. QED
  BY <1>3, <1>9, <1>10, <1>11 DEF Respond
-----------------------------------------------------------------------------
LEMMA NextKeeps == IInv /\ [Next]_vars => IInv'
<1> SUFFICES ASSUME IInv, [Next]_vars PROVE IInv'
  OBVIOUS
<1>1. Created \subseteq Drivers /\ drivers_count \in Nat
  BY DEF IInv, TypeOK, Created, Drivers
<1>2. CASE CreateDriver \/ Exit \/ Crash
  BY <1>2, CommandsKeep
<1>3. CASE GetDrivers
  <2>1. 1 \in Drivers /\ drivers_count \in 1..drivers_count /\ StatusQuery \in Messages
    BY <1>1, <1>3 DEF GetDrivers, Created, Messages
  <2>. QED
    BY <1>3, <2>1, AskKeeps DEF GetDrivers
<1>4. ASSUME NEW d \in Created, GetStatus(d) PROVE IInv'
  <2>1. d \in Drivers /\ d \in d..drivers_count /\ StatusQuery \in Messages
    BY <1>1, <1>4 DEF Created, Messages
  <2>. QED
    BY <1>4, <2>1, AskKeeps DEF GetStatus
<1>5. ASSUME NEW d \in Created, NEW t \in Timers, SendTask(d, t) PROVE IInv'
  <2>1. d \in Drivers /\ d \in d..drivers_count /\ Task(t) \in Messages
    BY <1>1, <1>5 DEF Created, Messages
  <2>. QED
    BY <1>5, <2>1, AskKeeps DEF SendTask
<1>6. CASE Receive
  BY <1>6, ReceiveKeeps
<1>7. ASSUME NEW d \in Created, DriverStep(d) \/ TimerExpires(d) \/ Fails(d) PROVE IInv'
  BY <1>1, <1>7, WakeKeeps, HandleMessageKeeps, HandleTimerKeeps, TimerExpiresKeeps, FailsKeeps
     DEF DriverStep
<1>8. CASE UNCHANGED vars
  BY <1>8 DEF vars, mvars, pipes, clock, deaths, IInv, TypeOK, AskedInv, PipeInv, TimerInv, Idle,
              Asked, Answered
<1>. QED
  BY <1>2, <1>3, <1>4, <1>5, <1>6, <1>7, <1>8 DEF Next, Command

LEMMA Invariance == Spec => []IInv
  BY InitIInv, NextKeeps, PTL DEF Spec

(* The types of the master, the pipes and the drivers. *)
THEOREM TypeCorrect == Spec => []TypeOK
<1>1. IInv => TypeOK
  BY DEF IInv
<1>. QED
  BY Invariance, <1>1, PTL

(* driver_routine() never blocks in a read() it was sent to by epoll. *)
THEOREM DriversDoNotBlock == Spec => []ReadsNeverBlock
<1>1. IInv => ReadsNeverBlock
  <2> SUFFICES ASSUME IInv, NEW d \in Created \ dead
               PROVE  /\ "pipe" \in batch[d] => to_driver[d] # <<>>
                      /\ "timer" \in batch[d] => timer[d] = "expired"
    BY DEF ReadsNeverBlock
  <2>1. d \in Drivers
    BY DEF IInv, TypeOK, Created, Drivers
  <2>2. "pipe" \in batch[d] => \E m \in Messages : to_driver[d] = <<m>>
    BY <2>1 DEF IInv, PipeInv, Idle, Asked, Answered
  <2>3. \A m \in Messages : <<m>> # <<>>
    BY Singletons
  <2>. QED
    BY <2>1, <2>2, <2>3 DEF IInv, TimerInv
<1>. QED
  BY Invariance, <1>1, PTL

(* Edge-triggered epoll loses no message and no expiry. *)
THEOREM NoWakeupIsLost == Spec => []NoLostWakeup
<1>1. IInv => NoLostWakeup
  <2> SUFFICES ASSUME IInv, NEW d \in Created \ dead
               PROVE  /\ to_driver[d] # <<>> => "pipe" \in edges[d] \cup batch[d]
                      /\ timer[d] = "expired" => "timer" \in edges[d] \cup batch[d]
    BY DEF NoLostWakeup
  <2>1. d \in Drivers
    BY DEF IInv, TypeOK, Created, Drivers
  <2>. QED
    BY <2>1 DEF IInv, PipeInv, TimerInv, Idle, Asked, Answered
<1>. QED
  BY Invariance, <1>1, PTL

(* Questions and answers never get out of step. *)
THEOREM PromptIsQuiet == Spec => []QuietAtPrompt
<1>1. IInv => QuietAtPrompt
  BY DEF IInv, PipeInv, Idle, QuietAtPrompt
<1>. QED
  BY Invariance, <1>1, PTL

(* A driver reported available is still available when the report is read. *)
THEOREM AvailableIsReliable == Spec => []AvailableStaysTrue
<1>1. IInv => AvailableStaysTrue
  <2> SUFFICES ASSUME IInv, NEW d \in Drivers, to_master[d] = <<"Available">>
               PROVE  status[d] = AVAILABLE /\ timer[d] = "off"
    BY DEF AvailableStaysTrue
  <2>1. to_master[d] # <<>>
    BY Singletons
  <2>. QED
    BY <2>1 DEF IInv, PipeInv, Idle, Asked, Answered
<1>. QED
  BY Invariance, <1>1, PTL

(* A BUSY driver always has a timer to end its task, unless that was of zero seconds. *)
THEOREM BusyIsTimed == Spec => []BusyHasTimer
<1>1. IInv => BusyHasTimer
  BY DEF IInv, TimerInv, BusyHasTimer
<1>. QED
  BY Invariance, <1>1, PTL

(* Nothing replaces or ends a task that was accepted, before its timer expired. *)
THEOREM TasksRunTheirTime == Spec => TaskRunsItsTime
<1>. DEFINE Kept == \A d \in Drivers : status[d] = BUSY =>
                       /\ tv_sec'[d] = tv_sec[d]
                       /\ status'[d] = AVAILABLE => timer[d] = "expired"
<1>1. IInv /\ [Next]_vars => [Kept]_vars
  <2> SUFFICES ASSUME IInv, [Next]_vars, NEW d \in Drivers, status[d] = BUSY
               PROVE  /\ tv_sec'[d] = tv_sec[d]
                      /\ status'[d] = AVAILABLE => timer[d] = "expired"
    OBVIOUS
  <2>1. CASE UNCHANGED <<status, tv_sec>>
    BY <2>1 DEF AVAILABLE, BUSY
  <2>2. ASSUME NEW e \in Drivers, HandleMessage(e)
        PROVE  /\ tv_sec'[d] = tv_sec[d]
               /\ status'[d] = AVAILABLE => timer[d] = "expired"
    <3>1. CASE e = d
      BY <2>2, <3>1 DEF HandleMessage, Respond, Refuse, Accept, Report, StillTask, clock,
                        AVAILABLE, BUSY
    <3>2. CASE e # d
      BY <2>2, <3>2 DEF IInv, TypeOK, HandleMessage, Respond, Refuse, Accept, Report, clock,
                        AVAILABLE, BUSY
    <3>. QED
      BY <3>1, <3>2
  <2>3. ASSUME NEW e \in Drivers, HandleTimer(e)
        PROVE  /\ tv_sec'[d] = tv_sec[d]
               /\ status'[d] = AVAILABLE => timer[d] = "expired"
    BY <2>3 DEF IInv, TypeOK, HandleTimer, AVAILABLE, BUSY
  <2>4. Created \subseteq Drivers
    BY DEF IInv, TypeOK, Created, Drivers
  <2>. QED
    BY <2>1, <2>2, <2>3, <2>4
       DEF Next, Command, CreateDriver, Exit, Crash, GetDrivers, GetStatus, SendTask, Ask,
           Receive, DriverStep, Wake, TimerExpires, Fails, clock, vars
<1>. QED
  BY Invariance, <1>1, PTL DEF Spec, TaskRunsItsTime

(* Events, messages and expiries of every driver correspond. *)
THEOREM EventsAreExact == Spec => []EpollIsExact
  BY TypeCorrect, DriversDoNotBlock, NoWakeupIsLost, PTL DEF EpollIsExact
=============================================================================
