-------------------------- MODULE ForkServerProofs --------------------------
(***************************************************************************)
(* Proofs about ForkServer, for any number of children and of file names:  *)
(* a connection is open in its own child only, the counters count what     *)
(* they can count, and no upload is written into another one.              *)
(*                                                                         *)
(* The three properties have little to do with each other but that all     *)
(* follow from what a fork gives to the child.  So the invariant is about  *)
(* the arrival that each child has: it is different from those of all      *)
(* others, and while the parent is between accept() and fork() the newest  *)
(* one belongs to nobody.                                                  *)
(***************************************************************************)
EXTENDS ForkServer, FiniteSetTheorems, TLAPS

\* What the parent does, and what a child does that serves a connection.
ServerStates ==
    {"accept", "count", "counting", "print", "printing", "fork", "close", "zombie"}
Serving ==
    {"start", "math", "leave", "leaving", "last", "lastPrint", "open", "receive", "exit"}

\* No child is in main(), and the parent never in dostuff().
Places ==
    /\ pc[server] \in ServerStates
    /\ \A p \in Pids : pc[p] \in Serving \cup {"none", "zombie"}

\* The semaphore is taken when a process is between sem_wait() and sem_post(), which is one
\* at most.
SemTaken ==
    /\ \A p \in Procs : HasSem(p) => sem = 0
    /\ \A p, q \in Procs : HasSem(p) /\ HasSem(q) => p = q

\* The arrivals of children: those that were accepted, each given once, but for the one that
\* the parent has not forked for.
Arrivals ==
    /\ \A p \in Pids : pc[p] # "none" => arrival[p] > 0
    /\ \A p \in Pids : arrival[p] <= arrived
    /\ \A p, q \in Pids : p # q /\ pc[p] # "none" /\ pc[q] # "none" => arrival[p] # arrival[q]
    /\ pc[server] \in {"count", "counting", "print", "printing", "fork"} =>
          \A p \in Pids : arrival[p] < arrived

\* The connections that a process has open: the newest one in the parent, its own in a child.
Sockets ==
    /\ sockets[server] \subseteq {arrived}
    /\ pc[server] = "accept" => sockets[server] = {}
    /\ pc[server] \notin {"accept", "zombie"} => arrived > 0
    /\ \A p \in Pids : sockets[p] \subseteq {arrival[p]}
    /\ \A p \in Pids : pc[p] = "none" => sockets[p] = {} /\ upload[p] = {}
    /\ \A p \in listening \ {server} : pc[p] = "start"

\* The counter of each process.
Counters ==
    /\ pc[server] \in {"count", "counting"} => nclients[server] = arrived - 1
    /\ pc[server] \in {"accept", "print", "printing", "fork", "close"} =>
          nclients[server] = arrived
    /\ \A p \in Pids :
          /\ pc[p] \in {"start", "math", "leave", "leaving", "open", "receive"} =>
                nclients[p] = arrival[p]
          /\ pc[p] \in {"last", "lastPrint"} => nclients[p] = arrival[p] - 1

\* A file that was written has the pid of the child that wrote it and was not there before.
Uploads ==
    /\ old \subseteq files
    /\ \A p \in Pids : \A f \in upload[p] : f \in files \ old /\ f[1] = p
    /\ \A f \in Files : f \in old => written[f] = {}
    /\ \A f \in Files : written[f] \subseteq {arrival[f[1]]}
    /\ \A f \in Files : pc[f[1]] = "none" => written[f] = {}

IInv ==
    /\ TypeOK
    /\ Places
    /\ SemTaken
    /\ Arrivals
    /\ Sockets
    /\ Counters
    /\ Uploads
-----------------------------------------------------------------------------
\* The semaphore is asked for in four places and held in the four that follow.
LEMMA WantedIs ==
    /\ DOMAIN Wanted = {"count", "print", "leave", "last"}
    /\ Wanted["count"] = "counting" /\ Wanted["print"] = "printing"
    /\ Wanted["leave"] = "leaving" /\ Wanted["last"] = "lastPrint"
  BY DEF Wanted

LEMMA HasSemIs ==
    ASSUME NEW p
    PROVE  HasSem(p) <=> pc[p] \in {"counting", "printing", "leaving", "lastPrint"}
  BY WantedIs DEF HasSem

LEMMA HasSemNext ==
    ASSUME NEW p
    PROVE  HasSem(p)' <=> pc'[p] \in {"counting", "printing", "leaving", "lastPrint"}
  BY WantedIs DEF HasSem, Wanted

\* Nothing is accepted, nobody forked and nothing uploaded yet.
LEMMA InitInv == Init => IInv
<1> SUFFICES ASSUME Init PROVE IInv
  OBVIOUS
<1> USE PidsAssumption DEF Init, Procs
<1>1. TypeOK
  BY DEF TypeOK, Files
<1>2. Places
  BY DEF Places, ServerStates
<1>3. SemTaken
  BY HasSemIs DEF SemTaken
<1>4. Arrivals /\ Sockets /\ Counters
  BY DEF Arrivals, Sockets, Counters
<1>5. Uploads
  BY DEF Uploads, Files
<1> QED BY <1>1, <1>2, <1>3, <1>4, <1>5 DEF IInv

\* Every step keeps the invariant.
LEMMA StepInv == IInv /\ [Next]_vars => IInv'
<1> SUFFICES ASSUME IInv, [Next]_vars PROVE IInv'
  OBVIOUS
<1> USE PidsAssumption DEF IInv, TypeOK, Procs, Files, Places, ServerStates, Serving
<1>1. ASSUME NEW p \in Procs, SemWait(p) PROVE IInv'
  <2> USE <1>1 DEF SemWait, Available, Goto
  <2>1. TypeOK'
    BY HasSemIs, WantedIs DEF SemTaken
  <2>2. SemTaken'
    BY HasSemIs, HasSemNext, WantedIs DEF SemTaken
  <2>3. Places' /\ Arrivals' /\ Sockets' /\ Counters' /\ Uploads'
    BY WantedIs DEF Arrivals, Sockets, Counters, Uploads
  <2> QED BY <2>1, <2>2, <2>3
<1>2. ASSUME Count PROVE IInv'
  <2> USE <1>2 DEF Count, Post, Posted, Goto
  <2>1. TypeOK'
    BY HasSemIs DEF SemTaken
  <2>2. SemTaken'
    BY HasSemIs, HasSemNext DEF SemTaken
  <2>3. Counters'
    BY DEF Counters, Arrivals
  <2>4. Places' /\ Arrivals' /\ Sockets' /\ Uploads'
    BY DEF Arrivals, Sockets, Uploads
  <2> QED BY <2>1, <2>2, <2>3, <2>4
<1>3. ASSUME PrintUsers PROVE IInv'
  <2> USE <1>3 DEF PrintUsers, Post, Posted, Goto
  <2>1. TypeOK'
    BY HasSemIs DEF SemTaken
  <2>2. SemTaken'
    BY HasSemIs, HasSemNext DEF SemTaken
  <2>3. Places' /\ Arrivals' /\ Sockets' /\ Counters' /\ Uploads'
    BY DEF Arrivals, Sockets, Counters, Uploads
  <2> QED BY <2>1, <2>2, <2>3
\* From now on the newest arrival belongs to nobody.
<1>4. ASSUME Accept PROVE IInv'
  <2> USE <1>4 DEF Accept, Goto
  <2>1. TypeOK'
    OBVIOUS
  <2>2. Arrivals'
    BY DEF Arrivals
  <2>3. Sockets'
    BY DEF Sockets, Arrivals
  <2>4. Counters'
    BY DEF Counters, Arrivals
  <2>5. Places' /\ SemTaken' /\ Uploads'
    BY HasSemIs, HasSemNext DEF SemTaken, Uploads, Arrivals, Sockets
  <2> QED BY <2>1, <2>2, <2>3, <2>4, <2>5
\* The child gets the newest arrival, the only connection that the parent has.
<1>5. ASSUME Fork PROVE IInv'
  <2> USE <1>5 DEF Fork, Unused
  <2>1. TypeOK'
    BY DEF Sockets
  <2>2. Arrivals'
    BY DEF Arrivals
  <2>3. Sockets'
    BY DEF Sockets, Arrivals
  <2>4. Counters'
    BY DEF Counters, Arrivals
  <2>5. Uploads'
    BY DEF Uploads, Arrivals, Sockets
  <2>6. Places' /\ SemTaken'
    BY HasSemIs, HasSemNext DEF SemTaken
  <2> QED BY <2>1, <2>2, <2>3, <2>4, <2>5, <2>6
<1>6. ASSUME CloseConnection PROVE IInv'
  <2> USE <1>6 DEF CloseConnection, Closed, Goto
  <2>1. TypeOK'
    OBVIOUS
  <2>2. Sockets'
    BY DEF Sockets, Arrivals
  <2>3. Places' /\ SemTaken' /\ Arrivals' /\ Counters' /\ Uploads'
    BY HasSemIs, HasSemNext DEF SemTaken, Arrivals, Counters, Uploads, Sockets
  <2> QED BY <2>1, <2>2, <2>3
<1>7. ASSUME NEW p \in Pids, Start(p) PROVE IInv'
  <2> USE <1>7 DEF Start, Goto
  <2>1. TypeOK'
    OBVIOUS
  <2>2. Sockets'
    BY DEF Sockets, Arrivals
  <2>3. Places' /\ SemTaken' /\ Arrivals' /\ Counters' /\ Uploads'
    BY HasSemIs, HasSemNext DEF SemTaken, Arrivals, Counters, Uploads, Sockets
  <2> QED BY <2>1, <2>2, <2>3
<1>8. ASSUME NEW p \in Pids, Math(p) PROVE IInv'
  <2> USE <1>8 DEF Math, Closed, Goto
  <2>1. TypeOK'
    OBVIOUS
  <2>2. Sockets'
    BY DEF Sockets, Arrivals
  <2>3. Places' /\ SemTaken' /\ Arrivals' /\ Counters' /\ Uploads'
    BY HasSemIs, HasSemNext DEF SemTaken, Arrivals, Counters, Uploads, Sockets
  <2> QED BY <2>1, <2>2, <2>3
\* A child counts itself out of its own copy, which is its place among the arrivals.
<1>9. ASSUME NEW p \in Pids, Leave(p) PROVE IInv'
  <2> USE <1>9 DEF Leave, Post, Posted, Goto
  <2>1. TypeOK'
    BY HasSemIs DEF SemTaken, Counters, Arrivals
  <2>2. SemTaken'
    BY HasSemIs, HasSemNext DEF SemTaken
  <2>3. Counters'
    BY DEF Counters, Arrivals
  <2>4. Places' /\ Arrivals' /\ Sockets' /\ Uploads'
    BY DEF Arrivals, Sockets, Uploads
  <2> QED BY <2>1, <2>2, <2>3, <2>4
<1>10. ASSUME NEW p \in Pids, LastPrint(p) PROVE IInv'
  <2> USE <1>10 DEF LastPrint, Post, Posted, Goto
  <2>1. TypeOK'
    BY HasSemIs DEF SemTaken
  <2>2. SemTaken'
    BY HasSemIs, HasSemNext DEF SemTaken
  <2>3. Places' /\ Arrivals' /\ Sockets' /\ Counters' /\ Uploads'
    BY DEF Arrivals, Sockets, Counters, Uploads
  <2> QED BY <2>1, <2>2, <2>3
\* A new file is in no other upload, as it has the pid of its child, and is not an old one.
<1>11. ASSUME NEW p \in Pids, OpenFile(p) PROVE IInv'
  <2> USE <1>11 DEF OpenFile, Creatable, Goto
  <2>1. TypeOK'
    <3>1. CASE Goto(p, "exit") /\ UNCHANGED <<files, upload>>
      BY <3>1
    <3>2. ASSUME NEW n \in Names, Creatable(<<p, n>>), files' = files \cup {<<p, n>>},
                 upload' = [upload EXCEPT ![p] = {<<p, n>>}], Goto(p, "receive")
          PROVE  TypeOK'
      <4>1. <<p, n>> \in Files /\ <<p, n>>[1] = p
        OBVIOUS
      <4>2. files' \subseteq Files /\ upload' \in [Procs -> SUBSET Files]
        BY <3>2, <4>1
      <4> QED BY <3>2, <4>2
    <3> QED BY <3>1, <3>2
  <2>2. SemTaken'
    <3>1. \A q \in Procs : HasSem(q)' <=> HasSem(q)
      BY HasSemIs, HasSemNext
    <3> QED BY <3>1 DEF SemTaken
  <2>3. Sockets'
    <3>1. CASE Goto(p, "exit") /\ UNCHANGED <<files, upload>>
      BY <3>1 DEF Sockets, Arrivals
    <3>2. CASE \E n \in Names : upload' = [upload EXCEPT ![p] = {<<p, n>>}] /\ Goto(p, "receive")
      BY <3>2 DEF Sockets, Arrivals
    <3> QED BY <3>1, <3>2
  <2>4. Counters'
    BY DEF Counters, Arrivals
  <2>5. Uploads'
    <3>1. CASE Goto(p, "exit") /\ UNCHANGED <<files, upload>>
      BY <3>1 DEF Uploads, Arrivals, Sockets
    <3>2. ASSUME NEW n \in Names, Creatable(<<p, n>>), files' = files \cup {<<p, n>>},
                 upload' = [upload EXCEPT ![p] = {<<p, n>>}], Goto(p, "receive")
          PROVE  Uploads'
      <4>1. <<p, n>> \in Files /\ <<p, n>>[1] = p
        OBVIOUS
      <4>2. \A q \in Pids : \A f \in upload'[q] : f \in files' \ old /\ f[1] = q
        BY <3>2, <4>1 DEF Uploads
      <4> QED BY <3>2, <4>2 DEF Uploads, Arrivals
    <3> QED BY <3>1, <3>2
  <2>6. pc' \in {[pc EXCEPT ![p] = "exit"], [pc EXCEPT ![p] = "receive"]}
    OBVIOUS
  <2>7. Places'
    BY <2>6
  <2>8. Arrivals'
    BY <2>6 DEF Arrivals
  <2> QED BY <2>1, <2>2, <2>3, <2>4, <2>5, <2>7, <2>8
<1>12. ASSUME NEW p \in Pids, Receive(p) PROVE IInv'
  <2> USE <1>12 DEF Receive, Goto
  <2>1. TypeOK'
    OBVIOUS
  <2>2. Uploads'
    BY DEF Uploads, Arrivals, Sockets
  <2>3. Places' /\ SemTaken' /\ Arrivals' /\ Sockets' /\ Counters'
    BY HasSemIs, HasSemNext DEF SemTaken, Arrivals, Sockets, Counters
  <2> QED BY <2>1, <2>2, <2>3
<1>13. ASSUME NEW p \in Pids, Exit(p) PROVE IInv'
  <2> USE <1>13 DEF Exit, Gone, Goto
  <2>1. TypeOK'
    OBVIOUS
  <2>2. Sockets'
    BY DEF Sockets, Arrivals
  <2>3. Uploads'
    BY DEF Uploads, Arrivals, Sockets
  <2>4. Places' /\ SemTaken' /\ Arrivals' /\ Counters'
    BY HasSemIs, HasSemNext DEF SemTaken, Arrivals, Counters
  <2> QED BY <2>1, <2>2, <2>3, <2>4
<1>14. ASSUME NEW p \in Procs, Kill(p) PROVE IInv'
  <2> USE <1>14 DEF Kill, Gone, Goto
  <2>1. TypeOK'
    OBVIOUS
  <2>2. SemTaken'
    BY HasSemIs, HasSemNext DEF SemTaken
  <2>3. Sockets'
    BY DEF Sockets, Arrivals
  <2>4. Uploads'
    BY DEF Uploads, Arrivals, Sockets
  <2>5. Places' /\ Arrivals' /\ Counters'
    BY DEF Arrivals, Counters
  <2> QED BY <2>1, <2>2, <2>3, <2>4, <2>5
<1>15. CASE UNCHANGED vars
  BY <1>15, HasSemIs, HasSemNext DEF vars, SemTaken, Arrivals, Sockets, Counters, Uploads
<1> QED BY <1>1, <1>2, <1>3, <1>4, <1>5, <1>6, <1>7, <1>8, <1>9, <1>10, <1>11, <1>12, <1>13,
   <1>14, <1>15 DEF Next, Server, Child

\* The invariant holds in every state.
THEOREM Invariant == Spec => []IInv
<1> QED BY InitInv, StepInv, PTL DEF Spec

\* A connection is open in its own child and, before the parent is back in accept(), in the
\* parent, and nobody but a child that has not begun has the listening socket besides it.
THEOREM ConnectionsAreApart == Spec => []OnlyItsChild
<1>1. IInv => OnlyItsChild
  <2> SUFFICES ASSUME IInv PROVE OnlyItsChild
    OBVIOUS
  <2> USE DEF IInv, Sockets
  <2>1. ASSUME NEW p \in Pids, NEW q \in Pids, p # q PROVE sockets[p] \cap sockets[q] = {}
    BY <2>1 DEF Arrivals
  <2> QED BY <2>1 DEF OnlyItsChild
<1> QED BY <1>1, Invariant, PTL

\* The parent's counter is the number of arrivals, a child's its place among them, and the
\* semaphore keeps the processes apart at their counters.
THEOREM CountersAreArrivals == Spec => []CountsArrivals
<1>1. IInv => CountsArrivals
  BY DEF IInv, CountsArrivals, Counters, SemTaken
<1> QED BY <1>1, Invariant, PTL

\* O_EXCL and the pid in its name keep a file for the one connection that it was opened for:
\* as long as the parent does not wait for its children, no pid is given twice.
THEOREM UploadsAreApart == Spec => []UploadsKept
<1>1. IInv => UploadsKept
  <2> SUFFICES ASSUME IInv, NEW f \in Files
               PROVE  (f \in old => written[f] = {}) /\ Cardinality(written[f]) <= 1
    BY DEF UploadsKept
  <2>1. written[f] \in SUBSET {arrival[f[1]]}
    BY DEF IInv, Uploads
  <2>2. IsFiniteSet({arrival[f[1]]}) /\ Cardinality({arrival[f[1]]}) = 1
    BY FS_Singleton
  <2>3. Cardinality(written[f]) <= 1
    BY <2>1, <2>2, FS_Subset
  <2> QED BY <2>3 DEF IInv, Uploads
<1> QED BY <1>1, Invariant, PTL
=============================================================================
