--------------------------- MODULE PhoneBookProofs ---------------------------
(***************************************************************************)
(* Proofs about PhoneBook, for any number of contacts, names and texts:    *)
(* the list is sound through every insertion and removal, the menus open   *)
(* the contact that was asked for, and what is saved is what is loaded.    *)
(*                                                                         *)
(* The list is a ring of pointers, so what holds of a place in it cannot   *)
(* be said by induction along the pointers.  The places of the contacts    *)
(* stand for that: next leads from each place to the one after it, and no  *)
(* place is taken twice.  What a loop has done so far is then a statement  *)
(* about the places before the one that it has reached.                    *)
(***************************************************************************)
EXTENDS PhoneBook, FiniteSetTheorems, TLAPS

\* Whoever is in the list, or about to be, has a name.
Inserting == pc \in {"insert", "insertLoop"}
Named ==
    /\ \A c \in Members : lastname[c] \in LastNames
    /\ Inserting => lastname[chosen] \in LastNames

\* list_insert() has found that the contact comes after those before cur.
Compared ==
    pc = "insertLoop" =>
        /\ head # Null /\ ~Before(chosen, head)
        /\ ~renamed => \A c \in Members :
               place[c] < place[cur] => lastname[c] <= lastname[chosen]

\* The loop of list_remove_value() has not gone past the contact that it looks for.
NotPassed == pc = "remove" /\ chosen \in Members => place[cur] <= place[chosen]

\* How far a walk has come: left counts what the contacts before cur have left of the number.
Passed(c) == c \in Members /\ (cur # Null => place[c] < place[cur])
Counted == {c \in Members : Passed(c) /\ Matches(c, asked.text)}
Walked ==
    pc = "walk" =>
        /\ cur \in Members \cup {Null}
        /\ asked.number > 0
        /\ Cardinality(Counted) + left = asked.number
        /\ left = 0 =>
              /\ chosen \in Members /\ Matches(chosen, asked.text)
              /\ \A c \in Members : Passed(c) <=> place[c] <= place[chosen]

\* No contact is in the file twice, however much of it was written.
FileOnce == \A k, l \in 1..Len(file) : file[k].who = file[l].who => k = l

\* dump_data() has written the contacts before cur, each at its place.
Dumping ==
    pc = "dump" =>
        /\ cur \in Members \cup {Null}
        /\ Len(file) = IF cur = Null THEN LastPlace ELSE place[cur] - 1
        /\ \A k \in 1..Len(file) :
              file[k].who \in Members /\ place[file[k].who] = k /\ file[k] = Entry(file[k].who)

\* load_data() has added the contacts that it has read, but for the one that it is adding.
Loading ==
    /\ pc = "down" => Members = {}
    /\ at <= Len(file)
    /\ IF loading THEN pc = "load" \/ Inserting ELSE at = 0
    /\ pc = "load" => Members = {file[k].who : k \in 1..at}
    /\ Inserting /\ loading =>
          /\ at > 0 /\ chosen = file[at].who
          /\ Members = {file[k].who : k \in 1..(at - 1)}
    /\ pc = "load" \/ loading => \A k \in 1..at : lastname[file[k].who] = file[k].name

\* What the properties and the steps need to be told of the list.
Finite == IsFiniteSet(Members)
InOrder == ~renamed => Sorted

IInv ==
    /\ TypeOK
    /\ Finite /\ Ring
    /\ NothingFreed
    /\ SizeExact
    /\ Named
    /\ Compared
    /\ NotPassed
    /\ InOrder
    /\ Walked
    /\ OpensTheOneAsked
    /\ FileOnce
    /\ Dumping
    /\ Loading
-----------------------------------------------------------------------------
(* The list. *)

\* The places go from 1 to the last one, which is that of the node before head, and only its
\* next is head.
LEMMA Places ==
    ASSUME TypeOK, Ring
    PROVE  /\ LastPlace \in Nat
           /\ head # Null =>
                 head \in Members /\ prev[head] \in Members /\ LastPlace = place[prev[head]]
           /\ LastPlace = 0 <=> Members = {}
           /\ \A c \in Members : place[c] \in 1..LastPlace /\ place[head] = 1 /\ head # Null
           /\ \A c \in Members : next[c] = head <=> place[c] = LastPlace
           /\ \A c \in Members : next[c] # c \/ (c = head /\ Members = {c})
<1> USE NullAssumption DEF Members, Ring, LastPlace
<1>1. LastPlace \in Nat
  BY DEF TypeOK, Pointers
<1>2. head # Null => head \in Members /\ prev[head] \in Members /\ LastPlace = place[prev[head]]
  OBVIOUS
<1>3. LastPlace = 0 <=> Members = {}
  BY <1>2
<1>4. \A c \in Members : place[c] \in 1..LastPlace /\ place[head] = 1 /\ head # Null
  BY <1>1, <1>2 DEF TypeOK
<1>5. ASSUME NEW c \in Members
      PROVE  next[c] = head <=> place[c] = LastPlace
  <2>1. head # Null /\ place[next[c]] \in Nat /\ place[c] \in Nat
    BY <1>4 DEF TypeOK
  <2>2. next[c] = head => c = prev[head]
    OBVIOUS
  <2>3. place[c] = LastPlace => c = prev[head] /\ next[prev[head]] = head
    BY <2>1, <1>2
  <2> QED BY <2>1, <2>2, <2>3, <1>2
<1>6. ASSUME NEW c \in Members, next[c] = c
      PROVE  c = head /\ Members = {c}
  <2>1. place[c] \in Nat /\ place[c] # place[c] + 1
    BY DEF TypeOK
  <2>2. c = head
    BY <1>6, <2>1
  <2>3. LastPlace = 1
    BY <1>2, <1>4, <1>6, <2>2
  <2>4. \A d \in Members : place[d] = 1
    BY <2>3, <1>4
  <2> QED BY <2>2, <2>4, <1>4
<1> HIDE DEF Members, Ring, LastPlace
<1> QED BY <1>1, <1>2, <1>3, <1>4, <1>5, <1>6

\* insert_between() keeps the ring, in front of head, behind the last node and elsewhere.
LEMMA InsertRing ==
    ASSUME TypeOK, Ring, head # Null, NEW n \in Members, chosen \in Contacts \ Members, NEW k,
           Between(prev[n], n, chosen), place' = Shifted(chosen, k),
           \/ n = head /\ head' = chosen /\ k = 1
           \/ n = head /\ head' = head /\ k = LastPlace + 1
           \/ n # head /\ head' = head /\ k = place[n]
    PROVE  /\ Members' = Members \cup {chosen}
           /\ Ring' /\ LastPlace' = LastPlace + 1 /\ k \in Nat \ {0}
<1> DEFINE p == prev[n]
<1>1. p \in Members /\ next[p] = n /\ p # chosen /\ n # chosen
  BY DEF Ring
<1>2. k \in 1..(LastPlace + 1)
  BY Places DEF TypeOK, Members
<1>3. \A c \in Contacts : place'[c] =
          IF c = chosen THEN k ELSE IF place[c] >= k THEN place[c] + 1 ELSE place[c]
  BY DEF Shifted
<1>4. Members' = Members \cup {chosen}
  BY <1>2, <1>3 DEF Members, TypeOK
<1>5. /\ next' = [next EXCEPT ![chosen] = n, ![p] = chosen]
      /\ prev' = [prev EXCEPT ![chosen] = p, ![n] = chosen]
  BY DEF Between
<1>6. \A c \in Members' : next'[c] = IF c = p THEN chosen ELSE IF c = chosen THEN n ELSE next[c]
  BY <1>1, <1>4, <1>5 DEF TypeOK, Members
<1>7. \A c \in Members' : prev'[c] = IF c = n THEN chosen ELSE IF c = chosen THEN p ELSE prev[c]
  BY <1>1, <1>4, <1>5 DEF TypeOK, Members
<1>8. place[p] = k - 1 \/ (n = head /\ k = 1 /\ place[p] = LastPlace)
  BY <1>1, Places DEF Ring
<1>9. /\ head' \in Members' /\ head' # Null /\ place'[head'] = 1
      /\ LastPlace' = LastPlace + 1
  <2>1. head \in Members /\ place[head] = 1 /\ prev[head] \in Members
        /\ place[prev[head]] = LastPlace /\ LastPlace \in Nat /\ head # chosen
    BY Places
  <2>2. CASE n = head /\ head' = chosen /\ k = 1
    BY <1>1, <1>3, <1>4, <1>7, <2>1, <2>2, NullAssumption DEF LastPlace, Members
  <2>3. CASE n = head /\ head' = head /\ k = LastPlace + 1
    <3>1. prev'[head'] = chosen /\ place'[chosen] = k
      BY <1>3, <1>4, <1>7, <2>1, <2>3
    <3>2. place'[head] = 1
      BY <1>3, <2>1, <2>3, Places DEF Members
    <3> QED BY <1>4, <2>1, <2>3, <3>1, <3>2 DEF LastPlace
  <2>4. CASE n # head /\ head' = head /\ k = place[n]
    <3>1. prev'[head'] = prev[head] /\ k # 1 /\ k \in 1..LastPlace
      BY <1>4, <1>7, <2>1, <2>4, Places DEF Ring
    <3>2. place'[head] = 1 /\ place'[prev[head]] = LastPlace + 1
      BY <1>3, <2>1, <3>1 DEF Members
    <3> QED BY <1>4, <2>1, <2>4, <3>1, <3>2 DEF LastPlace
  <2> QED BY <2>2, <2>3, <2>4
<1>10. ASSUME NEW c \in Members'
       PROVE  /\ next'[c] \in Members' /\ prev'[next'[c]] = c
              /\ prev'[c] \in Members' /\ next'[prev'[c]] = c
  BY <1>1, <1>4, <1>6, <1>7 DEF Ring
<1>11. ASSUME NEW c \in Members'
       PROVE  place'[c] <= LastPlace'
  BY <1>2, <1>3, <1>4, <1>9, Places DEF Members
<1>12. ASSUME NEW c \in Members', next'[c] # head'
       PROVE  place'[next'[c]] = place'[c] + 1
  <2>1. CASE c = chosen
    <3>1. next'[c] = n /\ n # head'
      BY <1>1, <1>6, <1>12, <2>1
    <3>2. place[n] = k
      BY <3>1, <1>12, Places
    <3> QED BY <1>2, <1>3, <2>1, <3>1, <3>2 DEF Members
  <2>2. CASE c = p
    <3>1. next'[c] = chosen /\ chosen # head'
      BY <1>6, <1>12, <2>2
    <3>2. place[p] = k - 1
      BY <3>1, <1>1, Places DEF Ring
    <3> QED BY <1>2, <1>3, <2>2, <3>1, <3>2, <1>1 DEF Members
  <2>3. CASE c # chosen /\ c # p
    <3>1. c \in Members /\ next'[c] = next[c] /\ next[c] \in Members
      BY <1>4, <1>6, <2>3 DEF Ring
    <3>2. next[c] # n /\ next[c] # chosen
      BY <2>3, <3>1 DEF Ring
    <3>3. next[c] # head /\ place[next[c]] = place[c] + 1
      BY <3>1, <3>2, <1>12 DEF Ring
    <3>4. n # head => place[c] + 1 # k
      BY <3>1, <3>2, <3>3 DEF Ring
    <3>5. place[c] \in 1..LastPlace /\ place[next[c]] \in 1..LastPlace /\ LastPlace \in Nat
      BY <3>1, Places
    <3>6. k = 1 \/ k = LastPlace + 1 \/ place[c] + 1 # k
      BY <3>4
    <3> QED BY <1>2, <1>3, <3>1, <3>3, <3>5, <3>6 DEF Members
  <2> QED BY <2>1, <2>2, <2>3
<1>13. \A c, d \in Members' : place'[c] = place'[d] => c = d
  <2> SUFFICES ASSUME NEW c \in Members', NEW d \in Members', place'[c] = place'[d] PROVE c = d
    OBVIOUS
  <2>1. CASE c \in Members /\ d \in Members
    BY <1>2, <1>3, <2>1, Places DEF Members, Ring
  <2>2. CASE c = chosen \/ d = chosen
    BY <1>2, <1>3, <1>4, <2>2, Places DEF Members
  <2> QED BY <1>4, <2>1, <2>2
<1>14. Ring'
  BY <1>9, <1>10, <1>11, <1>12, <1>13 DEF Ring
<1> QED BY <1>2, <1>4, <1>9, <1>14

\* remove_node() keeps it as well, for a node that has another one next.
LEMMA UnlinkRing ==
    ASSUME TypeOK, Ring, NEW n \in Members, next[n] # n, Unlink(n)
    PROVE  /\ Members' = Members \ {n}
           /\ Ring' /\ LastPlace' = LastPlace - 1
<1> DEFINE p == prev[n]  f == next[n]
<1>1. p \in Members /\ f \in Members /\ next[p] = n /\ prev[f] = n /\ f # n /\ p # n
  BY DEF Ring
<1>2. \A c \in Contacts : place'[c] =
          IF c = n THEN 0 ELSE IF place[c] > place[n] THEN place[c] - 1 ELSE place[c]
  BY DEF Unlink
<1>3. Members' = Members \ {n}
  BY <1>2 DEF Members, TypeOK
<1>4. \A c \in Members' : next'[c] = IF c = p THEN f ELSE next[c]
  BY <1>1, <1>3 DEF TypeOK, Members, Unlink
<1>5. \A c \in Members' : prev'[c] = IF c = f THEN p ELSE prev[c]
  BY <1>1, <1>3 DEF TypeOK, Members, Unlink
<1>6. head' = IF head = n THEN f ELSE head
  BY DEF Unlink, HeadWithout
<1>7. /\ head \in Members /\ head # Null /\ place[head] = 1 /\ prev[head] \in Members
      /\ place[prev[head]] = LastPlace /\ LastPlace \in Nat
      /\ \A c \in Members : place[c] \in 1..LastPlace
  BY Places
<1>8. f # head => place[f] = place[n] + 1
  BY DEF Ring
<1>9. n # head => place[n] = place[p] + 1
  BY <1>1 DEF Ring
<1>10. /\ head' \in Members' /\ head' # Null /\ place'[head'] = 1
       /\ LastPlace' = LastPlace - 1
  <2>1. CASE head = n
    <3>1. head' = f /\ place[f] = 2 /\ f \in Members' /\ p \in Members'
      BY <1>1, <1>3, <1>6, <1>7, <1>8, <2>1
    <3>2. prev'[f] = p /\ place[p] = LastPlace /\ place[p] > 1
      BY <1>1, <1>5, <1>7, <2>1, <3>1 DEF Ring
    <3>3. place'[f] = 1 /\ place'[p] = LastPlace - 1
      BY <1>1, <1>2, <1>7, <2>1, <3>1, <3>2 DEF Members
    <3> QED BY <3>1, <3>2, <3>3, NullAssumption DEF LastPlace, Members
  <2>2. CASE head # n /\ f = head
    <3>1. head' = head /\ head \in Members' /\ prev'[head] = p /\ place[n] = LastPlace
      BY <1>1, <1>3, <1>5, <1>6, <1>7, <2>2
    <3>2. place'[head] = 1 /\ place'[p] = LastPlace - 1
      BY <1>1, <1>2, <1>7, <1>9, <2>2, <3>1 DEF Members, Ring
    <3> QED BY <1>7, <3>1, <3>2 DEF LastPlace
  <2>3. CASE head # n /\ f # head
    <3>1. head' = head /\ head \in Members' /\ prev'[head] = prev[head] /\ prev[head] # n
      BY <1>1, <1>3, <1>5, <1>6, <1>7, <2>3 DEF Ring
    <3>2. place[n] < LastPlace
      BY <1>7, <2>3, Places
    <3>3. place'[head] = 1 /\ place'[prev[head]] = LastPlace - 1
      BY <1>2, <1>7, <2>3, <3>1, <3>2 DEF Members
    <3> QED BY <1>7, <3>1, <3>3 DEF LastPlace
  <2> QED BY <2>1, <2>2, <2>3
<1>11. ASSUME NEW c \in Members'
       PROVE  /\ next'[c] \in Members' /\ prev'[next'[c]] = c
              /\ prev'[c] \in Members' /\ next'[prev'[c]] = c
  BY <1>1, <1>3, <1>4, <1>5 DEF Ring
<1>12. ASSUME NEW c \in Members'
       PROVE  place'[c] <= LastPlace'
  <2>1. c \in Members /\ c # n /\ place[c] # place[n]
    BY <1>3 DEF Ring
  <2> QED BY <1>2, <1>7, <1>10, <2>1 DEF Members
<1>13. ASSUME NEW c \in Members', next'[c] # head'
       PROVE  place'[next'[c]] = place'[c] + 1
  <2>1. c \in Members /\ c # n /\ place[c] # place[n] /\ next[c] \in Members
    BY <1>3 DEF Ring
  <2>2. CASE c = p
    <3>1. next'[c] = f /\ f # head' /\ head # n /\ f # head
      BY <1>4, <1>6, <1>13, <2>2
    <3> QED BY <1>1, <1>2, <1>7, <1>8, <1>9, <2>2, <3>1 DEF Members
  <2>3. CASE c # p
    <3>1. next'[c] = next[c] /\ next[c] # n
      BY <1>4, <2>1, <2>3 DEF Ring
    <3>2. next[c] # head
      BY <1>1, <1>6, <1>13, <2>1, <3>1
    <3>3. place[next[c]] = place[c] + 1 /\ place[next[c]] # place[n]
      BY <2>1, <3>1, <3>2 DEF Ring
    <3> QED BY <1>2, <1>7, <2>1, <3>1, <3>3 DEF Members
  <2> QED BY <2>2, <2>3
<1>14. \A c, d \in Members' : place'[c] = place'[d] => c = d
  <2> SUFFICES ASSUME NEW c \in Members', NEW d \in Members', place'[c] = place'[d] PROVE c = d
    OBVIOUS
  <2>1. c \in Members /\ d \in Members /\ place[c] # place[n] /\ place[d] # place[n]
    BY <1>3 DEF Ring
  <2>2. place[c] = place[d]
    BY <1>2, <1>3, <1>7, <2>1 DEF Members
  <2> QED BY <2>1, <2>2 DEF Ring
<1>15. Ring'
  BY <1>10, <1>11, <1>12, <1>13, <1>14 DEF Ring
<1> QED BY <1>3, <1>10, <1>15

-----------------------------------------------------------------------------
(* The steps. *)

\* An element of a sequence.
LEMMA ElementIs ==
    ASSUME NEW S, NEW s \in Seq(S), NEW k \in 1..Len(s)
    PROVE  s[k] \in S
  OBVIOUS

\* What is in the file are contacts.
LEMMA FileIs ==
    ASSUME TypeOK, NEW k \in 1..Len(file)
    PROVE  file[k] \in [who : Contacts, name : LastNames]
<1> file \in Seq([who : Contacts, name : LastNames])
  BY DEF TypeOK
<1> QED BY ElementIs

\* At first there is no list.
LEMMA InitInv == Init => IInv
<1> SUFFICES ASSUME Init PROVE IInv
  OBVIOUS
<1> USE DEF Init
<1>1. Members = {} /\ LastPlace = 0 /\ Finite
  BY FS_EmptySet DEF Members, LastPlace, Finite
<1>2. TypeOK
  <2>1. <<>> \in Seq([who : Contacts, name : LastNames])
    OBVIOUS
  <2> QED BY <2>1 DEF TypeOK, Pointers, NotAsked
<1>3. Ring /\ NothingFreed /\ SizeExact /\ Named /\ Compared
  BY <1>1 DEF Ring, NothingFreed, SizeExact, Named, Compared, Inserting
<1>4. NotPassed /\ InOrder /\ Walked /\ OpensTheOneAsked
  BY <1>1 DEF NotPassed, InOrder, Sorted, Walked, OpensTheOneAsked
<1>5. FileOnce /\ Dumping /\ Loading
  BY <1>1 DEF FileOnce, Dumping, Loading, Inserting
<1> QED BY <1>1, <1>2, <1>3, <1>4, <1>5 DEF IInv

\* Nor is there one when the process has ended, and the file is what it was.
LEMMA GoneKeeps ==
    ASSUME IInv, Gone, UNCHANGED file
    PROVE  IInv'
<1> USE DEF Gone, IInv
<1>1. Members' = {} /\ LastPlace' = 0 /\ Finite'
  BY FS_EmptySet DEF Members, LastPlace, Finite
<1>2. TypeOK'
  BY DEF TypeOK, Pointers, NotAsked
<1>3. Ring' /\ NothingFreed' /\ SizeExact' /\ Named' /\ Compared'
  BY <1>1 DEF Ring, NothingFreed, SizeExact, Named, Compared, Inserting
<1>4. NotPassed' /\ InOrder' /\ Walked' /\ OpensTheOneAsked'
  BY <1>1 DEF NotPassed, InOrder, Sorted, Walked, OpensTheOneAsked
<1>5. FileOnce' /\ Dumping' /\ Loading'
  BY <1>1 DEF FileOnce, Dumping, Loading, Inserting, TypeOK
<1> QED BY <1>1, <1>2, <1>3, <1>4, <1>5

\* A contact that was put between the smaller and the greater ones.
LEMMA InsertedKeeps ==
    ASSUME IInv, Inserting, NEW k \in 1..(LastPlace + 1), Inserted(k),
           Members' = Members \cup {chosen}, Ring', LastPlace' = LastPlace + 1,
           head' \in Pointers, next' \in [Contacts -> Pointers], prev' \in [Contacts -> Pointers],
           UNCHANGED <<lastname, renamed, walk, file, load>>,
           ~renamed => \A c \in Members : IF place[c] < k THEN lastname[c] <= lastname[chosen]
                                                          ELSE lastname[chosen] <= lastname[c]
    PROVE  IInv'
<1> USE NullAssumption DEF IInv, Inserted, walk, load
<1>1. chosen \in Contacts \ Members
  BY DEF NothingFreed, Inserting
<1>2. Finite'
  BY FS_AddElement DEF Finite
<1>3. \A c \in Contacts : place'[c] =
          IF c = chosen THEN k ELSE IF place[c] >= k THEN place[c] + 1 ELSE place[c]
  BY DEF Shifted
<1>4. LastPlace \in Nat /\ k \in Nat
  BY Places
<1>5. TypeOK'
  <2>1. place' \in [Contacts -> Nat]
    BY <1>4 DEF TypeOK, Shifted
  <2> QED BY <2>1 DEF TypeOK, Pointers
<1>6. NothingFreed' /\ Compared' /\ NotPassed' /\ Walked' /\ OpensTheOneAsked' /\ Dumping'
  BY DEF NothingFreed, Compared, NotPassed, Walked, OpensTheOneAsked, Dumping
<1>7. SizeExact'
  BY <1>4 DEF SizeExact, Inserting
<1>8. Named'
  BY DEF Named, Inserting
<1>9. InOrder'
  <2> SUFFICES ASSUME ~renamed, NEW c \in Members', NEW d \in Members', place'[c] < place'[d]
               PROVE  lastname[c] <= lastname[d]
    BY DEF InOrder, Sorted
  <2>1. \A e \in Members : place[e] \in Nat /\ e \in Contacts /\ lastname[e] \in Nat
    BY NamesAssumption DEF TypeOK, Members, Named
  <2>2. CASE c \in Members /\ d \in Members
    <3>1. place[c] < place[d]
      BY <1>1, <1>3, <1>4, <2>1, <2>2
    <3> QED BY <2>2, <3>1 DEF InOrder, Sorted
  <2>3. CASE c = chosen /\ d \in Members
    <3>1. ~(place[d] < k)
      BY <1>1, <1>3, <1>4, <2>1, <2>3
    <3> QED BY <2>3, <3>1
  <2>4. CASE d = chosen /\ c \in Members
    <3>1. place[c] < k
      BY <1>1, <1>3, <1>4, <2>1, <2>4
    <3> QED BY <2>4, <3>1
  <2>5. CASE c = chosen /\ d = chosen
    BY <1>3, <1>4, <1>1, <2>5
  <2> QED BY <2>2, <2>3, <2>4, <2>5
<1>10. FileOnce'
  BY DEF FileOnce
<1>11. Loading'
  <2>1. CASE loading
    <3>1. at \in Nat /\ at > 0
      BY <2>1 DEF TypeOK, Loading
    <3>2. 1..at = (1..(at - 1)) \cup {at}
      BY <3>1
    <3>3. Members' = {file[l].who : l \in 1..at}
      BY <2>1, <3>2 DEF Loading
    <3> QED BY <2>1, <3>3 DEF Loading, Inserting
  <2>2. CASE ~loading
    BY <2>2 DEF Loading, Inserting
  <2> QED BY <2>1, <2>2
<1> QED BY <1>2, <1>5, <1>6, <1>7, <1>8, <1>9, <1>10, <1>11

\* A contact that list_insert() is called for is not in the list.
LEMMA InsertBegins ==
    ASSUME IInv, pc \in {"menu", "load"}, NEW c \in Contacts \ Members, NEW n \in LastNames,
           Insert(c, n), UNCHANGED <<list, size, place, renamed, cur, walk, file>>,
           at' \in Nat, loading' \in BOOLEAN, Loading'
    PROVE  IInv'
<1> USE DEF IInv, Insert, list, walk
<1>1. Members' = Members /\ LastPlace' = LastPlace /\ Finite' /\ Ring'
  BY DEF Members, LastPlace, Finite, Ring
<1>2. TypeOK'
  BY DEF TypeOK, Pointers
<1>3. \A d \in Members : d \in Contacts /\ lastname'[d] = lastname[d]
  BY DEF Members, TypeOK
<1>4. NothingFreed' /\ SizeExact'
  BY <1>1 DEF NothingFreed, SizeExact
<1>5. Named'
  BY <1>1, <1>3 DEF Named, TypeOK
<1>6. InOrder'
  BY <1>1, <1>3 DEF InOrder, Sorted
<1>7. Compared' /\ NotPassed' /\ Walked' /\ OpensTheOneAsked' /\ FileOnce' /\ Dumping'
  BY DEF Compared, NotPassed, Walked, OpensTheOneAsked, FileOnce, Dumping
<1> QED BY <1>1, <1>2, <1>4, <1>5, <1>6, <1>7

\* Before a walk nothing is counted.
LEMMA WalkBegins ==
    ASSUME IInv, pc = "menu", NEW n \in Nat \ {0}, NEW t \in Texts \cup {AnyName},
           NEW s \in Texts \cup {AnyName}, WalkFor(n, t, s), UNCHANGED <<book, chosen, file, load>>
    PROVE  IInv'
<1> USE DEF IInv, WalkFor, book, list, load
<1>1. Members' = Members /\ LastPlace' = LastPlace /\ Finite' /\ Ring'
  BY DEF Members, LastPlace, Finite, Ring
<1>2. TypeOK'
  BY DEF TypeOK
<1>3. NothingFreed' /\ SizeExact' /\ Named' /\ Compared' /\ NotPassed' /\ InOrder'
  BY <1>1 DEF NothingFreed, SizeExact, Named, Inserting, Compared, NotPassed, InOrder, Sorted
<1>4. Walked'
  <2>1. head \in Members \cup {Null}
    BY DEF Ring
  <2>2. \A c \in Members : head # Null /\ ~(place[c] < place[head])
    BY Places
  <2>3. Counted' = {} /\ Cardinality({}) = 0
    BY <1>1, <2>2, FS_EmptySet DEF Counted, Passed
  <2> QED BY <1>1, <2>1, <2>3 DEF Walked
<1>5. OpensTheOneAsked' /\ FileOnce' /\ Dumping' /\ Loading'
  BY <1>1 DEF OpensTheOneAsked, FileOnce, Dumping, Loading, Inserting
<1> QED BY <1>1, <1>2, <1>3, <1>4, <1>5

\* list_insert(), whichever of its tests is true.
LEMMA InsertFirstKeeps == IInv /\ InsertFirst => IInv'
<1> SUFFICES ASSUME IInv, InsertFirst PROVE IInv'
  OBVIOUS
<1> USE DEF IInv, InsertFirst, list
<1>1. chosen \in Contacts \ Members /\ Inserting
  BY DEF NothingFreed, Inserting
<1>2. ASSUME NEW c \in Members PROVE c \in Contacts /\ lastname[c] \in Nat
  BY NamesAssumption DEF Members, Named
<1>3. lastname[chosen] \in Nat
  BY <1>1, NamesAssumption DEF Named
<1>4. CASE head = Null /\ head' = chosen /\ next' = [next EXCEPT ![chosen] = chosen]
           /\ prev' = [prev EXCEPT ![chosen] = chosen] /\ Inserted(1)
  <2>1. Members = {} /\ LastPlace = 0
    BY <1>4, Places DEF Ring
  <2>2. \A c \in Contacts : place[c] = 0
    BY <2>1 DEF Members, TypeOK
  <2>3. \A c \in Contacts : place'[c] = IF c = chosen THEN 1 ELSE 0
    BY <1>4, <2>2 DEF Inserted, Shifted
  <2>4. Members' = {chosen}
    BY <1>1, <2>3 DEF Members
  <2>5. next'[chosen] = chosen /\ prev'[chosen] = chosen /\ chosen # Null
    BY <1>1, <1>4, NullAssumption DEF TypeOK
  <2>6. LastPlace' = 1
    BY <1>1, <1>4, <2>3, <2>5 DEF LastPlace
  <2>7. Ring'
    BY <1>1, <1>4, <2>3, <2>4, <2>5, <2>6 DEF Ring
  <2>8. head' \in Pointers /\ next' \in [Contacts -> Pointers] /\ prev' \in [Contacts -> Pointers]
    BY <1>1, <1>4 DEF TypeOK, Pointers
  <2> QED BY <1>1, <1>4, <2>1, <2>4, <2>6, <2>7, <2>8, InsertedKeeps
<1>5. CASE head # Null /\ Before(chosen, head) /\ Between(prev[head], head, chosen)
           /\ head' = chosen /\ Inserted(1)
  <2>1. head \in Members /\ place[head] = 1 /\ prev[head] \in Members /\ LastPlace \in Nat
        /\ \A c \in Members : place[c] \in 1..LastPlace
    BY <1>5, Places
  <2>2. Members' = Members \cup {chosen} /\ Ring' /\ LastPlace' = LastPlace + 1
    BY <1>1, <1>5, <2>1, InsertRing DEF Inserted
  <2>3. head' \in Pointers /\ next' \in [Contacts -> Pointers] /\ prev' \in [Contacts -> Pointers]
    BY <1>1, <1>5, <2>1 DEF TypeOK, Pointers, Between, Members
  <2>4. ~renamed => \A c \in Members : ~(place[c] < 1) /\ lastname[chosen] <= lastname[c]
    <3> SUFFICES ASSUME ~renamed, NEW c \in Members
                 PROVE  ~(place[c] < 1) /\ lastname[chosen] <= lastname[c]
      OBVIOUS
    <3>1. c = head \/ place[head] < place[c]
      BY <2>1 DEF Ring
    <3>2. lastname[head] <= lastname[c]
      BY <1>2, <2>1, <3>1 DEF InOrder, Sorted
    <3> QED BY <1>2, <1>3, <1>5, <2>1, <3>2 DEF Before
  <2> QED BY <1>1, <1>5, <2>1, <2>2, <2>3, <2>4, InsertedKeeps
<1>6. CASE /\ head # Null /\ ~Before(chosen, head)
           /\ pc' = "insertLoop" /\ cur' = head
           /\ UNCHANGED <<list, place, size, chosen>>
  <2> USE <1>6 DEF walk, load
  <2>1. Members' = Members /\ LastPlace' = LastPlace /\ Finite' /\ Ring'
    BY DEF Members, LastPlace, Finite, Ring
  <2>2. TypeOK'
    BY DEF TypeOK
  <2>3. head \in Members /\ \A c \in Members : ~(place[c] < place[head])
    BY Places
  <2>4. NothingFreed' /\ SizeExact' /\ Named' /\ Compared' /\ NotPassed' /\ InOrder'
    BY <2>1, <2>3 DEF NothingFreed, SizeExact, Named, Inserting, Compared, Before, NotPassed,
       InOrder, Sorted
  <2>5. Walked' /\ OpensTheOneAsked' /\ FileOnce' /\ Dumping' /\ Loading'
    BY <2>1 DEF Walked, OpensTheOneAsked, FileOnce, Dumping, Loading, Inserting
  <2> QED BY <2>1, <2>2, <2>4, <2>5
<1> QED BY <1>4, <1>5, <1>6

\* And its loop: the contact comes before cur, or cur is the last one.
LEMMA InsertLoopKeeps == IInv /\ InsertLoop => IInv'
<1> SUFFICES ASSUME IInv, InsertLoop PROVE IInv'
  OBVIOUS
<1> USE DEF IInv, InsertLoop
<1>1. chosen \in Contacts \ Members /\ Inserting /\ cur \in Members
  BY DEF NothingFreed, Inserting
<1>2. ASSUME NEW c \in Members PROVE c \in Contacts /\ lastname[c] \in Nat
  BY NamesAssumption DEF Members, Named
<1>3. lastname[chosen] \in Nat
  BY <1>1, NamesAssumption DEF Named
<1>4. /\ head \in Members /\ prev[head] \in Members /\ LastPlace \in Nat /\ head # Null
      /\ \A c \in Members : place[c] \in 1..LastPlace
  BY <1>1, Places
<1>5. CASE Before(chosen, cur) /\ Between(prev[cur], cur, chosen) /\ Inserted(place[cur])
  <2>1. cur # head /\ UNCHANGED head
    BY <1>5 DEF Compared
  <2>2. Members' = Members \cup {chosen} /\ Ring' /\ LastPlace' = LastPlace + 1
    BY <1>1, <1>4, <1>5, <2>1, InsertRing DEF Inserted
  <2>3. head' \in Pointers /\ next' \in [Contacts -> Pointers] /\ prev' \in [Contacts -> Pointers]
    BY <1>1, <1>5 DEF TypeOK, Pointers, Between, Members, Ring
  <2>4. ASSUME ~renamed, NEW c \in Members
        PROVE  IF place[c] < place[cur] THEN lastname[c] <= lastname[chosen]
                                        ELSE lastname[chosen] <= lastname[c]
    <3>1. place[c] < place[cur] => lastname[c] <= lastname[chosen]
      BY <2>4 DEF Compared
    <3>2. place[c] < place[cur] \/ c = cur \/ place[cur] < place[c]
      BY <1>1, <1>4 DEF Ring
    <3>3. lastname[chosen] < lastname[cur]
      BY <1>5 DEF Before
    <3>4. place[cur] < place[c] => lastname[cur] <= lastname[c]
      BY <1>1, <2>4 DEF InOrder, Sorted
    <3> QED BY <1>1, <1>2, <1>3, <1>4, <3>1, <3>2, <3>3, <3>4
  <2> QED BY <1>1, <1>4, <1>5, <2>1, <2>2, <2>3, <2>4, InsertedKeeps
<1>6. CASE ~Before(chosen, cur) /\ next[cur] = head
           /\ Between(prev[head], head, chosen) /\ Inserted(LastPlace + 1)
  <2>1. place[cur] = LastPlace /\ UNCHANGED head
    BY <1>1, <1>6, Places
  <2>2. Members' = Members \cup {chosen} /\ Ring' /\ LastPlace' = LastPlace + 1
    BY <1>1, <1>4, <1>6, <2>1, InsertRing DEF Inserted
  <2>3. head' \in Pointers /\ next' \in [Contacts -> Pointers] /\ prev' \in [Contacts -> Pointers]
    BY <1>1, <1>4, <1>6 DEF TypeOK, Pointers, Between, Members
  <2>4. ASSUME ~renamed, NEW c \in Members
        PROVE  place[c] < LastPlace + 1 /\ lastname[c] <= lastname[chosen]
    <3>1. c = cur \/ place[c] < place[cur]
      BY <1>1, <1>4, <2>1 DEF Ring
    <3> QED BY <1>1, <1>2, <1>3, <1>4, <1>6, <2>4, <3>1 DEF Compared, Before
  <2> QED BY <1>1, <1>4, <1>6, <2>1, <2>2, <2>3, <2>4, InsertedKeeps
<1>7. CASE /\ ~Before(chosen, cur) /\ next[cur] # head
           /\ cur' = next[cur]
           /\ UNCHANGED <<pc, next, prev, place, size, chosen>>
  <2> USE <1>7 DEF walk, load
  <2>1. Members' = Members /\ LastPlace' = LastPlace /\ Finite' /\ Ring'
    BY DEF Members, LastPlace, Finite, Ring
  <2>2. next[cur] \in Members /\ place[next[cur]] = place[cur] + 1
    BY <1>1 DEF Ring
  <2>3. TypeOK'
    BY <2>2 DEF TypeOK, Pointers, Members
  <2>4. NothingFreed' /\ SizeExact' /\ Named' /\ NotPassed' /\ InOrder'
    BY <2>1, <2>2 DEF NothingFreed, SizeExact, Named, Inserting, NotPassed, InOrder, Sorted
  <2>5. Compared'
    <3>1. ASSUME ~renamed, NEW c \in Members, place[c] < place[next[cur]]
          PROVE  lastname[c] <= lastname[chosen]
      <4>1. c = cur \/ place[c] < place[cur]
        BY <1>1, <1>4, <2>2, <3>1 DEF Ring
      <4> QED BY <1>1, <1>2, <1>3, <3>1, <4>1 DEF Compared, Before
    <3> QED BY <2>1, <3>1 DEF Compared, Before
  <2>6. Walked' /\ OpensTheOneAsked' /\ FileOnce' /\ Dumping' /\ Loading'
    BY <2>1 DEF Walked, OpensTheOneAsked, FileOnce, Dumping, Loading, Inserting
  <2> QED BY <2>1, <2>3, <2>4, <2>5, <2>6
<1> QED BY <1>5, <1>6, <1>7

\* The walk counts the contacts that match, in the order of their places.
LEMMA WalkKeeps == IInv /\ Walk => IInv'
<1> SUFFICES ASSUME IInv, Walk PROVE IInv'
  OBVIOUS
<1> USE DEF IInv, Walk, book, list, load
<1>1. Members' = Members /\ LastPlace' = LastPlace /\ Finite' /\ Ring'
  BY DEF Members, LastPlace, Finite, Ring
<1>2. cur \in Members /\ cur \in Contacts
  BY DEF Walked, Members
<1>3. /\ cur' \in Members \cup {Null}
      /\ \A c \in Members : Passed(c)' <=> place[c] <= place[cur]
  <2>1. \A c \in Members : place[c] \in 1..LastPlace /\ LastPlace \in Nat
    BY <1>2, Places
  <2>2. CASE next[cur] = head
    <3>1. cur' = Null /\ place[cur] = LastPlace
      BY <1>2, <2>2, Places DEF Following
    <3> QED BY <1>1, <1>2, <2>1, <3>1 DEF Passed
  <2>3. CASE next[cur] # head
    <3>1. cur' = next[cur] /\ next[cur] \in Members /\ place[next[cur]] = place[cur] + 1
      BY <1>2, <2>3 DEF Following, Ring
    <3>2. cur' # Null
      BY <3>1, NullAssumption DEF Members
    <3> QED BY <1>1, <1>2, <2>1, <3>1, <3>2 DEF Passed
  <2> QED BY <2>2, <2>3
<1>4. TypeOK'
  BY <1>2, <1>3 DEF TypeOK, Pointers, Members
<1>5. \A c \in Members : Matches(c, asked.text)' <=> Matches(c, asked.text)
  BY DEF Matches
<1>6. \A c \in Members : Passed(c) <=> place[c] < place[cur]
  BY DEF Passed
<1>7. \A c \in Members : place[c] \in Nat /\ (place[c] = place[cur] => c = cur)
  BY <1>2 DEF TypeOK, Ring, Members
<1>8. Counted' = IF Matches(cur, asked.text) THEN Counted \cup {cur} ELSE Counted
  BY <1>1, <1>2, <1>3, <1>5, <1>6, <1>7 DEF Counted
<1>9. IsFiniteSet(Counted) /\ cur \notin Counted /\ Cardinality(Counted) \in Nat
  <2>1. Counted \in SUBSET Members
    BY DEF Counted
  <2>2. cur \notin Counted
    BY <1>2, <1>6, <1>7 DEF Counted
  <2>3. IsFiniteSet(Counted)
    BY <2>1, FS_Subset DEF Finite
  <2> QED BY <2>2, <2>3, FS_CardinalityType
<1>10. Walked'
  <2>1. asked.number > 0 /\ asked.number \in Nat /\ left \in Nat
    BY DEF Walked, TypeOK
  <2>2. Cardinality(Counted') + left' = asked'.number
    <3>1. CASE Matches(cur, asked.text)
      <4>1. Cardinality(Counted') = Cardinality(Counted) + 1
        BY <1>8, <1>9, <3>1, FS_AddElement
      <4> QED BY <1>9, <2>1, <3>1, <4>1 DEF Walked
    <3>2. CASE ~Matches(cur, asked.text)
      BY <1>8, <3>2 DEF Walked
    <3> QED BY <3>1, <3>2
  <2>3. left' = 0 => chosen' = cur /\ Matches(cur, asked.text)
    BY <2>1
  <2> QED BY <1>1, <1>2, <1>3, <1>5, <2>1, <2>2, <2>3 DEF Walked
<1>11. NothingFreed' /\ SizeExact' /\ Named' /\ Compared' /\ NotPassed' /\ InOrder'
  BY <1>1 DEF NothingFreed, SizeExact, Named, Inserting, Compared, NotPassed, InOrder, Sorted
<1>12. OpensTheOneAsked' /\ FileOnce' /\ Dumping' /\ Loading'
  BY <1>1 DEF OpensTheOneAsked, FileOnce, Dumping, Loading, Inserting
<1> QED BY <1>1, <1>4, <1>10, <1>11, <1>12

\* Whatever leads back to the menu, with a list as it was but for a name.
LEMMA ReturnKeeps ==
    ASSUME IInv, Return, pc \in {"walk", "details"}, UNCHANGED <<list, size, place, file, load>>,
           lastname' \in [Contacts -> LastNames \cup {Null}],
           \A c \in Members : lastname'[c] \in LastNames,
           renamed' \in BOOLEAN, ~renamed' => ~renamed /\ lastname' = lastname
    PROVE  IInv'
<1> USE DEF IInv, Return, list, load
<1>1. Members' = Members /\ LastPlace' = LastPlace /\ Finite' /\ Ring'
  BY DEF Members, LastPlace, Finite, Ring
<1>2. TypeOK'
  BY DEF TypeOK, Pointers, NotAsked
<1>3. NothingFreed' /\ SizeExact' /\ Named' /\ Compared' /\ NotPassed' /\ InOrder'
  BY <1>1 DEF NothingFreed, SizeExact, Named, Inserting, Compared, NotPassed, InOrder, Sorted
<1>4. Walked' /\ OpensTheOneAsked' /\ FileOnce' /\ Dumping' /\ Loading'
  BY <1>1 DEF Walked, OpensTheOneAsked, FileOnce, Dumping, Loading, Inserting
<1> QED BY <1>1, <1>2, <1>3, <1>4

\* A round of list_remove_value(): size is counted down when the contact has been removed, which
\* it has at the last node.
LEMMA RemoveKeeps == IInv /\ Remove => IInv'
<1> SUFFICES ASSUME IInv, Remove PROVE IInv'
  OBVIOUS
<1> USE NullAssumption DEF IInv, Remove, list, load
<1>1. /\ cur \in Members /\ next[cur] \in Members /\ cur \in Contacts /\ LastPlace \in Nat
      /\ \A c \in Members : place[c] \in 1..LastPlace
  BY Places DEF NothingFreed, Ring, Members
<1>2. CASE cur # chosen /\ Round(next[cur], head) /\ UNCHANGED <<list, lastname, place>>
  <2> USE <1>2
  <2>1. Members' = Members /\ LastPlace' = LastPlace /\ Finite' /\ Ring'
    BY DEF Members, LastPlace, Finite, Ring
  <2>2. CASE next[cur] = head /\ size' = size - 1 /\ Return
    <3> USE <2>2 DEF Return
    <3>1. place[cur] = LastPlace
      BY <1>1, Places
    <3>2. chosen \notin Members
      BY <1>1, <3>1 DEF NotPassed, Ring
    <3>3. size = LastPlace + 1
      BY <3>2 DEF SizeExact
    <3>4. TypeOK'
      BY <1>1, <3>3 DEF TypeOK, Pointers, NotAsked
    <3>5. NothingFreed' /\ SizeExact' /\ Named' /\ Compared' /\ NotPassed' /\ InOrder'
      BY <1>1, <2>1, <3>3 DEF NothingFreed, SizeExact, Named, Inserting, Compared, NotPassed,
         InOrder, Sorted
    <3>6. Walked' /\ OpensTheOneAsked' /\ FileOnce' /\ Dumping' /\ Loading'
      BY <2>1 DEF Walked, OpensTheOneAsked, FileOnce, Dumping, Loading, Inserting
    <3> QED BY <2>1, <3>4, <3>5, <3>6
  <2>3. CASE next[cur] # head /\ cur' = next[cur] /\ UNCHANGED <<pc, size, chosen, walk>>
    <3> USE <2>3 DEF walk
    <3>1. TypeOK'
      BY <1>1 DEF TypeOK, Pointers, Members
    <3>2. NotPassed'
      <4>1. place[next[cur]] = place[cur] + 1
        BY <1>1 DEF Ring
      <4>2. chosen \in Members => place[cur] < place[chosen]
        BY <1>1 DEF NotPassed, Ring
      <4> QED BY <1>1, <2>1, <4>1, <4>2 DEF NotPassed
    <3>3. NothingFreed' /\ SizeExact' /\ Named' /\ Compared' /\ InOrder'
      BY <1>1, <2>1 DEF NothingFreed, SizeExact, Named, Inserting, Compared, InOrder, Sorted
    <3>4. Walked' /\ OpensTheOneAsked' /\ FileOnce' /\ Dumping' /\ Loading'
      BY <2>1 DEF Walked, OpensTheOneAsked, FileOnce, Dumping, Loading, Inserting
    <3> QED BY <2>1, <3>1, <3>2, <3>3, <3>4
  <2> QED BY <2>2, <2>3 DEF Round
<1>3. CASE cur = chosen /\ next[cur] # cur /\ Unlink(cur) /\ Round(next[cur], HeadWithout(cur))
  <2> USE <1>3
  <2>1. Members' = Members \ {cur} /\ Ring' /\ LastPlace' = LastPlace - 1
    BY <1>1, UnlinkRing
  <2>2. Finite'
    BY <2>1, FS_RemoveElement DEF Finite
  <2>3. size = LastPlace /\ LastPlace - 1 \in Nat
    BY <1>1 DEF SizeExact
  <2>4. ASSUME NEW c \in Members'
        PROVE  /\ c \in Members /\ c \in Contacts /\ lastname'[c] = lastname[c]
               /\ place[c] \in Nat /\ place[c] # place[cur]
               /\ place'[c] = IF place[c] > place[cur] THEN place[c] - 1 ELSE place[c]
    <3>1. c \in Members /\ c # cur /\ c \in Contacts
      BY <2>1 DEF Members
    <3>2. place[c] \in Nat /\ place[c] # place[cur]
      BY <1>1, <3>1 DEF Ring
    <3>3. lastname'[c] = lastname[c]
      BY <1>1, <3>1 DEF Unlink, TypeOK
    <3>4. place'[c] = IF place[c] > place[cur] THEN place[c] - 1 ELSE place[c]
      BY <3>1 DEF Unlink
    <3> QED BY <3>1, <3>2, <3>3, <3>4
  <2>5. InOrder'
    <3>1. ASSUME NEW c \in Members', NEW d \in Members', place'[c] < place'[d]
          PROVE  place[c] < place[d]
      BY <1>1, <2>4, <3>1
    <3> QED BY <2>4, <3>1 DEF InOrder, Sorted
  <2>6. /\ head' \in Pointers
        /\ next' \in [Contacts -> Pointers] /\ prev' \in [Contacts -> Pointers]
        /\ lastname' \in [Contacts -> LastNames \cup {Null}] /\ place' \in [Contacts -> Nat]
    <3>1. /\ head \in Pointers /\ next[cur] \in Pointers /\ prev[cur] \in Pointers
          /\ Null \in Pointers
      BY <1>1 DEF TypeOK, Pointers
    <3>2. head' \in Pointers
      BY <3>1 DEF Unlink, HeadWithout
    <3>3. place' \in [Contacts -> Nat]
      <4>1. \A d \in Contacts :
                place[d] \in Nat /\ (place[d] > place[cur] => place[d] - 1 \in Nat)
        BY <1>1 DEF TypeOK
      <4> QED BY <4>1 DEF Unlink
    <3> QED BY <1>1, <3>1, <3>2, <3>3 DEF Unlink, TypeOK
  <2>7. CASE size' = size - 1 /\ Return
    <3> USE <2>7 DEF Return
    <3>1. TypeOK'
      BY <2>3, <2>6 DEF TypeOK, Pointers, NotAsked
    <3>2. NothingFreed' /\ SizeExact' /\ Named' /\ Compared' /\ NotPassed'
      BY <2>1, <2>3, <2>4 DEF NothingFreed, SizeExact, Named, Inserting, Compared, NotPassed
    <3>3. Walked' /\ OpensTheOneAsked' /\ FileOnce' /\ Dumping' /\ Loading'
      BY DEF Walked, OpensTheOneAsked, FileOnce, Dumping, Loading, Inserting
    <3> QED BY <2>1, <2>2, <2>5, <3>1, <3>2, <3>3
  <2>8. CASE cur' = next[cur] /\ UNCHANGED <<pc, size, chosen, walk>>
    <3> USE <2>8 DEF walk
    <3>1. TypeOK'
      BY <1>1, <2>6 DEF TypeOK, Members, Pointers
    <3>2. NothingFreed' /\ SizeExact' /\ Named' /\ Compared' /\ NotPassed'
      BY <1>1, <2>1, <2>3, <2>4 DEF NothingFreed, SizeExact, Named, Inserting, Compared, NotPassed
    <3>3. Walked' /\ OpensTheOneAsked' /\ FileOnce' /\ Dumping' /\ Loading'
      BY DEF Walked, OpensTheOneAsked, FileOnce, Dumping, Loading, Inserting
    <3> QED BY <2>1, <2>2, <2>5, <3>1, <3>2, <3>3
  <2> QED BY <2>7, <2>8 DEF Round
<1> QED BY <1>2, <1>3

\* The only node was the list.
LEMMA RemoveOnlyKeeps == IInv /\ RemoveOnly => IInv'
<1> SUFFICES ASSUME IInv, RemoveOnly PROVE IInv'
  OBVIOUS
<1> USE DEF IInv, RemoveOnly, walk, load
<1>1. cur \in Members /\ Members = {cur} /\ cur = head /\ next[head] = head
  BY Places DEF NothingFreed
<1>2. place'[cur] = 0 /\ \A c \in Contacts : place'[c] = 0
  BY <1>1 DEF TypeOK, Members
<1>3. Members' = {} /\ LastPlace' = 0 /\ Finite'
  BY <1>2, FS_EmptySet DEF Members, LastPlace, Finite
<1>4. LastPlace = 1
  BY <1>1, Places
<1>5. TypeOK' /\ Ring'
  BY <1>1, <1>3 DEF TypeOK, Pointers, Ring
<1>6. NothingFreed' /\ SizeExact' /\ Named' /\ Compared' /\ NotPassed' /\ InOrder'
  BY <1>1, <1>3, <1>4 DEF NothingFreed, SizeExact, Named, Inserting, Compared, NotPassed, InOrder,
     Sorted
<1>7. Walked' /\ OpensTheOneAsked' /\ FileOnce' /\ Dumping' /\ Loading'
  BY <1>3 DEF Walked, OpensTheOneAsked, FileOnce, Dumping, Loading, Inserting
<1> QED BY <1>3, <1>5, <1>6, <1>7

\* dump_data() writes the contact after the ones that it has written.
LEMMA DumpKeeps == IInv /\ Dump => IInv'
<1> SUFFICES ASSUME IInv, Dump PROVE IInv'
  OBVIOUS
<1> USE DEF IInv, Dump, book, list, walk, load
<1>1. Members' = Members /\ LastPlace' = LastPlace /\ Finite' /\ Ring'
  BY DEF Members, LastPlace, Finite, Ring
<1>2. cur \in Members /\ cur \in Contacts /\ place[cur] \in Nat /\ lastname[cur] \in LastNames
  BY DEF Dumping, Members, TypeOK, Named
<1>3. Entry(cur) \in [who : Contacts, name : LastNames] /\ Entry(cur).who = cur
  BY <1>2 DEF Entry
<1>4. /\ file' \in Seq([who : Contacts, name : LastNames]) /\ Len(file') = Len(file) + 1
      /\ Len(file) \in Nat /\ Len(file) = place[cur] - 1
      /\ \A k \in 1..Len(file') : file'[k] = IF k = Len(file) + 1 THEN Entry(cur) ELSE file[k]
  BY <1>2, <1>3 DEF TypeOK, Dumping
<1>5. \A k \in 1..Len(file') :
          file'[k].who \in Members /\ place[file'[k].who] = k /\ file'[k] = Entry(file'[k].who)
  BY <1>2, <1>3, <1>4 DEF Dumping
<1>6. /\ cur' \in Members \cup {Null}
      /\ Len(file') = IF cur' = Null THEN LastPlace ELSE place[cur'] - 1
  <2>1. CASE next[cur] = head
    BY <1>2, <1>4, <2>1, Places DEF Following
  <2>2. CASE next[cur] # head
    <3>1. cur' = next[cur] /\ next[cur] \in Members /\ place[next[cur]] = place[cur] + 1
      BY <1>2, <2>2 DEF Following, Ring
    <3>2. cur' # Null
      BY <3>1, NullAssumption DEF Members
    <3> QED BY <1>2, <1>4, <3>1, <3>2
  <2> QED BY <2>1, <2>2
<1>7. TypeOK'
  BY <1>2, <1>4, <1>6 DEF TypeOK, Pointers, Members
<1>8. Dumping'
  BY <1>1, <1>5, <1>6 DEF Dumping, Entry
<1>9. FileOnce'
  BY <1>5 DEF FileOnce
<1>10. NothingFreed' /\ SizeExact' /\ Named' /\ Compared' /\ NotPassed' /\ InOrder'
  BY <1>1 DEF NothingFreed, SizeExact, Named, Inserting, Compared, NotPassed, InOrder, Sorted
<1>11. Walked' /\ OpensTheOneAsked' /\ Loading'
  BY <1>1, <1>4 DEF Walked, OpensTheOneAsked, Loading, Inserting, TypeOK
<1> QED BY <1>1, <1>7, <1>8, <1>9, <1>10, <1>11

\* Every step keeps the invariant.
LEMMA StepInv == IInv /\ [Next]_vars => IInv'
<1> SUFFICES ASSUME IInv, [Next]_vars PROVE IInv'
  OBVIOUS
<1> USE DEF IInv, book, list, walk, load
<1>1. ASSUME Start PROVE IInv'
  <2> USE <1>1 DEF Start
  <2>1. Members' = Members /\ LastPlace' = LastPlace /\ Finite' /\ Ring'
    BY DEF Members, LastPlace, Finite, Ring
  <2>2. TypeOK' /\ NothingFreed' /\ SizeExact' /\ Named' /\ Compared'
    BY <2>1 DEF TypeOK, NothingFreed, SizeExact, Named, Inserting, Compared
  <2>3. NotPassed' /\ InOrder' /\ Walked' /\ OpensTheOneAsked' /\ FileOnce' /\ Dumping'
    BY <2>1 DEF NotPassed, InOrder, Sorted, Walked, OpensTheOneAsked, FileOnce, Dumping
  <2>4. Loading'
    BY <2>1 DEF Loading, Inserting
  <2> QED BY <2>1, <2>2, <2>3, <2>4
\* The next contact of the file is none of those that were read before.
<1>2. ASSUME Load PROVE IInv'
  <2> USE <1>2 DEF Load
  <2>1. at \in Nat /\ Len(file) \in Nat /\ at + 1 \in 1..Len(file)
        /\ \A k \in 1..Len(file) : file[k] \in [who : Contacts, name : LastNames]
    <3>1. at \in Nat /\ Len(file) \in Nat
      BY DEF TypeOK
    <3>2. at <= Len(file) /\ at < Len(file)
      BY DEF Loading
    <3> QED BY <3>1, <3>2, FileIs
  <2>2. Members = {file[k].who : k \in 1..at}
    BY DEF Loading
  <2>3. file[at + 1].who \in Contacts \ Members
    BY <2>1, <2>2 DEF FileOnce
  <2>4. Members' = Members
    BY DEF Members
  <2>5. ASSUME NEW k \in 1..(at + 1)
        PROVE  lastname'[file[k].who] = file[k].name
    <3>1. file[k] \in [who : Contacts, name : LastNames]
      BY <2>1
    <3>2. CASE k = at + 1
      BY <3>1, <3>2 DEF Insert, TypeOK
    <3>3. CASE k \in 1..at
      <4>1. file[k].who \in Members /\ file[k].who # file[at + 1].who
        BY <2>2, <2>3, <3>3
      <4> QED BY <3>1, <3>3, <4>1 DEF Insert, TypeOK, Loading
    <3> QED BY <2>1, <3>2, <3>3
  <2>6. Loading'
    BY <2>1, <2>2, <2>4, <2>5 DEF Loading, Insert, Inserting
  <2> QED BY <2>1, <2>3, <2>6, InsertBegins
<1>3. ASSUME Loaded PROVE IInv'
  <2> USE <1>3 DEF Loaded
  <2>1. Members' = Members /\ LastPlace' = LastPlace /\ Finite' /\ Ring'
    BY DEF Members, LastPlace, Finite, Ring
  <2>2. TypeOK' /\ NothingFreed' /\ SizeExact' /\ Named' /\ Compared'
    BY <2>1 DEF TypeOK, NothingFreed, SizeExact, Named, Inserting, Compared
  <2>3. NotPassed' /\ InOrder' /\ Walked' /\ OpensTheOneAsked' /\ FileOnce' /\ Dumping'
        /\ Loading'
    BY <2>1 DEF NotPassed, InOrder, Sorted, Walked, OpensTheOneAsked, FileOnce, Dumping, Loading,
       Inserting, TypeOK
  <2> QED BY <2>1, <2>2, <2>3
<1>4. ASSUME Add PROVE IInv'
  <2>1. PICK c \in Contacts \ Members, n \in LastNames : Insert(c, n)
    BY <1>4 DEF Add
  <2>2. Loading'
    BY <1>4, <2>1 DEF Add, Loading, Insert, Inserting
  <2>3. at' \in Nat /\ loading' \in BOOLEAN
    BY <1>4 DEF Add, TypeOK
  <2> QED BY <1>4, <2>1, <2>2, <2>3, InsertBegins DEF Add
<1>5. ASSUME Select PROVE IInv'
  <2>1. PICK typed \in Texts : InRange(typed) /\ WalkFor(Number[typed], AnyName, AnyName)
    BY <1>5 DEF Select
  <2>2. Number[typed] \in Nat \ {0}
    BY <2>1, TextsAssumption DEF InRange
  <2> QED BY <1>5, <2>1, <2>2, WalkBegins DEF Select
<1>6. ASSUME Search PROVE IInv'
  <2>1. PICK text \in Texts, typed \in Texts :
            InRange(typed) /\ WalkFor(Number[typed], typed, text)
    BY <1>6 DEF Search
  <2>2. Number[typed] \in Nat \ {0}
    BY <2>1, TextsAssumption DEF InRange
  <2> QED BY <1>6, <2>1, <2>2, WalkBegins DEF Search
\* The walk has counted up to the contact that it leads to.
<1>7. ASSUME Found PROVE IInv'
  <2> USE <1>7 DEF Found
  <2>1. Members' = Members /\ LastPlace' = LastPlace /\ Finite' /\ Ring'
    BY DEF Members, LastPlace, Finite, Ring
  <2>2. chosen \in Members /\ chosen \in Contacts /\ Matches(chosen, asked.text)
    BY DEF Walked, Members
  <2>3. Counted = {c \in Members : place[c] <= place[chosen] /\ Matches(c, asked.text)}
    BY DEF Walked, Counted
  <2>4. Cardinality(Counted) = asked.number
    <3>1. IsFiniteSet(Counted)
      BY FS_Subset DEF Counted, Finite
    <3>2. Cardinality(Counted) \in Nat
      BY <3>1, FS_CardinalityType
    <3> QED BY <3>2 DEF Walked
  <2>5. OpensTheOneAsked'
    <3>1. ASSUME \A c \in Members : Matches(c, asked.text) <=> Matches(c, asked.searched)
          PROVE  IsTheNth(chosen, asked.number, asked.searched)
      <4>1. Counted = {c \in Members : place[c] <= place[chosen] /\ Matches(c, asked.searched)}
        BY <2>3, <3>1
      <4> QED BY <2>2, <2>4, <3>1, <4>1 DEF IsTheNth
    <3> QED BY <2>1, <3>1 DEF OpensTheOneAsked, IsTheNth, Matches
  <2>6. TypeOK' /\ NothingFreed' /\ SizeExact' /\ Named' /\ Compared'
    BY <2>1, <2>2 DEF TypeOK, Pointers, NothingFreed, SizeExact, Named, Inserting, Compared
  <2>7. NotPassed' /\ InOrder' /\ Walked' /\ FileOnce' /\ Dumping' /\ Loading'
    BY <2>1 DEF NotPassed, InOrder, Sorted, Walked, FileOnce, Dumping, Loading, Inserting
  <2> QED BY <2>1, <2>5, <2>6, <2>7
<1>8. ASSUME NotFound \/ Back PROVE IInv'
  BY <1>8, ReturnKeeps DEF NotFound, Back, TypeOK, Named
<1>9. ASSUME Edit PROVE IInv'
  <2>1. PICK n \in LastNames : lastname' = [lastname EXCEPT ![chosen] = n]
    BY <1>9 DEF Edit
  <2>2. lastname' \in [Contacts -> LastNames \cup {Null}]
        /\ \A c \in Members : lastname'[c] \in LastNames
    BY <2>1 DEF TypeOK, Named, Members
  <2> QED BY <1>9, <2>2, ReturnKeeps DEF Edit
<1>10. ASSUME Delete PROVE IInv'
  <2> USE <1>10 DEF Delete
  <2>1. Members' = Members /\ LastPlace' = LastPlace /\ Finite' /\ Ring'
    BY DEF Members, LastPlace, Finite, Ring
  <2>2. chosen \in Members /\ head \in Members /\ place[head] <= place[chosen]
    <3>1. chosen \in Members
      BY DEF NothingFreed
    <3> QED BY <3>1, Places
  <2>3. TypeOK' /\ NothingFreed' /\ SizeExact' /\ Named' /\ Compared' /\ NotPassed'
    BY <2>1, <2>2 DEF TypeOK, NothingFreed, SizeExact, Named, Inserting, Compared, NotPassed
  <2>4. InOrder' /\ Walked' /\ OpensTheOneAsked' /\ FileOnce' /\ Dumping' /\ Loading'
    BY <2>1 DEF InOrder, Sorted, Walked, OpensTheOneAsked, FileOnce, Dumping, Loading, Inserting
  <2> QED BY <2>1, <2>2, <2>3, <2>4
<1>11. ASSUME Quit PROVE IInv'
  <2> USE <1>11 DEF Quit, Emptied
  <2>1. Members' = Members /\ LastPlace' = LastPlace /\ Finite' /\ Ring'
    BY DEF Members, LastPlace, Finite, Ring
  <2>2. file' \in Seq([who : Contacts, name : LastNames]) /\ Len(file') = 0
    OBVIOUS
  <2>3. TypeOK'
    BY <2>2 DEF TypeOK
  <2>4. Dumping'
    <3>1. head = Null => LastPlace = 0
      BY DEF LastPlace
    <3>2. head # Null => head \in Members /\ place[head] - 1 = 0
      BY Places DEF Ring
    <3> QED BY <2>1, <2>2, <3>1, <3>2 DEF Dumping
  <2>5. NothingFreed' /\ SizeExact' /\ Named' /\ Compared' /\ NotPassed' /\ InOrder'
    BY <2>1 DEF NothingFreed, SizeExact, Named, Inserting, Compared, NotPassed, InOrder, Sorted
  <2>6. Walked' /\ OpensTheOneAsked' /\ FileOnce' /\ Loading'
    BY <2>1, <2>2 DEF Walked, OpensTheOneAsked, FileOnce, Loading, Inserting
  <2> QED BY <2>1, <2>3, <2>4, <2>5, <2>6
<1>12. ASSUME Dumped \/ Die PROVE IInv'
  BY <1>12, GoneKeeps DEF Dumped, Die
<1>13. CASE UNCHANGED vars
  <2> USE <1>13 DEF vars
  <2>1. Members' = Members /\ LastPlace' = LastPlace /\ Finite' /\ Ring'
    BY DEF Members, LastPlace, Finite, Ring
  <2>2. TypeOK' /\ NothingFreed' /\ SizeExact' /\ Named' /\ Compared' /\ NotPassed' /\ InOrder'
    BY <2>1 DEF TypeOK, NothingFreed, SizeExact, Named, Inserting, Compared, Before, NotPassed,
       InOrder, Sorted
  <2>3. Walked' /\ OpensTheOneAsked'
    BY <2>1 DEF Walked, Counted, Passed, OpensTheOneAsked, IsTheNth, Matches
  <2>4. FileOnce' /\ Dumping' /\ Loading'
    BY <2>1 DEF FileOnce, Dumping, Entry, Loading, Inserting
  <2> QED BY <2>1, <2>2, <2>3, <2>4
<1>14. CASE Program
  BY <1>14, <1>2, <1>3, <1>7, <1>8, <1>12, InsertFirstKeeps, InsertLoopKeeps, WalkKeeps,
     RemoveKeeps, RemoveOnlyKeeps, DumpKeeps DEF Program
<1>15. CASE User
  BY <1>15, <1>1, <1>4, <1>5, <1>6, <1>8, <1>9, <1>10, <1>11, <1>12 DEF User
<1> QED BY <1>13, <1>14, <1>15 DEF Next

\* The invariant holds in every state.
THEOREM Invariant == Spec => []IInv
<1> QED BY InitInv, StepInv, PTL DEF Spec

\* 03, a list of any length: whole through every insertion and removal, sorted unless a last name
\* was edited, and storage->size counts it.
THEOREM ListStaysSound == Spec => []ListIsSound
<1>1. IInv => ListIsSound
  BY DEF IInv, ListIsSound, InOrder
<1> QED BY <1>1, Invariant, PTL

\* select_menu() opens the contact with the number that was typed, and so does search_menu()
\* among the contacts found, if the number and the text searched for are in the same names.
THEOREM TheOneAskedIsOpened == Spec => []OpensTheOneAsked
<1>1. IInv => OpensTheOneAsked
  BY DEF IInv
<1> QED BY <1>1, Invariant, PTL

\* dump_data() writes everybody in the list once, and load_data() puts everybody that it has read
\* in the list, whenever the last run ended.
THEOREM FileIsTheList == Spec => []SavedAndLoaded
<1>1. ASSUME IInv, pc = "dump", cur = Null
      PROVE  Stored = Listed /\ Len(file) = LastPlace
  <2>1. Len(file) = LastPlace /\ LastPlace \in Nat
    BY <1>1, Places DEF IInv, Dumping
  <2>2. \A k \in 1..Len(file) :
            file[k].who \in Members /\ place[file[k].who] = k /\ file[k] = Entry(file[k].who)
    BY <1>1 DEF IInv, Dumping
  <2>3. ASSUME NEW c \in Members
        PROVE  Entry(c) \in Stored
    <3>1. place[c] \in 1..Len(file)
      BY <1>1, <2>1, Places DEF IInv
    <3>2. file[place[c]].who = c
      BY <1>1, <2>2, <3>1 DEF IInv, Ring
    <3> QED BY <2>2, <3>1, <3>2 DEF Stored
  <2> QED BY <2>1, <2>2, <2>3 DEF Stored, Listed
<1>2. ASSUME IInv, pc = "load"
      PROVE  Listed = {file[k] : k \in 1..at}
  <2>1. Members = {file[k].who : k \in 1..at}
    BY <1>2 DEF IInv, Loading
  <2>2. ASSUME NEW k \in 1..at
        PROVE  Entry(file[k].who) = file[k]
    <3>1. k \in 1..Len(file)
      BY <1>2 DEF IInv, Loading, TypeOK
    <3>2. file[k] \in [who : Contacts, name : LastNames]
      BY <1>2, <3>1, FileIs DEF IInv
    <3>3. lastname[file[k].who] = file[k].name
      BY <1>2 DEF IInv, Loading
    <3> QED BY <3>2, <3>3 DEF Entry
  <2> QED BY <2>1, <2>2 DEF Listed
<1>3. IInv => SavedAndLoaded
  BY <1>1, <1>2 DEF SavedAndLoaded
<1> QED BY <1>3, Invariant, PTL
=============================================================================
