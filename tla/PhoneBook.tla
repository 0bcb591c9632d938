----------------------------- MODULE PhoneBook -----------------------------
(***************************************************************************)
(* 03: a phone book in a circular doubly linked list that is sorted by     *)
(* last name while contacts are added, is loaded from a file at the start  *)
(* and written to it at the end.  The loops over the list that may go      *)
(* wrong (insertion, removal, the walk to a chosen contact, loading and    *)
(* dumping) are taken one round per step.                                  *)
(*                                                                         *)
(* Abstraction: a contact is its address and its last name, and the node   *)
(* that carries it has the address of the contact.  The other fields and   *)
(* the ids, which nothing reads, are left out.  Last names are numbers in  *)
(* the order of strcmp(); Has says which text is part of which name.       *)
(* Variables of a function are null outside it.                            *)
(***************************************************************************)
EXTENDS Naturals, Sequences, FiniteSets

CONSTANTS
    Contacts,   \* bound: the contacts that may be in the book at a time
    Null,       \* the null pointer, and what is not the name of anybody
    LastNames,
    Texts,      \* what is typed when the program asks for a text or a number
    AnyName,    \* not a text: the loop of select_menu(), which does not compare
    Number,     \* the number that sscanf("%zu") finds in a text, 0 if none
    Has         \* pairs of a name and a text with strstr(name, text)

ASSUME NullAssumption == Null \notin Contacts \cup LastNames
ASSUME NamesAssumption == LastNames \subseteq Nat
ASSUME TextsAssumption ==
    AnyName \notin Texts /\ Number \in [Texts -> Nat] /\ Has \subseteq LastNames \X Texts

VARIABLES
    pc,                 \* what the program is doing
    head, next, prev,   \* the list
    lastname,
    size,               \* storage->size
    cur,                \* the node a loop is at, or the iterator's
    chosen,             \* the contact being inserted, looked at or removed
    asked, left,        \* what a walk is for (see WalkFor), and what is left of its number
    file,               \* the data file: a sequence of contacts with their names
    at,                 \* load_data(): how many of them were read
    loading,            \* list_insert() was called by load_data()
    \* History:
    place,              \* the place of every contact in the list, 0 if it is not there
    renamed             \* a last name was edited in this run

list == <<head, next, prev>>
book == <<list, lastname, size, place, renamed>>
walk == <<asked, left>>
load == <<at, loading>>
vars == <<pc, book, cur, chosen, walk, file, load>>

Pointers == Contacts \cup {Null}
Members == {c \in Contacts : place[c] > 0}
Entry(c) == [who |-> c, name |-> lastname[c]]
NotAsked == [number |-> 0, text |-> AnyName, searched |-> AnyName]

Init ==
    /\ pc = "down"
    /\ head = Null
    /\ next = [c \in Contacts |-> Null] /\ prev = [c \in Contacts |-> Null]
    /\ lastname = [c \in Contacts |-> Null]
    /\ size = 0
    /\ cur = Null /\ chosen = Null
    /\ asked = NotAsked /\ left = 0
    /\ file = <<>>
    /\ at = 0 /\ loading = FALSE
    /\ place = [c \in Contacts |-> 0]
    /\ renamed = FALSE

\* A function returns to the main menu.
Return ==
    /\ pc' = "menu"
    /\ cur' = Null /\ chosen' = Null
    /\ asked' = NotAsked /\ left' = 0

\* create_storage()
Start ==
    /\ pc = "down"
    /\ pc' = "load"
    /\ UNCHANGED <<book, cur, chosen, walk, file, load>>
-----------------------------------------------------------------------------
(* list_insert() and add_contact(). *)

\* The new contact gets the place k: those from there on move up.
Shifted(c, k) ==
    [d \in Contacts |-> IF d = c THEN k ELSE IF place[d] >= k THEN place[d] + 1 ELSE place[d]]

LastPlace == IF head = Null THEN 0 ELSE place[prev[head]]

\* insert_between(p, n, c)
Between(p, n, c) ==
    /\ next' = [next EXCEPT ![c] = n, ![p] = c]
    /\ prev' = [prev EXCEPT ![c] = p, ![n] = c]

\* The rest of add_contact(), and where it was called.
Inserted(k) ==
    /\ place' = Shifted(chosen, k)
    /\ size' = size + 1
    /\ pc' = IF loading THEN "load" ELSE "menu"
    /\ cur' = Null /\ chosen' = Null

Before(c, d) == lastname[c] < lastname[d]

\* The first tests of list_insert(): an empty list, or one that begins after the contact.
InsertFirst ==
    /\ pc = "insert"
    /\ \/ /\ head = Null
          /\ head' = chosen
          /\ next' = [next EXCEPT ![chosen] = chosen]
          /\ prev' = [prev EXCEPT ![chosen] = chosen]
          /\ Inserted(1)
       \/ /\ head # Null /\ Before(chosen, head)
          /\ Between(prev[head], head, chosen)
          /\ head' = chosen
          /\ Inserted(1)
       \/ /\ head # Null /\ ~Before(chosen, head)
          /\ pc' = "insertLoop" /\ cur' = head
          /\ UNCHANGED <<list, place, size, chosen>>
    /\ UNCHANGED <<lastname, renamed, walk, file, load>>

\* One round of its loop, and the insertion at the end after the last one.
InsertLoop ==
    /\ pc = "insertLoop"
    /\ \/ /\ Before(chosen, cur)
          /\ Between(prev[cur], cur, chosen)
          /\ Inserted(place[cur])
       \/ /\ ~Before(chosen, cur) /\ next[cur] # head
          /\ cur' = next[cur]
          /\ UNCHANGED <<pc, next, prev, place, size, chosen>>
       \/ /\ ~Before(chosen, cur) /\ next[cur] = head
          /\ Between(prev[head], head, chosen)
          /\ Inserted(LastPlace + 1)
    /\ UNCHANGED <<head, lastname, renamed, walk, file, load>>

Insert(c, n) ==
    /\ pc' = "insert"
    /\ chosen' = c
    /\ lastname' = [lastname EXCEPT ![c] = n]

\* load_data() adds one contact after the other, in the order of the file, until a read() has
\* not the length of a contact: at the end of the file, or when it or the open() fails.  main()
\* does not ask whether it has read everything.
Load ==
    /\ pc = "load"
    /\ at < Len(file)
    /\ Insert(file[at + 1].who, file[at + 1].name)
    /\ at' = at + 1 /\ loading' = TRUE
    /\ UNCHANGED <<list, size, place, renamed, cur, walk, file>>

Loaded ==
    /\ pc = "load"
    /\ pc' = "menu"
    /\ at' = 0 /\ loading' = FALSE
    /\ UNCHANGED <<book, cur, chosen, walk, file>>

\* add_menu()
Add ==
    /\ pc = "menu"
    /\ \E c \in Contacts \ Members, n \in LastNames : Insert(c, n)
    /\ UNCHANGED <<list, size, place, renamed, cur, walk, file, load>>
-----------------------------------------------------------------------------
(* select_menu() and search_menu(). *)

\* A walk to the n-th contact whose name has the text t, asked for as the n-th of those whose
\* names have the text s.
WalkFor(n, t, s) ==
    /\ pc' = "walk"
    /\ asked' = [number |-> n, text |-> t, searched |-> s] /\ left' = n
    /\ cur' = head

\* The number typed is one of the list's, as far as storage->size knows.
InRange(t) == Number[t] > 0 /\ Number[t] < size + 1

Select ==
    /\ pc = "menu"
    /\ \E typed \in Texts : InRange(typed) /\ WalkFor(Number[typed], AnyName, AnyName)
    /\ UNCHANGED <<book, chosen, file, load>>

\* The first loop of search_menu() lists the contacts whose names have the text, and
\* without any the search is over.  The second compares with what buffer holds then:
\* no longer that text, but the number that was typed.
Search ==
    /\ pc = "menu"
    /\ \E text, typed \in Texts :
          /\ \E c \in Members : <<lastname[c], text>> \in Has
          /\ InRange(typed)
          /\ WalkFor(Number[typed], typed, text)
    /\ UNCHANGED <<book, chosen, file, load>>

Matches(c, t) == t = AnyName \/ <<lastname[c], t>> \in Has

\* it_next(): no node follows the last one.
PastTheEnd(c) == next[c]
Following(c) == IF next[c] = head THEN Null ELSE next[c]

Walk ==
    /\ pc = "walk"
    /\ cur # Null /\ left > 0
    /\ chosen' = cur
    /\ cur' = Following(cur)
    /\ left' = IF Matches(cur, asked.text) THEN left - 1 ELSE left
    /\ UNCHANGED <<pc, book, asked, file, load>>

Found ==
    /\ pc = "walk"
    /\ left = 0
    /\ pc' = "details" /\ cur' = Null
    /\ UNCHANGED <<book, chosen, walk, file, load>>

NotFound ==
    /\ pc = "walk"
    /\ left > 0 /\ cur = Null
    /\ Return
    /\ UNCHANGED <<book, file, load>>
-----------------------------------------------------------------------------
(* details_menu(), which always leads back to the main menu. *)

\* Q, edit_numbers(), an unknown option, an answer other than y.
Back ==
    /\ pc = "details"
    /\ Return
    /\ UNCHANGED <<book, file, load>>

\* edit_menu(): the contact stays where it is in the list.
Edit ==
    /\ pc = "details"
    /\ \E n \in LastNames \ {lastname[chosen]} : lastname' = [lastname EXCEPT ![chosen] = n]
    /\ renamed' = TRUE
    /\ Return
    /\ UNCHANGED <<list, size, place, file, load>>

\* delete_menu() and list_remove_value()
Delete ==
    /\ pc = "details"
    /\ pc' = "remove"
    /\ cur' = head
    /\ UNCHANGED <<book, chosen, walk, file, load>>

\* A round of its loop that begins with the node n next and ends with the head h: after
\* the last one remove_contact() counts the contact out and delete_menu() returns.
Round(n, h) ==
    \/ n = h /\ size' = size - 1 /\ Return
    \/ n # h /\ cur' = n /\ UNCHANGED <<pc, size, chosen, walk>>

KeepsHead(c) == head
HeadWithout(c) == IF head = c THEN next[c] ELSE head

\* remove_node() for a node that is not the only one.  Node and contact are freed; their
\* fields are not read any more.
Unlink(c) ==
    /\ next' = [next EXCEPT ![prev[c]] = next[c], ![c] = Null]
    /\ prev' = [prev EXCEPT ![next[c]] = prev[c], ![c] = Null]
    /\ head' = HeadWithout(c)
    /\ lastname' = [lastname EXCEPT ![c] = Null]
    /\ place' = [d \in Contacts |->
                   IF d = c THEN 0 ELSE IF place[d] > place[c] THEN place[d] - 1 ELSE place[d]]

Remove ==
    /\ pc = "remove"
    /\ \/ /\ cur # chosen
          /\ Round(next[cur], head)
          /\ UNCHANGED <<list, lastname, place>>
       \/ /\ cur = chosen /\ next[cur] # cur
          /\ Unlink(cur)
          /\ Round(next[cur], HeadWithout(cur))
    /\ UNCHANGED <<renamed, file, load>>

\* The only node is freed and head is null: the loop goes on in the freed node, whose
\* next is the node itself or anything that free() left there.
RemoveOnly ==
    /\ pc = "remove"
    /\ cur = chosen /\ next[cur] = cur
    /\ head' = Null
    /\ place' = [place EXCEPT ![cur] = 0]
    /\ pc' = "freed"
    /\ UNCHANGED <<next, prev, lastname, size, renamed, cur, chosen, walk, file, load>>
-----------------------------------------------------------------------------
(* The end, with dump_data() or without it. *)

\* The process is gone, and its memory with it.
Gone ==
    /\ pc' = "down"
    /\ head' = Null
    /\ next' = [c \in Contacts |-> Null] /\ prev' = [c \in Contacts |-> Null]
    /\ lastname' = [c \in Contacts |-> Null]
    /\ size' = 0 /\ place' = [c \in Contacts |-> 0] /\ renamed' = FALSE
    /\ cur' = Null /\ chosen' = Null /\ asked' = NotAsked /\ left' = 0
    /\ at' = 0 /\ loading' = FALSE

\* creat() empties the file; then one contact after the other is written.
Appended == file
Emptied == <<>>

Quit ==
    /\ pc = "menu"
    /\ pc' = "dump"
    /\ file' = Emptied
    /\ cur' = head
    /\ UNCHANGED <<book, chosen, walk, load>>

Dump ==
    /\ pc = "dump"
    /\ cur # Null
    /\ file' = Append(file, Entry(cur))
    /\ cur' = Following(cur)
    /\ UNCHANGED <<pc, book, chosen, walk, load>>

\* delete_storage() frees one node after the other, the only one included.
Dumped ==
    /\ pc = "dump"
    /\ cur = Null
    /\ Gone
    /\ UNCHANGED file

\* The end of the input in any menu (READ_FAIL), a write() that fails, a signal, or what
\* comes of the use of a freed node: nothing more is written.
Die ==
    /\ pc # "down"
    /\ Gone
    /\ UNCHANGED file

Program ==
    \/ InsertFirst \/ InsertLoop \/ Load \/ Loaded \/ Walk \/ Found \/ NotFound
    \/ Remove \/ RemoveOnly \/ Dump \/ Dumped

User == Start \/ Add \/ Select \/ Search \/ Back \/ Edit \/ Delete \/ Quit \/ Die

Next == Program \/ User

Spec == Init /\ [][Next]_vars

\* The program runs; the user need not type anything.
FairSpec == Spec /\ WF_vars(Program)
-----------------------------------------------------------------------------
TypeOK ==
    /\ pc \in {"down", "load", "insert", "insertLoop", "menu", "walk", "details",
               "remove", "freed", "dump"}
    /\ head \in Pointers /\ cur \in Pointers /\ chosen \in Pointers
    /\ next \in [Contacts -> Pointers] /\ prev \in [Contacts -> Pointers]
    /\ lastname \in [Contacts -> LastNames \cup {Null}]
    /\ size \in Nat /\ left \in Nat /\ at \in Nat
    /\ asked \in [number : Nat, text : Texts \cup {AnyName}, searched : Texts \cup {AnyName}]
    /\ file \in Seq([who : Contacts, name : LastNames])
    /\ place \in [Contacts -> Nat]
    /\ loading \in BOOLEAN /\ renamed \in BOOLEAN

\* The nodes form one ring that begins at head, has the order of the places, and can be
\* followed both ways.
Ring ==
    /\ head = Null <=> Members = {}
    /\ head # Null => head \in Members /\ place[head] = 1
    /\ \A c \in Members :
          /\ next[c] \in Members /\ prev[next[c]] = c
          /\ prev[c] \in Members /\ next[prev[c]] = c
          /\ place[c] <= LastPlace
          /\ next[c] # head => place[next[c]] = place[c] + 1
    /\ \A c, d \in Members : place[c] = place[d] => c = d

\* What the program works on is in the list, or not in it yet; only when the one contact there
\* was has been removed is the loop of list_remove_value() in a freed node.
NothingFreed ==
    /\ pc \in {"insert", "insertLoop"} => chosen \in Contacts \ Members
    /\ pc = "insertLoop" => cur \in Members
    /\ pc = "details" => chosen \in Members
    /\ pc = "remove" => cur \in Members
    /\ pc = "freed" => cur = chosen /\ Members = {} /\ size = 1

\* storage->size, one too many between the removal and the end of its loop.
SizeExact ==
    LET leaving == pc = "freed" \/ (pc = "remove" /\ chosen \notin Members) IN
    size = LastPlace + (IF leaving THEN 1 ELSE 0)

Sorted == \A c, d \in Members : place[c] < place[d] => lastname[c] <= lastname[d]

\* The list of linked_list.c is whole through every insertion and removal, size counts it, and
\* it is sorted unless a last name was edited.  No loop stands on a freed node, but for that of
\* list_remove_value() after the only node was removed (linked_list.c:113-114).
ListIsSound ==
    /\ TypeOK
    /\ Ring
    /\ NothingFreed
    /\ SizeExact
    /\ ~renamed => Sorted

\* The contact c is the n-th whose name has the text t, in the order of the list.
IsTheNth(c, n, t) ==
    /\ c \in Members /\ Matches(c, t)
    /\ Cardinality({d \in Members : place[d] <= place[c] /\ Matches(d, t)}) = n

\* The contact that select_menu() opens has the number in the list that was typed, and the one
\* that search_menu() opens has it among the contacts found for the text searched for
\* (main.c:364-379, 445-462), if it happens that the last names with the number typed in them
\* are those with that text.  Without this condition: SearchOpensTheHit.
OpensTheOneAsked ==
    /\ pc = "details"
    /\ \A c \in Members : Matches(c, asked.text) <=> Matches(c, asked.searched)
    => IsTheNth(chosen, asked.number, asked.searched)

\* What search_menu() asks for (main.c:420-421, "Введите номер контакта") after it has listed
\* the contacts found with their numbers (main.c:404-410) is one of these numbers, "индекс
\* контакта в списке" (main.c:441).  The code opens another contact, or none.
SearchOpensTheHit == pc = "details" => IsTheNth(chosen, asked.number, asked.searched)

\* Who is in the list, with their names, and who is in the file.
Listed == {Entry(c) : c \in Members}
Stored == {file[i] : i \in 1..Len(file)}

\* A dump writes everybody in the list, once; loading has put in the list whom it has read,
\* with their names, everybody of the file if nothing fails, however long the last run lived
\* after its last dump (phonebook.c:41-86).
SavedAndLoaded ==
    /\ pc = "dump" /\ cur = Null => Stored = Listed /\ Len(file) = LastPlace
    /\ pc = "load" => Listed = {file[i] : i \in 1..at}

\* Deleting a contact (main.c:533-536) ends, unless it is the only one: then
\* list_remove_value() does not find its end.
DeletionEnds == pc = "remove" /\ size > 1 ~> pc \in {"menu", "down"}
=============================================================================
