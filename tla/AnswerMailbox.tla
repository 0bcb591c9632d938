--------------------------- MODULE AnswerMailbox ---------------------------
(***************************************************************************)
(* What the shared memory of 10/main.c promises to the two processes that  *)
(* use it.  The segment is a mailbox with one place for an array of        *)
(* numbers and one place for the answer to an array.  The writer puts      *)
(* arrays, numbered 1, 2, 3, ..., possibly over one that nobody has taken  *)
(* yet; the reader takes the array that is there and leaves its answer in  *)
(* exchange; the writer collects each answer once, and never puts an array *)
(* over an answer it has not collected.                                    *)
(***************************************************************************)
EXTENDS Naturals

VARIABLES
    slot,        \* the array waiting for the reader, 0 for none
    answer,      \* the array whose answer waits for the writer, 0 for none
    last,        \* the number of arrays put so far
    collected    \* the number of answers collected so far

avars == <<slot, answer, last, collected>>

AInit == /\ slot = 0 /\ answer = 0 
         /\ last = 0 /\ collected = 0

\* The writer's array replaces whatever array is still there, but no answer.
Put == /\ answer = 0
       /\ last' = last + 1
       /\ slot' = last + 1
       /\ UNCHANGED <<answer, collected>>

\* The reader leaves the answer to exactly the array that was there.
Take == /\ slot # 0
        /\ answer' = slot
        /\ slot' = 0
        /\ UNCHANGED <<last, collected>>

Collect == /\ answer # 0
           /\ answer' = 0
           /\ collected' = collected + 1
           /\ UNCHANGED <<slot, last>>

ANext == Put \/ Take \/ Collect

ASpec == AInit /\ [][ANext]_avars
=============================================================================
