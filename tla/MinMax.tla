------------------------------- MODULE MinMax -------------------------------
(***************************************************************************)
(* get_min_max(): the one computation of the shared-memory exercises, in   *)
(* its two versions.  10/main.c (and 11/main.c, the same lines) starts     *)
(* from the first number and tests for the maximum only what is not a new  *)
(* minimum, with no comparison; 10/obsolete/reader.c compares with both.   *)
(* One action per round of each version's loop, over the same array.       *)
(* produce_data() makes arrays of at least one number, none negative, so   *)
(* the early return for size < 1 is never taken.                           *)
(*                                                                         *)
(* LoopProofs extends three machines, so each has names with a prefix, MM. *)
(***************************************************************************)
EXTENDS Integers

CONSTANTS
    Numbers,    \* the numbers an array is made of; rand() is never negative
    MaxSize,    \* bound on the length of an array
    IntMax      \* INT_MAX

ASSUME NumbersAssumption == Numbers \subseteq 0..IntMax
ASSUME MaxSizeAssumption == MaxSize \in Nat
ASSUME IntMaxAssumption == IntMax \in Nat

VARIABLES
    size, numbers,      \* the array, fixed when the program starts
    i, min, max,        \* 10/main.c
    oi, omin, omax      \* 10/obsolete/reader.c

array == <<size, numbers>>
now == <<i, min, max>>
obsolete == <<oi, omin, omax>>
MMvars == <<array, now, obsolete>>

\* produce_data() chooses the array; both versions start on it.
MMInit ==
    /\ size \in 1..MaxSize
    /\ numbers \in [0..(size - 1) -> Numbers]
    /\ i = 0 /\ min = numbers[0] /\ max = numbers[0]
    /\ oi = 0 /\ omin = IntMax /\ omax = -1

Smaller(num) == num < min

\* The maximum after the number num: only the else sets it.  Without the else, every round does.
Always(num) == num
UnlessSmaller(num) == IF Smaller(num) THEN max ELSE num

NowStep ==
    /\ i < size
    /\ min' = IF Smaller(numbers[i]) THEN numbers[i] ELSE min
    /\ max' = UnlessSmaller(numbers[i])
    /\ i' = i + 1
    /\ UNCHANGED <<array, obsolete>>

\* The second comparison of the old version, and what the current one made of it.
Greater(num) == num > omax

ObsoleteStep ==
    /\ oi < size
    /\ omin' = IF numbers[oi] < omin THEN numbers[oi] ELSE omin
    /\ omax' = IF Greater(numbers[oi]) THEN numbers[oi] ELSE omax
    /\ oi' = oi + 1
    /\ UNCHANGED <<array, now>>

MMNext == NowStep \/ ObsoleteStep

MMSpec == MMInit /\ [][MMNext]_MMvars
-----------------------------------------------------------------------------
Least(m, n) == /\ \E k \in 0..(n - 1) : numbers[k] = m
               /\ \A k \in 0..(n - 1) : m <= numbers[k]

Greatest(m, n) == /\ \E k \in 0..(n - 1) : numbers[k] = m
                  /\ \A k \in 0..(n - 1) : numbers[k] <= m

(* The minimum of the current version is right after every round. *)
MinIsLeast == i > 0 => Least(min, i)

\* numbers[k] is smaller than all numbers before it; the first number is not.
NewMinimum(k) == k > 0 /\ \A j \in 0..(k - 1) : numbers[k] < numbers[j]

(* What the current version prints as the maximum: the last number of those that are no new
   minimum, and no other one.  For 3, 1 that is 3, for 1, 3, 2 it is 2. *)
MaxIsLastNonMinimum ==
    i > 0 => \E k \in 0..(i - 1) :
        /\ max = numbers[k]
        /\ ~NewMinimum(k)
        /\ \A l \in (k + 1)..(i - 1) : NewMinimum(l)

(* What get_min_max() in 10/main.c:288-306 returns after every round: the least number, and the
   last number that is no new minimum, which is the greatest one only if no other such number
   comes after it. *)
NowReturns == MinIsLeast /\ MaxIsLastNonMinimum

(* The version of 10/obsolete/reader.c finds both, although it starts from
   INT_MAX and -1: it relies on numbers between 0 and INT_MAX. *)
ObsoleteIsRight == oi > 0 => (Least(omin, oi) /\ Greatest(omax, oi))
=============================================================================
