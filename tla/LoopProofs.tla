---------------------------- MODULE LoopProofs ----------------------------
(***************************************************************************)
(* Proofs about the programs that are one loop of one process: the scan of *)
(* get_min_max(), for arrays of every length, the signal counter, for any  *)
(* number of signals, and the server around epoll, for any number of       *)
(* connections.  They share nothing but the lemmas about sequences and     *)
(* sets.                                                                   *)
(***************************************************************************)
EXTENDS MinMax, SignalCounter, EpollServer, FiniteSetTheorems, WellFoundedInduction, TLAPS

-----------------------------------------------------------------------------
(* Sequences and sets. *)

Owed(b) == IF b THEN 1 ELSE 0

LEMMA Pushed ==
    ASSUME NEW F, NEW q \in Seq(F), NEW f \in F
    PROVE  /\ <<f>> \o q \in Seq(F) /\ Len(<<f>> \o q) = Len(q) + 1
           /\ (<<f>> \o q)[1] = f
           /\ \A k \in 1..Len(q) : (<<f>> \o q)[k + 1] = q[k]
  OBVIOUS

LEMMA Popped ==
    ASSUME NEW F, NEW q \in Seq(F), q # <<>>
    PROVE  /\ Len(q) \in Nat \ {0} /\ Head(q) = q[1] /\ q[1] \in F
           /\ Tail(q) \in Seq(F) /\ Len(Tail(q)) = Len(q) - 1
           /\ \A k \in 1..(Len(q) - 1) : Tail(q)[k] = q[k + 1]
  OBVIOUS

LEMMA Appended ==
    ASSUME NEW F, NEW q \in Seq(F), NEW x \in F
    PROVE  /\ Append(q, x) \in Seq(F) /\ Len(Append(q, x)) = Len(q) + 1
           /\ Append(q, x)[Len(q) + 1] = x
           /\ \A k \in 1..Len(q) : Append(q, x)[k] = q[k]
  OBVIOUS

LEMMA Replaced ==
    ASSUME NEW F, NEW q \in Seq(F), NEW k \in 1..Len(q), NEW x \in F
    PROVE  /\ [q EXCEPT ![k] = x] \in Seq(F) /\ Len([q EXCEPT ![k] = x]) = Len(q)
           /\ [q EXCEPT ![k] = x][k] = x
           /\ \A l \in 1..Len(q) : l # k => [q EXCEPT ![k] = x][l] = q[l]
  OBVIOUS

LEMMA Fronted ==
    ASSUME NEW F, NEW q \in Seq(F), Len(q) >= 1
    PROVE  /\ SubSeq(q, 1, Len(q) - 1) \in Seq(F)
           /\ Len(SubSeq(q, 1, Len(q) - 1)) = Len(q) - 1
           /\ \A k \in 1..(Len(q) - 1) : SubSeq(q, 1, Len(q) - 1)[k] = q[k]
<1> DEFINE n == Len(q) - 1
<1>1. n \in Nat /\ n <= Len(q) /\ \A k \in 1..n : k \in 1..Len(q) /\ q[k] \in F
  OBVIOUS
<1> HIDE DEF n
<1>2. SubSeq(q, 1, n) = [k \in 1..n |-> q[k]]
  BY <1>1
<1>3. SubSeq(q, 1, n) \in Seq(F) /\ Len(SubSeq(q, 1, n)) = n
  BY <1>1, <1>2
<1> QED BY <1>2, <1>3 DEF n

LEMMA LeastExists ==
    ASSUME NEW T \in SUBSET Nat, T # {}
    PROVE  \E n \in T : \A m \in T : n <= m
<1> DEFINE R == OpToRel(<, Nat)
<1>1. IsWellFoundedOn(R, Nat)
  BY NatLessThanWellFounded
<1>2. \A m, n \in Nat : m < n => <<m, n>> \in R
  BY DEF OpToRel
<1> HIDE DEF R
<1>3. \E n \in T : \A m \in T : <<m, n>> \notin R
  BY <1>1, WFMin
<1>4. PICK n \in T : \A m \in T : <<m, n>> \notin R
  BY <1>3
<1>5. \A m \in T : ~(m < n)
  BY <1>2, <1>4
<1> QED BY <1>5

LEMMA MinIsThere ==
    ASSUME NEW T \in SUBSET Nat, T # {}
    PROVE  Min(T) \in T
  BY LeastExists DEF Min

-----------------------------------------------------------------------------
(* 10 and 11: get_min_max(). *)

\* The array is fixed and its elements are integers.
ArrayInv ==
    /\ size \in Nat \ {0}
    /\ numbers \in [0..(size - 1) -> Int]
    /\ \A k \in 0..(size - 1) : 0 <= numbers[k] /\ numbers[k] <= IntMax

\* The current version: before the first round both hold the first number.
NowInv ==
    /\ i \in 0..size /\ min \in Int /\ max \in Int
    /\ i = 0 => (min = numbers[0] /\ max = numbers[0])
    /\ MinIsLeast
    /\ MaxIsLastNonMinimum

\* The old version: before the first round it holds INT_MAX and -1.
ObsoleteInv ==
    /\ oi \in 0..size /\ omin \in Int /\ omax \in Int
    /\ oi = 0 => (omin = IntMax /\ omax = -1)
    /\ ObsoleteIsRight

MinMaxInv == ArrayInv /\ NowInv /\ ObsoleteInv

LEMMA InitMinMaxInv == MMInit => MinMaxInv
<1> SUFFICES ASSUME MMInit PROVE MinMaxInv
  OBVIOUS
<1>1. ArrayInv
  <2>1. size \in Nat \ {0} /\ numbers \in [0..(size - 1) -> Numbers]
    BY MaxSizeAssumption DEF MMInit
  <2>2. \A n \in Numbers : n \in Int /\ 0 <= n /\ n <= IntMax
    BY NumbersAssumption, IntMaxAssumption
  <2>. QED
    BY <2>1, <2>2 DEF ArrayInv
<1>2. NowInv
  BY <1>1 DEF MMInit, ArrayInv, NowInv, MinIsLeast, MaxIsLastNonMinimum
<1>3. ObsoleteInv
  BY <1>1, IntMaxAssumption DEF MMInit, ArrayInv, ObsoleteInv, ObsoleteIsRight
<1>. QED
  BY <1>1, <1>2, <1>3 DEF MinMaxInv

\* A round of the current version.
LEMMA NowStepInv ==
    ASSUME ArrayInv, NowInv, NowStep
    PROVE  NowInv'
<1>0. /\ i \in 0..(size - 1) /\ i' = i + 1 /\ i' \in 0..size
      /\ numbers' = numbers /\ size' = size /\ numbers[i] \in Int
      /\ min \in Int /\ max \in Int /\ min' \in Int /\ max' \in Int
  BY DEF ArrayInv, NowInv, NowStep, UnlessSmaller, array
<1>1. MinIsLeast'
  <2>1. CASE i = 0
    BY <1>0, <2>1 DEF ArrayInv, NowInv, NowStep, UnlessSmaller, Smaller, MinIsLeast, Least
  <2>2. CASE i > 0
    <3>1. Least(min, i)
      BY <2>2 DEF NowInv, MinIsLeast
    <3>2. min' = numbers[i] \/ min' = min
      BY DEF NowStep
    <3>3. min' <= numbers[i] /\ min' <= min
      BY <1>0 DEF NowStep, UnlessSmaller, Smaller
    <3>4. \E k \in 0..i : numbers[k] = min'
      BY <1>0, <3>1, <3>2 DEF Least
    <3>5. \A k \in 0..i : min' <= numbers[k]
      <4> TAKE k \in 0..i
      <4>1. numbers[k] \in Int
        BY <1>0 DEF ArrayInv
      <4>2. CASE k = i
        BY <3>3, <4>2
      <4>3. CASE k \in 0..(i - 1)
        BY <1>0, <3>1, <3>3, <4>1, <4>3 DEF Least
      <4>. QED
        BY <1>0, <4>2, <4>3
    <3>. QED
      BY <1>0, <3>4, <3>5 DEF MinIsLeast, Least
  <2>. QED
    BY <1>0, <2>1, <2>2
<1>2. MaxIsLastNonMinimum'
  <2> USE DEF NewMinimum
  <2>1. CASE ~Smaller(numbers[i])
    <3>1. max' = numbers[i] /\ ~(numbers[i] < min)
      BY <2>1 DEF NowStep, UnlessSmaller, Smaller
    <3>2. ASSUME i > 0
          PROVE  \E j \in 0..(i - 1) : ~(numbers[i] < numbers[j])
      BY <1>0, <3>1, <3>2 DEF NowInv, MinIsLeast, Least
    <3>3. ~NewMinimum(i)
      BY <1>0, <3>2
    <3>. QED
      BY <1>0, <3>1, <3>3 DEF MaxIsLastNonMinimum
  <2>2. CASE Smaller(numbers[i])
    <3>1. i > 0 /\ numbers[i] < min /\ max' = max
      BY <1>0, <2>2 DEF NowInv, NowStep, UnlessSmaller, Smaller
    <3>2. NewMinimum(i)
      BY <1>0, <3>1 DEF ArrayInv, NowInv, MinIsLeast, Least
    <3>3. PICK k \in 0..(i - 1) :
            /\ max = numbers[k] /\ ~NewMinimum(k)
            /\ \A l \in (k + 1)..(i - 1) : NewMinimum(l)
      BY <3>1 DEF NowInv, MaxIsLastNonMinimum
    <3>4. \A l \in (k + 1)..i : NewMinimum(l)
      BY <1>0, <3>2, <3>3
    <3>. QED
      BY <1>0, <3>1, <3>3, <3>4 DEF MaxIsLastNonMinimum
  <2>. QED
    BY <2>1, <2>2
<1>. QED
  BY <1>0, <1>1, <1>2 DEF NowInv

\* A round of the old version.
LEMMA ObsoleteStepInv ==
    ASSUME ArrayInv, ObsoleteInv, ObsoleteStep
    PROVE  ObsoleteInv'
<1>0. /\ oi \in 0..(size - 1) /\ oi' = oi + 1 /\ oi' \in 0..size
      /\ numbers' = numbers /\ size' = size
      /\ omin \in Int /\ omax \in Int /\ omin' \in Int /\ omax' \in Int
  BY DEF ArrayInv, ObsoleteInv, ObsoleteStep, array
<1>1. numbers[oi] \in Int /\ 0 <= numbers[oi] /\ numbers[oi] <= IntMax
  BY <1>0 DEF ArrayInv
<1>2. Least(omin, oi)' 
  <2>1. CASE oi = 0
    BY <1>0, <1>1, <2>1, IntMaxAssumption DEF ObsoleteInv, ObsoleteStep, Least
  <2>2. CASE oi > 0
    <3>1. Least(omin, oi)
      BY <2>2 DEF ObsoleteInv, ObsoleteIsRight
    <3>2. omin' \in {numbers[oi], omin} /\ omin' <= numbers[oi] /\ omin' <= omin
      BY <1>0, <1>1 DEF ObsoleteStep
    <3>3. \A k \in 0..oi : numbers[k] \in Int
      BY <1>0 DEF ArrayInv
    <3>. QED
      BY <1>0, <3>1, <3>2, <3>3 DEF Least
  <2>. QED
    BY <1>0, <2>1, <2>2
<1>3. Greatest(omax, oi)'
  <2>1. CASE oi = 0
    BY <1>0, <1>1, <2>1 DEF ObsoleteInv, ObsoleteStep, Greatest, Greater
  <2>2. CASE oi > 0
    <3>1. Greatest(omax, oi)
      BY <2>2 DEF ObsoleteInv, ObsoleteIsRight
    <3>2. omax' \in {numbers[oi], omax} /\ numbers[oi] <= omax' /\ omax <= omax'
      BY <1>0, <1>1 DEF ObsoleteStep, Greater
    <3>3. \A k \in 0..oi : numbers[k] \in Int
      BY <1>0 DEF ArrayInv
    <3>. QED
      BY <1>0, <3>1, <3>2, <3>3 DEF Greatest
  <2>. QED
    BY <1>0, <2>1, <2>2
<1>. QED
  BY <1>0, <1>2, <1>3 DEF ObsoleteInv, ObsoleteIsRight

LEMMA MinMaxInvariance == MMSpec => []MinMaxInv
<1>1. MinMaxInv /\ [MMNext]_MMvars => MinMaxInv'
  <2> SUFFICES ASSUME MinMaxInv, [MMNext]_MMvars PROVE MinMaxInv'
    OBVIOUS
  <2>1. CASE NowStep
    <3>1. ArrayInv' /\ ObsoleteInv'
      BY <2>1 DEF MinMaxInv, ArrayInv, ObsoleteInv, ObsoleteIsRight, Least, Greatest,
                  NowStep, array, obsolete
    <3>. QED
      BY <2>1, <3>1, NowStepInv DEF MinMaxInv
  <2>2. CASE ObsoleteStep
    <3>1. ArrayInv' /\ NowInv'
      BY <2>2 DEF MinMaxInv, ArrayInv, NowInv, MinIsLeast, MaxIsLastNonMinimum, NewMinimum, Least,
                  ObsoleteStep, array, now
    <3>. QED
      BY <2>2, <3>1, ObsoleteStepInv DEF MinMaxInv
  <2>3. CASE UNCHANGED MMvars
    BY <2>3 DEF MMvars, array, now, obsolete, MinMaxInv, ArrayInv, NowInv, ObsoleteInv,
                MinIsLeast, MaxIsLastNonMinimum, NewMinimum, ObsoleteIsRight, Least, Greatest
  <2>. QED
    BY <2>1, <2>2, <2>3 DEF MMNext
<1>. QED
  BY InitMinMaxInv, <1>1, PTL DEF MMSpec

(* 10/main.c prints the least number of the array as its minimum. *)
THEOREM MinimumCorrect == MMSpec => []MinIsLeast
<1>1. MinMaxInv => MinIsLeast
  BY DEF MinMaxInv, NowInv
<1>. QED
  BY MinMaxInvariance, <1>1, PTL

(* 10/main.c prints as its maximum the last number that was no new minimum. *)
THEOREM MaximumCharacterised == MMSpec => []MaxIsLastNonMinimum
<1>1. MinMaxInv => MaxIsLastNonMinimum
  BY DEF MinMaxInv, NowInv
<1>. QED
  BY MinMaxInvariance, <1>1, PTL

(* 10/obsolete/reader.c finds the minimum and the maximum. *)
THEOREM ObsoleteCorrect == MMSpec => []ObsoleteIsRight
<1>1. MinMaxInv => ObsoleteIsRight
  BY DEF MinMaxInv, ObsoleteInv
<1>. QED
  BY MinMaxInvariance, <1>1, PTL

(* 10/main.c: what the current version returns after every round, both numbers together, for an
   array of any length: the least number, and the last one that is no new minimum. *)
THEOREM CurrentVersion == MMSpec => []NowReturns
  BY MinimumCorrect, MaximumCharacterised, PTL DEF NowReturns

-----------------------------------------------------------------------------
(* 05: the signal counter. *)

\* The handlers that run, at most one per signal, and the one that has counted its signal
\* and not noted it yet.
Frames == [sig : Signals, step : {"count", "note"}]
SignalFrames ==
    /\ frames \in Seq(Frames) /\ Len(frames) <= 2
    /\ \A k, l \in 1..Len(frames) : frames[k].sig = frames[l].sig => k = l
InHandler(s, step) == \E k \in 1..Len(frames) : frames[k].sig = s /\ frames[k].step = step

SignalTypes ==
    /\ pc \in {"check", "write", "reset", "test", "sleep", "ended"}
    /\ pending \subseteq Signals
    /\ remains \in 0..255
    /\ sig_to_write \in Signals \cup {None} /\ (pc = "write" => sig_to_write # None)
    /\ sent \in [Signals -> 0..MaxSent]
    /\ handled \in [Signals -> Nat] /\ logged \in [Signals -> Nat]

\* remains is right for the first two SIGINTs, which is all that its wrapping needs.
Countdown ==
    /\ handled["SIGINT"] <= 2 => remains = 3 - handled["SIGINT"]
    /\ pc = "ended" => handled["SIGINT"] >= 3

\* A signal that was sent is pending, or in the handler, or handled, or was merged with one
\* that was pending; one that was handled is about to be noted, noted, logged, or was
\* overwritten by the next note.  A note that was written does not count while it is reset.
Sends == \A s \in Signals :
    handled[s] + Owed(s \in pending) + Owed(InHandler(s, "count")) <= sent[s]
Notes == \A s \in Signals :
    logged[s] + Owed(sig_to_write = s /\ pc # "reset") + Owed(InHandler(s, "note")) <= handled[s]

SignalInv == SignalTypes /\ SignalFrames /\ Countdown /\ Sends /\ Notes

\* The frames after a handler was called, has counted, and has returned.
LEMMA FramesPushed ==
    ASSUME SignalFrames, NEW s \in Signals, ~Running(s),
           frames' = <<[sig |-> s, step |-> "count"]>> \o frames
    PROVE  /\ SignalFrames'
           /\ \A t \in Signals : InHandler(t, "count")' <=> t = s \/ InHandler(t, "count")
           /\ \A t \in Signals : InHandler(t, "note")' <=> InHandler(t, "note")
<1> DEFINE f == [sig |-> s, step |-> "count"]
<1>1. f \in Frames /\ f.sig = s /\ f.step = "count"
  BY DEF Frames
<1>2. frames \in Seq(Frames) /\ Len(frames) \in Nat /\ DOMAIN frames = 1..Len(frames)
  BY DEF SignalFrames
<1>3. \A k \in 1..Len(frames) : frames[k].sig # s /\ frames[k] \in Frames
  BY <1>2 DEF Running
<1>0. frames' = <<f>> \o frames
  OBVIOUS
<1> HIDE DEF f
<1>4. /\ frames' \in Seq(Frames) /\ Len(frames') = Len(frames) + 1 /\ frames'[1] = f
      /\ \A k \in 1..Len(frames) : frames'[k + 1] = frames[k]
  BY <1>0, <1>1, <1>2, Pushed
<1>5. Len(frames) # 2
  <2> SUFFICES ASSUME Len(frames) = 2 PROVE FALSE
    OBVIOUS
  <2>1. frames[1].sig # s /\ frames[2].sig # s /\ frames[1].sig # frames[2].sig
    BY <1>3 DEF SignalFrames
  <2>2. frames[1].sig \in Signals /\ frames[2].sig \in Signals
    BY <1>3 DEF Frames
  <2> QED BY <2>1, <2>2 DEF Signals
<1>6. \A k \in 1..Len(frames') : k = 1 \/ (k - 1 \in 1..Len(frames) /\ frames'[k] = frames[k - 1])
  <2> TAKE k \in 1..Len(frames')
  <2>1. CASE k # 1
    <3>1. k - 1 \in 1..Len(frames) /\ k = (k - 1) + 1
      BY <1>2, <1>4, <2>1
    <3> QED BY <1>4, <3>1
  <2> QED BY <2>1
<1>7. SignalFrames'
  <2>1. \A k, l \in 1..Len(frames') : frames'[k].sig = frames'[l].sig => k = l
    <3> SUFFICES ASSUME NEW k \in 1..Len(frames'), NEW l \in 1..Len(frames'),
                        frames'[k].sig = frames'[l].sig
                 PROVE  k = l
      OBVIOUS
    <3>1. CASE k = 1 \/ l = 1
      BY <1>1, <1>3, <1>4, <1>6, <3>1
    <3>2. CASE k # 1 /\ l # 1
      <4>1. /\ k - 1 \in 1..Len(frames) /\ frames'[k] = frames[k - 1]
            /\ l - 1 \in 1..Len(frames) /\ frames'[l] = frames[l - 1]
        BY <1>6, <3>2
      <4>2. k - 1 = l - 1
        BY <4>1 DEF SignalFrames
      <4>3. k \in Int /\ l \in Int
        BY <1>2, <1>4
      <4> QED BY <4>2, <4>3
    <3> QED BY <3>1, <3>2
  <2> QED BY <1>2, <1>4, <1>5, <2>1 DEF SignalFrames
<1>8. ASSUME NEW t \in Signals, NEW step
      PROVE  InHandler(t, step)' <=> (t = s /\ step = "count") \/ InHandler(t, step)
  <2>1. InHandler(t, step)' => (t = s /\ step = "count") \/ InHandler(t, step)
    <3> SUFFICES ASSUME NEW k \in 1..Len(frames'), frames'[k].sig = t, frames'[k].step = step
                 PROVE  (t = s /\ step = "count") \/ InHandler(t, step)
      BY DEF InHandler
    <3>1. CASE k = 1
      BY <1>1, <1>4, <3>1
    <3>2. CASE k # 1
      BY <1>6, <3>2 DEF InHandler
    <3> QED BY <3>1, <3>2
  <2>2. t = s /\ step = "count" => InHandler(t, step)'
    BY <1>1, <1>2, <1>4 DEF InHandler
  <2>3. InHandler(t, step) => InHandler(t, step)'
    <3> SUFFICES ASSUME NEW k \in 1..Len(frames), frames[k].sig = t, frames[k].step = step
                 PROVE  \E l \in 1..Len(frames') : frames'[l].sig = t /\ frames'[l].step = step
      BY DEF InHandler
    <3>1. k + 1 \in 1..Len(frames') /\ frames'[k + 1] = frames[k]
      BY <1>2, <1>4
    <3> QED BY <3>1
  <2> QED BY <2>1, <2>2, <2>3
<1> QED BY <1>7, <1>8

LEMMA FramesCounted ==
    ASSUME SignalFrames, frames # <<>>, Head(frames).step = "count",
           frames' = [frames EXCEPT ![1].step = "note"]
    PROVE  /\ SignalFrames' /\ Head(frames).sig \in Signals
           /\ \A t \in Signals :
                 /\ InHandler(t, "count") <=> t = Head(frames).sig \/ InHandler(t, "count")'
                 /\ InHandler(t, "note")' <=> t = Head(frames).sig \/ InHandler(t, "note")
                 /\ t = Head(frames).sig => ~InHandler(t, "count")' /\ ~InHandler(t, "note")
<1>1. /\ frames \in Seq(Frames) /\ Len(frames) \in Nat /\ 1 \in 1..Len(frames)
      /\ DOMAIN frames = 1..Len(frames)
      /\ Head(frames) = frames[1] /\ \A k \in 1..Len(frames) : frames[k] \in Frames
  BY Popped DEF SignalFrames
<1> DEFINE g == [frames[1] EXCEPT !.step = "note"]
<1>2. g \in Frames /\ g.sig = frames[1].sig /\ g.step = "note"
  BY <1>1 DEF Frames
<1>3. frames' = [frames EXCEPT ![1] = g]
  BY <1>1
<1> HIDE DEF g
<1>4. /\ frames' \in Seq(Frames) /\ Len(frames') = Len(frames) /\ frames'[1] = g
      /\ \A k \in 1..Len(frames) : k # 1 => frames'[k] = frames[k]
  BY <1>1, <1>2, <1>3
<1>5. \A k \in 1..Len(frames) : frames'[k].sig = frames[k].sig
  BY <1>1, <1>2, <1>4
<1>6. SignalFrames'
  BY <1>4, <1>5 DEF SignalFrames
<1>7. \A k \in 1..Len(frames) : k # 1 => frames[k].sig # frames[1].sig
  BY <1>1 DEF SignalFrames
<1>8. Head(frames).sig \in Signals /\ frames[1].step = "count"
  BY <1>1 DEF Frames
<1> QED BY <1>1, <1>2, <1>4, <1>5, <1>6, <1>7, <1>8 DEF InHandler

LEMMA FramesReturned ==
    ASSUME SignalFrames, frames # <<>>, Head(frames).step = "note", frames' = Tail(frames)
    PROVE  /\ SignalFrames' /\ Head(frames).sig \in Signals
           /\ \A t \in Signals :
                 /\ InHandler(t, "count")' <=> InHandler(t, "count")
                 /\ InHandler(t, "note") <=> t = Head(frames).sig \/ InHandler(t, "note")'
                 /\ t = Head(frames).sig => ~InHandler(t, "note")'
<1>1. /\ frames \in Seq(Frames) /\ Len(frames) \in Nat /\ 1 \in 1..Len(frames)
      /\ Head(frames) = frames[1] /\ frames[1] \in Frames
  BY Popped DEF SignalFrames
<1>2. /\ frames' \in Seq(Frames) /\ Len(frames') = Len(frames) - 1
      /\ \A k \in 1..Len(frames') : k + 1 \in 1..Len(frames) /\ frames'[k] = frames[k + 1]
  BY <1>1, Popped DEF SignalFrames
<1>3. SignalFrames'
  <2>1. \A k, l \in 1..Len(frames') : frames'[k].sig = frames'[l].sig => k = l
    <3> TAKE k, l \in 1..Len(frames')
    <3> QED BY <1>1, <1>2 DEF SignalFrames
  <2> QED BY <1>1, <1>2, <2>1 DEF SignalFrames
<1>4. Head(frames).sig \in Signals /\ frames[1].step = "note"
  BY <1>1 DEF Frames
<1>5. \A k \in 1..Len(frames) : k = 1 \/ (k - 1 \in 1..Len(frames') /\ frames[k] = frames'[k - 1])
  <2> TAKE k \in 1..Len(frames)
  <2>1. CASE k # 1
    <3>1. k - 1 \in 1..Len(frames') /\ (k - 1) + 1 = k
      BY <1>1, <1>2, <2>1
    <3> QED BY <1>2, <3>1
  <2> QED BY <2>1
<1>6. \A k \in 1..Len(frames) : k # 1 => frames[k].sig # frames[1].sig
  BY <1>1 DEF SignalFrames
<1>7. ASSUME NEW t \in Signals, NEW step
      PROVE  /\ InHandler(t, step)' => InHandler(t, step)
             /\ InHandler(t, step) =>
                   InHandler(t, step)' \/ (t = frames[1].sig /\ step = "note")
             /\ t = frames[1].sig => ~InHandler(t, step)'
  BY <1>1, <1>2, <1>4, <1>5, <1>6 DEF InHandler
<1>8. InHandler(frames[1].sig, "note")
  BY <1>1, <1>4 DEF InHandler
<1> QED BY <1>1, <1>3, <1>4, <1>7, <1>8

LEMMA InitSignalInv == SCInit => SignalInv
<1> SUFFICES ASSUME SCInit PROVE SignalInv
  OBVIOUS
<1>1. SignalTypes /\ Countdown
  BY MaxSentAssumption DEF SCInit, SignalTypes, Countdown, Signals, SIGINT, SIGQUIT, None
<1>2. SignalFrames /\ \A s \in Signals : ~InHandler(s, "count") /\ ~InHandler(s, "note")
  BY DEF SCInit, SignalFrames, InHandler
<1>3. Sends /\ Notes
  BY <1>2 DEF SCInit, Sends, Notes, Owed, Signals, SIGINT, SIGQUIT, None
<1> QED BY <1>1, <1>2, <1>3 DEF SignalInv

\* A step that touches neither the handlers nor the signals.
LEMMA SignalMainStep ==
    ASSUME SignalInv, Main
    PROVE  SignalInv'
<1>1. frames' = frames /\ pending' = pending /\ remains' = remains
      /\ handled' = handled /\ sent' = sent
  BY DEF Main, Check, Write, Reset, Test, Sleep, hist
<1>2. SignalFrames' /\ Sends'
  BY <1>1 DEF SignalInv, SignalFrames, Sends, InHandler
<1>3. \A s \in Signals : InHandler(s, "note")' <=> InHandler(s, "note")
  BY <1>1 DEF InHandler
<1>4. CASE Check
  <2>1. logged' = logged /\ sig_to_write' = sig_to_write /\ pc = "check"
        /\ pc' = (IF sig_to_write # None THEN "write" ELSE "test")
    BY <1>4 DEF Check, At, WriteAndReset, hist
  <2> QED BY <1>1, <1>2, <1>3, <2>1 DEF SignalInv, SignalTypes, Countdown, Notes, Owed
<1>5. CASE Write
  <2>1. pc = "write" /\ pc' = "reset" /\ sig_to_write' = sig_to_write
        /\ sig_to_write \in Signals /\ logged' = [logged EXCEPT ![sig_to_write] = @ + 1]
    BY <1>5 DEF Write, At, SignalInv, SignalTypes
  <2>2. SignalTypes' /\ Countdown'
    BY <1>1, <2>1 DEF SignalInv, SignalTypes, Countdown
  <2>3. Notes'
    <3> SUFFICES ASSUME NEW s \in Signals
                 PROVE  logged'[s] + 0 + Owed(InHandler(s, "note")) <= handled[s]
      BY <1>1, <1>3, <2>1 DEF Notes, Owed
    <3>1. /\ logged[s] \in Nat /\ handled[s] \in Nat
          /\ logged[s] + Owed(sig_to_write = s /\ pc # "reset") + Owed(InHandler(s, "note"))
                <= handled[s]
      BY DEF SignalInv, SignalTypes, Notes
    <3>2. logged'[s] = logged[s] + Owed(sig_to_write = s /\ pc # "reset")
      BY <2>1, <3>1 DEF SignalInv, SignalTypes, Owed
    <3> QED BY <3>1, <3>2 DEF Owed
  <2> QED BY <1>2, <2>2, <2>3 DEF SignalInv
<1>6. CASE Reset
  <2>1. pc = "reset" /\ pc' = "test" /\ sig_to_write' = None /\ logged' = logged
    BY <1>6 DEF Reset, At, hist, Cleared
  <2>2. \A s \in Signals : s # None
    BY DEF Signals, None, SIGINT, SIGQUIT
  <2> QED BY <1>1, <1>2, <1>3, <2>1, <2>2 DEF SignalInv, SignalTypes, Countdown, Notes, Owed
<1>7. CASE Test
  <2>1. pc = "test" /\ sig_to_write' = sig_to_write /\ logged' = logged
        /\ pc' = (IF remains = 0 THEN "ended" ELSE "sleep")
    BY <1>7 DEF Test, At, hist, NoneLeft
  <2>2. "SIGINT" \in Signals
    BY DEF Signals, SIGINT
  <2>3. pc' = "ended" => handled["SIGINT"] >= 3
    BY <2>1, <2>2 DEF SignalInv, SignalTypes, Countdown
  <2> QED BY <1>1, <1>2, <1>3, <2>1, <2>3 DEF SignalInv, SignalTypes, Countdown, Notes, Owed
<1>8. CASE Sleep
  <2>1. pc = "sleep" /\ pc' = "check" /\ sig_to_write' = sig_to_write /\ logged' = logged
    BY <1>8 DEF Sleep, At, hist
  <2> QED BY <1>1, <1>2, <1>3, <2>1 DEF SignalInv, SignalTypes, Countdown, Notes, Owed
<1> QED BY <1>4, <1>5, <1>6, <1>7, <1>8 DEF Main

LEMMA SignalSendStep ==
    ASSUME SignalInv, NEW s \in Signals, Send(s)
    PROVE  SignalInv'
<1>1. /\ pc' = pc /\ frames' = frames /\ remains' = remains /\ sig_to_write' = sig_to_write
      /\ handled' = handled /\ logged' = logged
      /\ sent' = [sent EXCEPT ![s] = @ + 1] /\ sent[s] < MaxSent /\ pending' = pending \cup {s}
  BY DEF Send
<1>2. SignalTypes'
  BY <1>1, MaxSentAssumption DEF SignalInv, SignalTypes
<1>3. SignalFrames' /\ Countdown' /\ Notes'
  BY <1>1 DEF SignalInv, SignalFrames, Countdown, Notes, InHandler
<1>4. Sends'
  <2> SUFFICES ASSUME NEW t \in Signals
               PROVE  handled[t] + Owed(t \in pending') + Owed(InHandler(t, "count")) <= sent'[t]
    BY <1>1 DEF Sends, InHandler
  <2>1. handled[t] \in Nat /\ sent[t] \in Nat
        /\ handled[t] + Owed(t \in pending) + Owed(InHandler(t, "count")) <= sent[t]
    BY MaxSentAssumption DEF SignalInv, SignalTypes, Sends
  <2>2. sent'[t] = IF t = s THEN sent[t] + 1 ELSE sent[t]
    BY <1>1 DEF SignalInv, SignalTypes
  <2>3. t # s => (t \in pending' <=> t \in pending)
    BY <1>1
  <2> QED BY <2>1, <2>2, <2>3 DEF Owed
<1> QED BY <1>2, <1>3, <1>4 DEF SignalInv

LEMMA SignalDeliverStep ==
    ASSUME SignalInv, NEW s \in Signals, Deliver(s)
    PROVE  SignalInv'
<1>1. /\ pc' = pc /\ remains' = remains /\ sig_to_write' = sig_to_write
      /\ handled' = handled /\ logged' = logged /\ sent' = sent
      /\ s \in pending /\ pending' = pending \ {s} /\ ~Running(s)
      /\ frames' = <<[sig |-> s, step |-> "count"]>> \o frames
  BY DEF Deliver, hist
<1>2. /\ SignalFrames'
      /\ \A t \in Signals : InHandler(t, "count")' <=> t = s \/ InHandler(t, "count")
      /\ \A t \in Signals : InHandler(t, "note")' <=> InHandler(t, "note")
  BY <1>1, FramesPushed DEF SignalInv
<1>3. SignalTypes' /\ Countdown'
  BY <1>1 DEF SignalInv, SignalTypes, Countdown
<1>4. Notes'
  BY <1>1, <1>2 DEF SignalInv, Notes, Owed
<1>5. ~InHandler(s, "count")
  <2>1. DOMAIN frames = 1..Len(frames)
    BY DEF SignalInv, SignalFrames
  <2> QED BY <1>1, <2>1 DEF InHandler, Running
<1>6. Sends'
  <2> SUFFICES ASSUME NEW t \in Signals
               PROVE  handled[t] + Owed(t \in pending') + Owed(InHandler(t, "count")') <= sent[t]
    BY <1>1 DEF Sends
  <2>1. handled[t] \in Nat /\ sent[t] \in Nat
        /\ handled[t] + Owed(t \in pending) + Owed(InHandler(t, "count")) <= sent[t]
    BY MaxSentAssumption DEF SignalInv, SignalTypes, Sends
  <2>2. Owed(t \in pending') + Owed(InHandler(t, "count")')
          = Owed(t \in pending) + Owed(InHandler(t, "count"))
    <3>1. CASE t = s
      BY <1>1, <1>2, <1>5, <3>1 DEF Owed
    <3>2. CASE t # s
      BY <1>1, <1>2, <3>2 DEF Owed
    <3> QED BY <3>1, <3>2
  <2> QED BY <2>1, <2>2 DEF Owed
<1> QED BY <1>2, <1>3, <1>4, <1>6 DEF SignalInv

LEMMA Wrapped ==
    ASSUME NEW n \in 0..255
    PROVE  (n - 1) % 256 \in 0..255 /\ (n \in 1..255 => (n - 1) % 256 = n - 1)
<1>1. \A m \in Int : m % 256 \in 0..255
  OBVIOUS
<1>2. \A m \in 0..255 : m % 256 = m
  OBVIOUS
<1>3. n - 1 \in Int /\ (n \in 1..255 => n - 1 \in 0..255)
  OBVIOUS
<1>4. (n - 1) % 256 \in 0..255
  BY <1>1, <1>3, Zenon
<1>5. n \in 1..255 => (n - 1) % 256 = n - 1
  BY <1>2, <1>3, Zenon
<1> QED BY <1>4, <1>5

LEMMA SignalCountStep ==
    ASSUME SignalInv, Count
    PROVE  SignalInv'
<1> DEFINE s == Head(frames).sig
<1>1. /\ pc' = pc /\ pending' = pending /\ sig_to_write' = sig_to_write
      /\ logged' = logged /\ sent' = sent /\ handled' = [handled EXCEPT ![s] = @ + 1]
      /\ remains' = IF s = "SIGINT" THEN (remains - 1) % 256 ELSE remains
      /\ frames # <<>> /\ Head(frames).step = "count"
      /\ frames' = [frames EXCEPT ![1].step = "note"]
  BY DEF Count, Counts, Decremented, SIGINT
<1>2. /\ SignalFrames' /\ s \in Signals
      /\ \A t \in Signals :
            /\ InHandler(t, "count") <=> t = s \/ InHandler(t, "count")'
            /\ InHandler(t, "note")' <=> t = s \/ InHandler(t, "note")
            /\ t = s => ~InHandler(t, "count")' /\ ~InHandler(t, "note")
  BY <1>1, FramesCounted DEF SignalInv
<1> HIDE DEF s
<1>3. \A t \in Signals : /\ handled[t] \in Nat /\ logged[t] \in Nat /\ sent[t] \in Nat
                           /\ handled'[t] = IF t = s THEN handled[t] + 1 ELSE handled[t]
  BY <1>1, <1>2, MaxSentAssumption DEF SignalInv, SignalTypes
<1>4. SignalTypes'
  <2>1. remains' \in 0..255
    BY <1>1, Wrapped DEF SignalInv, SignalTypes
  <2> QED BY <1>1, <1>2, <2>1 DEF SignalInv, SignalTypes
<1>5. Countdown'
  <2>1. "SIGINT" \in Signals
    BY DEF Signals, SIGINT
  <2>2. CASE s = "SIGINT"
    <3>1. remains \in 0..255 /\ remains' = (remains - 1) % 256
      BY <1>1, <2>2 DEF SignalInv, SignalTypes
    <3>2. remains \in 1..255 => remains' = remains - 1
      BY <3>1, Wrapped
    <3>3. handled["SIGINT"] \in Nat /\ handled'["SIGINT"] = handled["SIGINT"] + 1
      BY <1>3, <2>1, <2>2
    <3>4. handled["SIGINT"] <= 2 => remains = 3 - handled["SIGINT"]
      BY DEF SignalInv, Countdown
    <3>5. handled'["SIGINT"] <= 2 => remains' = 3 - handled'["SIGINT"]
      BY <3>2, <3>3, <3>4
    <3>6. pc' = "ended" => handled'["SIGINT"] >= 3
      BY <1>1, <3>3 DEF SignalInv, Countdown
    <3> QED BY <3>5, <3>6 DEF Countdown
  <2>3. CASE s # "SIGINT"
    BY <1>1, <1>3, <2>1, <2>3 DEF SignalInv, Countdown
  <2> QED BY <2>2, <2>3
<1>6. Sends'
  <2> SUFFICES ASSUME NEW t \in Signals
               PROVE  handled'[t] + Owed(t \in pending) + Owed(InHandler(t, "count")') <= sent[t]
    BY <1>1 DEF Sends
  <2>1. handled[t] + Owed(t \in pending) + Owed(InHandler(t, "count")) <= sent[t]
    BY DEF SignalInv, Sends
  <2>2. handled'[t] + Owed(InHandler(t, "count")') = handled[t] + Owed(InHandler(t, "count"))
    BY <1>2, <1>3 DEF Owed
  <2> QED BY <1>3, <2>1, <2>2 DEF Owed
<1>7. Notes'
  <2> SUFFICES ASSUME NEW t \in Signals
               PROVE  logged[t] + Owed(sig_to_write = t /\ pc # "reset")
                         + Owed(InHandler(t, "note")') <= handled'[t]
    BY <1>1 DEF Notes
  <2>1. logged[t] + Owed(sig_to_write = t /\ pc # "reset") + Owed(InHandler(t, "note"))
           <= handled[t]
    BY DEF SignalInv, Notes
  <2>2. handled'[t] - handled[t] = Owed(InHandler(t, "note")') - Owed(InHandler(t, "note"))
    BY <1>2, <1>3 DEF Owed
  <2> QED BY <1>3, <2>1, <2>2 DEF Owed
<1> QED BY <1>2, <1>4, <1>5, <1>6, <1>7 DEF SignalInv

LEMMA SignalNoteStep ==
    ASSUME SignalInv, Note
    PROVE  SignalInv'
<1> DEFINE s == Head(frames).sig
<1>1. /\ pc' = pc /\ pending' = pending /\ sig_to_write' = s /\ remains' = remains
      /\ logged' = logged /\ sent' = sent /\ handled' = handled
      /\ frames # <<>> /\ Head(frames).step = "note" /\ frames' = Tail(frames)
  BY DEF Note, hist
<1>2. /\ SignalFrames' /\ s \in Signals
      /\ \A t \in Signals :
            /\ InHandler(t, "count")' <=> InHandler(t, "count")
            /\ InHandler(t, "note") <=> t = s \/ InHandler(t, "note")'
            /\ t = s => ~InHandler(t, "note")'
  BY <1>1, FramesReturned DEF SignalInv
<1> HIDE DEF s
<1>3. SignalTypes' /\ Countdown'
  <2>1. s # None
    BY <1>2 DEF Signals, None, SIGINT, SIGQUIT
  <2> QED BY <1>1, <1>2, <2>1 DEF SignalInv, SignalTypes, Countdown
<1>4. Sends'
  BY <1>1, <1>2 DEF SignalInv, Sends, Owed
<1>5. Notes'
  <2> SUFFICES ASSUME NEW t \in Signals
               PROVE  logged[t] + Owed(s = t /\ pc # "reset") + Owed(InHandler(t, "note")')
                         <= handled[t]
    BY <1>1 DEF Notes
  <2>1. /\ logged[t] \in Nat /\ handled[t] \in Nat
        /\ logged[t] + Owed(sig_to_write = t /\ pc # "reset") + Owed(InHandler(t, "note"))
             <= handled[t]
    BY DEF SignalInv, SignalTypes, Notes
  <2>2. Owed(s = t /\ pc # "reset") + Owed(InHandler(t, "note")') <= Owed(InHandler(t, "note"))
    BY <1>2 DEF Owed
  <2> QED BY <2>1, <2>2 DEF Owed
<1> QED BY <1>2, <1>3, <1>4, <1>5 DEF SignalInv

LEMMA SignalInvariance == SCSpec => []SignalInv
<1>1. SignalInv /\ [SCNext]_SCvars => SignalInv'
  <2> SUFFICES ASSUME SignalInv, [SCNext]_SCvars PROVE SignalInv'
    OBVIOUS
  <2>1. CASE Handler
    BY <2>1, SignalCountStep, SignalNoteStep, SignalDeliverStep DEF Handler
  <2>2. CASE Main
    BY <2>2, SignalMainStep
  <2>3. CASE \E s \in Signals : Send(s)
    BY <2>3, SignalSendStep
  <2>4. CASE UNCHANGED SCvars
    BY <2>4 DEF SCvars, SignalInv, SignalTypes, SignalFrames, Countdown, Sends, Notes, InHandler
  <2> QED BY <2>1, <2>2, <2>3, <2>4 DEF SCNext
<1> QED BY InitSignalInv, <1>1, PTL DEF SCSpec

(* The loop of 05/main.c never ends before the third SIGINT was handled and never logs a signal
   that was not, however often each signal is sent and wherever the handlers come. *)
THEOREM SignalsAreReal == SCSpec => []NothingInvented
<1>1. SignalInv => NothingInvented
  <2> SUFFICES ASSUME SignalInv PROVE NothingInvented
    OBVIOUS
  <2>1. \A s \in Signals : handled[s] <= MaxSent /\ logged[s] <= handled[s]
    BY MaxSentAssumption DEF SignalInv, SignalTypes, Sends, Notes, Owed
  <2>2. handled \in [Signals -> 0..MaxSent] /\ logged \in [Signals -> 0..MaxSent]
    BY <2>1, MaxSentAssumption DEF SignalInv, SignalTypes
  <2>3. frames \in BoundedSeq(Frames, 2)
    <3>1. frames \in Seq(Frames) /\ Len(frames) <= 2 /\ Len(frames) >= 0
      BY DEF SignalInv, SignalFrames
    <3>3. Len(frames) \in Nat
      BY <3>1
    <3>2. frames \in [1..Len(frames) -> Frames]
      BY <3>1
    <3>4. Len(frames) \in 0..2
      <4>1. \A n \in Nat : n <= 2 => n \in 0..2
        OBVIOUS
      <4> QED BY <3>1, <3>3, <4>1, Zenon
    <3> QED BY <3>2, <3>4 DEF BoundedSeq, SeqOf
  <2>4. SCTypeOK
    BY <2>2, <2>3 DEF SignalInv, SignalTypes, SCTypeOK, Frames
  <2> QED BY <2>1, <2>4 DEF SignalInv, Countdown, NothingInvented, EndsByThree,
                            LinesAreTrue, SIGINT
<1> QED BY SignalInvariance, <1>1, PTL

-----------------------------------------------------------------------------
(* 15: the server around epoll. *)

Records == [sockfd : Fds \cup {NoSocket}, state : States, fd : Fds \cup {0}]
Files == {f \in Fds : fdTable[f] = File}
Unopened == {k \in 1..Len(clients) : clients[k].sockfd # NoSocket /\ clients[k].fd = 0}

EpollTypes ==
    /\ connected \in 0..MaxConns
    /\ backlog \in Seq(1..connected)
    /\ gone \subseteq 1..connected
    /\ edge \in BOOLEAN /\ undefined \in BOOLEAN /\ down \in BOOLEAN /\ misremoved \in BOOLEAN
    /\ batch \subseteq Fds \cup {Listener}
    /\ fdTable \in [Fds -> Conns \cup {Free, File}]
    /\ clients \in Seq(Records)

\* Each edge that epoll still holds, and each one that it reported, has a connection of its own.
Edges == Len(backlog) >= Owed(edge) + Owed(Listener \in batch)

\* A connection that was accepted uses at most two descriptors: a file is opened once for a
\* record, which had none before.
OpenedOnce ==
    \A k \in 1..Len(clients) :
        clients[k].state \in {"ST_UNASSIGNED", "FILE_WAIT_NAME"} => clients[k].fd = 0
Descriptors ==
    /\ Len(backlog) \in 0..connected
    /\ Cardinality(OpenFds) <= connected - Len(backlog)
    /\ Cardinality(Files) + Cardinality(Unopened) <= connected - Len(backlog)

\* No two records have a descriptor in common.
Apart ==
    \A k, l \in 1..Len(clients) :
        k # l => /\ clients[k].sockfd # NoSocket => clients[k].sockfd # clients[l].sockfd
                 /\ clients[k].fd # 0 => clients[k].fd # clients[l].fd

\* What TableExact says, and that every open connection has a record and every event a socket.
Table ==
    /\ ~undefined
    /\ OpenFds = {clients[k].sockfd : k \in 1..Len(clients)} \ {NoSocket}
    /\ Files = {clients[k].fd : k \in 1..Len(clients)} \ {0}
    /\ Apart
    /\ batch \ {Listener} \subseteq OpenFds

EpollInv ==
    EpollTypes /\ Edges /\ OpenedOnce /\ Descriptors /\ (~misremoved => Table)

LEMMA FdSets ==
    ASSUME EpollTypes
    PROVE  /\ Fds \subseteq Nat /\ IsFiniteSet(Fds) /\ Cardinality(Fds) = MaxFd
           /\ IsFiniteSet(OpenFds) /\ IsFiniteSet(Files) /\ IsFiniteSet(Unopened)
           /\ Cardinality(OpenFds) \in Nat /\ Cardinality(Files) \in Nat
           /\ Cardinality(Unopened) \in Nat
           /\ Listener \notin Fds /\ Len(backlog) \in Nat /\ Len(clients) \in Nat
<1>1. Fds \subseteq Nat /\ IsFiniteSet(Fds) /\ Cardinality(Fds) = MaxFd
  BY FS_Interval, MaxFdAssumption DEF Fds
<1>2. Len(backlog) \in Nat /\ Len(clients) \in Nat
  BY DEF EpollTypes
<1>3. IsFiniteSet(1..Len(clients))
  BY <1>2, FS_Interval
<1>4. OpenFds \in SUBSET Fds /\ Files \in SUBSET Fds /\ Unopened \in SUBSET (1..Len(clients))
  BY DEF OpenFds, Files, Unopened
<1>5. IsFiniteSet(OpenFds) /\ IsFiniteSet(Files) /\ IsFiniteSet(Unopened)
  BY <1>1, <1>3, <1>4, FS_Subset
<1> QED BY <1>1, <1>2, <1>5, FS_CardinalityType DEF Fds, Listener

\* open() and accept() find a free descriptor.
LEMMA FreeFd ==
    ASSUME EpollTypes,
           Cardinality(OpenFds) + Cardinality(Files) < MaxFd
    PROVE  LowestFree \in Fds /\ fdTable[LowestFree] = Free
<1> DEFINE T == {f \in Fds : fdTable[f] = Free}
<1>1. T # {}
  <2> SUFFICES ASSUME T = {} PROVE FALSE
    OBVIOUS
  <2>1. Fds \in SUBSET (OpenFds \cup Files)
    BY DEF EpollTypes, OpenFds, Files
  <2>2. /\ IsFiniteSet(OpenFds \cup Files)
        /\ Cardinality(OpenFds \cup Files) <= Cardinality(OpenFds) + Cardinality(Files)
    <3>1. OpenFds \cap Files = {}
      BY MaxFdAssumption DEF OpenFds, Files, Conns, File
    <3>2. IsFiniteSet(OpenFds) /\ IsFiniteSet(Files)
      BY FdSets
    <3>3. /\ IsFiniteSet(OpenFds \cup Files)
          /\ Cardinality(OpenFds \cup Files)
                = Cardinality(OpenFds) + Cardinality(Files) - Cardinality(OpenFds \cap Files)
      BY <3>2, FS_Union
    <3>4. Cardinality(OpenFds \cap Files) = 0
      BY <3>1, FS_EmptySet
    <3> QED BY <3>3, <3>4, FdSets
  <2>3. Cardinality(Fds) <= Cardinality(OpenFds \cup Files)
    BY <2>1, <2>2, FS_Subset
  <2>4. Cardinality(OpenFds \cup Files) \in Nat
    BY <2>2, FS_CardinalityType
  <2> QED BY <2>2, <2>3, <2>4, FdSets, MaxFdAssumption
<1>2. T \in SUBSET Nat
  BY FdSets
<1>3. LowestFree \in T
  BY <1>1, <1>2, MinIsThere DEF LowestFree
<1> QED BY <1>3

\* The search of the array.
LEMMA Found ==
    ASSUME EpollTypes, NEW f \in Fds
    PROVE  /\ ClientIdx(f) # 0 => /\ ClientIdx(f) \in 1..Len(clients)
                                    /\ clients[ClientIdx(f)].sockfd = f
           /\ (\E k \in 1..Len(clients) : clients[k].sockfd = f) => ClientIdx(f) # 0
<1> DEFINE found == {k \in DOMAIN clients : clients[k].sockfd = f}
<1>1. DOMAIN clients = 1..Len(clients) /\ Len(clients) \in Nat
  BY DEF EpollTypes
<1>2. found \in SUBSET Nat
  BY <1>1
<1>3. ClientIdx(f) = IF found = {} THEN 0 ELSE Min(found)
  BY DEF ClientIdx
<1>4. found # {} => Min(found) \in found
  BY <1>2, MinIsThere
<1> QED BY <1>1, <1>3, <1>4

LEMMA InitEpollInv == ESInit => EpollInv
<1> SUFFICES ASSUME ESInit PROVE EpollInv
  OBVIOUS
<1>1. /\ connected = 0 /\ gone = {} /\ backlog = <<>> /\ edge = FALSE /\ batch = {}
      /\ fdTable = [f \in Fds |-> Free] /\ clients = <<>>
      /\ undefined = FALSE /\ down = FALSE /\ misremoved = FALSE
  BY DEF ESInit
<1>2. OpenFds = {} /\ Files = {} /\ Unopened = {}
  BY <1>1, MaxFdAssumption DEF OpenFds, Conns, Free, File, Files, Unopened
<1>3. EpollTypes
  <2>1. backlog \in Seq(1..connected) /\ clients \in Seq(Records)
    BY <1>1
  <2>2. fdTable \in [Fds -> Conns \cup {Free, File}]
    BY <1>1
  <2>3. edge \in BOOLEAN /\ undefined \in BOOLEAN /\ down \in BOOLEAN /\ misremoved \in BOOLEAN
    BY <1>1
  <2>4. connected \in 0..MaxConns
    BY <1>1, MaxFdAssumption
  <2> QED BY <1>1, <2>1, <2>2, <2>3, <2>4, Zenon DEF EpollTypes
<1>4. Edges /\ OpenedOnce
  BY <1>1 DEF Edges, Owed, OpenedOnce
<1>5. Descriptors
  BY <1>1, <1>2, FS_EmptySet DEF Descriptors
<1>6. Table
  BY <1>1, <1>2, FS_EmptySet DEF Table, Apart
<1> QED BY <1>3, <1>4, <1>5, <1>6 DEF EpollInv

\* The steps of the peers.
LEMMA EpollPeerStep ==
    ASSUME EpollInv, Connect \/ \E c \in Conns : Hangup(c)
    PROVE  EpollInv'
<1>1. /\ fdTable' = fdTable /\ clients' = clients /\ undefined' = undefined
      /\ misremoved' = misremoved /\ batch' = batch /\ down' = down
  BY DEF Connect, Hangup
<1>2. OpenFds' = OpenFds /\ Files' = Files /\ Unopened' = Unopened
  BY <1>1 DEF OpenFds, Files, Unopened
<1>3. OpenedOnce' /\ (~misremoved' => Table')
  BY <1>1, <1>2 DEF EpollInv, OpenedOnce, Table, Apart
<1>4. CASE Connect
  <2>1. /\ connected < MaxConns /\ connected' = connected + 1 /\ gone' = gone
        /\ backlog' = Append(backlog, connected') /\ edge' = TRUE
    BY <1>4 DEF Connect
  <2>2. connected' \in 1..MaxConns /\ backlog \in Seq(1..connected') /\ connected' \in 1..connected'
    BY <2>1, MaxFdAssumption DEF EpollInv, EpollTypes
  <2>3. backlog' \in Seq(1..connected') /\ Len(backlog') = Len(backlog) + 1
    BY <2>1, <2>2, Appended
  <2>4. EpollTypes'
    BY <1>1, <2>1, <2>2, <2>3 DEF EpollInv, EpollTypes
  <2>5. Edges'
    BY <1>1, <2>1, <2>3, FdSets DEF EpollInv, Edges, Owed
  <2>6. Descriptors'
    BY <1>2, <2>1, <2>2, <2>3 DEF EpollInv, EpollTypes, Descriptors
  <2> QED BY <1>3, <2>4, <2>5, <2>6 DEF EpollInv
<1>5. CASE \E c \in Conns : Hangup(c)
  <2>1. connected' = connected /\ backlog' = backlog /\ edge' = edge /\ gone' \subseteq 1..connected
    BY <1>5 DEF Hangup, EpollInv, EpollTypes
  <2> QED BY <1>1, <1>2, <1>3, <2>1 DEF EpollInv, EpollTypes, Edges, Descriptors
<1> QED BY <1>4, <1>5

LEMMA EpollWaitStep ==
    ASSUME EpollInv, Wait
    PROVE  EpollInv'
<1>1. /\ connected' = connected /\ gone' = gone /\ backlog' = backlog /\ fdTable' = fdTable
      /\ clients' = clients /\ undefined' = undefined /\ misremoved' = misremoved
      /\ down' = down /\ edge' = FALSE /\ batch = {}
  BY DEF Wait, ReportedOnce
<1>2. OpenFds' = OpenFds /\ Files' = Files /\ Unopened' = Unopened
  BY <1>1 DEF OpenFds, Files, Unopened
<1>3. batch' \subseteq OpenFds \cup {Listener} /\ (Listener \in batch' => edge)
  <2>1. Listener \notin OpenFds
    BY DEF OpenFds, Fds, Listener
  <2> QED BY <2>1 DEF Wait, EveryTime
<1>4. EpollTypes'
  BY <1>1, <1>3 DEF EpollInv, EpollTypes, OpenFds
<1>5. Edges'
  BY <1>1, <1>3, FdSets DEF EpollInv, EpollTypes, Edges, Owed
<1>6. OpenedOnce' /\ Descriptors'
  BY <1>1, <1>2 DEF EpollInv, OpenedOnce, Descriptors
<1>7. ~misremoved' => Table'
  BY <1>1, <1>2, <1>3 DEF EpollInv, Table, Apart
<1> QED BY <1>4, <1>5, <1>6, <1>7 DEF EpollInv

LEMMA EpollAcceptStep ==
    ASSUME EpollInv, Accept
    PROVE  EpollInv'
<1> DEFINE f == LowestFree  c == Head(backlog)  r == NewClient(f)  n == Len(clients)
<1>1. /\ connected' = connected /\ gone' = gone /\ edge' = edge /\ undefined' = undefined
      /\ misremoved' = misremoved /\ down' = down
      /\ Listener \in batch /\ batch' = batch \ {Listener}
      /\ backlog # <<>> /\ backlog' = Tail(backlog)
      /\ fdTable' = [fdTable EXCEPT ![f] = c]
      /\ clients' = Append(clients, r)
  BY DEF Accept
<1>2. EpollTypes
  BY DEF EpollInv
<1>3. /\ Len(backlog) \in Nat \ {0} /\ c \in 1..connected /\ c \in Conns
      /\ backlog' \in Seq(1..connected) /\ Len(backlog') = Len(backlog) - 1
  <2>1. backlog \in Seq(1..connected) /\ connected \in 0..MaxConns
    BY <1>2 DEF EpollTypes
  <2>2. /\ Len(backlog) \in Nat \ {0} /\ c \in 1..connected
        /\ Tail(backlog) \in Seq(1..connected) /\ Len(Tail(backlog)) = Len(backlog) - 1
    BY <1>1, <2>1, Popped
  <2>3. 1..connected \subseteq Conns
    BY <2>1, MaxFdAssumption DEF Conns
  <2> QED BY <1>1, <2>2, <2>3
<1>4. f \in Fds /\ fdTable[f] = Free
  <2>1. Cardinality(OpenFds) + Cardinality(Files) < MaxFd
    <3>1. /\ connected <= MaxConns /\ Cardinality(OpenFds) <= connected - Len(backlog)
          /\ Cardinality(Files) + Cardinality(Unopened) <= connected - Len(backlog)
      BY <1>2 DEF EpollInv, EpollTypes, Descriptors
    <3>2. /\ connected \in Nat /\ MaxConns \in Nat /\ MaxFd \in Nat /\ 2 * MaxConns <= MaxFd
          /\ Cardinality(OpenFds) \in Nat /\ Cardinality(Files) \in Nat
          /\ Cardinality(Unopened) \in Nat
      BY <1>2, FdSets, MaxFdAssumption DEF EpollTypes
    <3>3. Len(backlog) \in Nat \ {0}
      BY <1>3
    <3> QED BY <3>1, <3>2, <3>3
  <2> QED BY <1>2, <2>1, FreeFd
<1>5. r \in Records /\ r.sockfd = f /\ r.fd = 0
  BY <1>4 DEF NewClient, Records, States
<1> HIDE DEF f, c, r
<1>6. /\ n \in Nat /\ clients' \in Seq(Records) /\ Len(clients') = n + 1
      /\ clients'[n + 1] = r /\ \A k \in 1..n : clients'[k] = clients[k]
  BY <1>1, <1>2, <1>5, Appended DEF EpollTypes
<1> HIDE DEF n
<1>7. /\ f \notin OpenFds /\ f \notin Files
      /\ OpenFds' = OpenFds \cup {f} /\ Files' = Files
  <2>1. \A g \in Fds : fdTable'[g] = IF g = f THEN c ELSE fdTable[g]
    BY <1>1, <1>2, <1>4 DEF EpollTypes
  <2>2. Free \notin Conns /\ File \notin Conns /\ File # Free
    BY DEF Conns, Free, File
  <2> QED BY <1>3, <1>4, <2>1, <2>2 DEF OpenFds, Files
<1>8. Unopened' = Unopened \cup {n + 1} /\ n + 1 \notin Unopened
  <2>1. r.sockfd # NoSocket
    BY <1>4, <1>5 DEF Fds, NoSocket
  <2> QED BY <1>5, <1>6, <2>1 DEF Unopened, n
<1>9. EpollTypes'
  <2>1. fdTable' \in [Fds -> Conns \cup {Free, File}]
    BY <1>1, <1>2, <1>3 DEF EpollTypes
  <2> QED BY <1>1, <1>2, <1>3, <1>6, <2>1 DEF EpollTypes
<1>10. Edges'
  BY <1>1, <1>3 DEF EpollInv, Edges, Owed
<1>11. OpenedOnce'
  BY <1>5, <1>6 DEF EpollInv, OpenedOnce, n
<1>12. /\ Cardinality(OpenFds') = Cardinality(OpenFds) + 1
       /\ Cardinality(Unopened') = Cardinality(Unopened) + 1
  BY <1>2, <1>7, <1>8, FdSets, FS_AddElement
<1>13. Descriptors'
  <2>1. /\ Len(backlog) <= connected /\ connected \in Nat
        /\ Cardinality(OpenFds) <= connected - Len(backlog)
        /\ Cardinality(Files) + Cardinality(Unopened) <= connected - Len(backlog)
    BY <1>2, MaxFdAssumption DEF EpollInv, EpollTypes, Descriptors
  <2>2. /\ Cardinality(OpenFds) \in Nat /\ Cardinality(Files) \in Nat
        /\ Cardinality(Unopened) \in Nat
    BY <1>2, FdSets
  <2>3. /\ connected' = connected /\ Len(backlog') = Len(backlog) - 1 /\ Files' = Files
        /\ Len(backlog) \in Nat \ {0}
    BY <1>1, <1>3, <1>7
  <2>4. Len(backlog') \in 0..connected'
    BY <2>1, <2>3
  <2>5. Cardinality(OpenFds') <= connected' - Len(backlog')
    BY <1>12, <2>1, <2>2, <2>3
  <2>6. Cardinality(Files') + Cardinality(Unopened') <= connected' - Len(backlog')
    BY <1>12, <2>1, <2>2, <2>3
  <2> QED BY <2>4, <2>5, <2>6 DEF Descriptors
<1>14. ASSUME ~misremoved' PROVE Table'
  <2>1. Table
    BY <1>1, <1>14 DEF EpollInv
  <2>2. {clients'[k].sockfd : k \in 1..Len(clients')} \ {NoSocket}
           = ({clients[k].sockfd : k \in 1..n} \ {NoSocket}) \cup {f}
    <3>1. f # NoSocket
      BY <1>4 DEF Fds, NoSocket
    <3> QED BY <1>5, <1>6, <3>1
  <2>3. {clients'[k].fd : k \in 1..Len(clients')} \ {0} = {clients[k].fd : k \in 1..n} \ {0}
    BY <1>5, <1>6
  <2>4. \A k \in 1..n : clients[k].sockfd # f
    <3>1. f # NoSocket
      BY <1>4 DEF Fds, NoSocket
    <3> QED BY <1>7, <2>1, <3>1 DEF Table, n
  <2>5. Apart'
    <3> SUFFICES ASSUME NEW k \in 1..Len(clients'), NEW l \in 1..Len(clients'), k # l
                 PROVE  /\ clients'[k].sockfd # NoSocket => clients'[k].sockfd # clients'[l].sockfd
                        /\ clients'[k].fd # 0 => clients'[k].fd # clients'[l].fd
      BY DEF Apart
    <3>1. (k \in 1..n /\ clients'[k] = clients[k]) \/ (k = n + 1 /\ clients'[k] = r)
      BY <1>6
    <3>2. (l \in 1..n /\ clients'[l] = clients[l]) \/ (l = n + 1 /\ clients'[l] = r)
      BY <1>6
    <3> QED BY <1>5, <2>1, <2>4, <3>1, <3>2 DEF Table, Apart, n
  <2> QED BY <1>1, <1>6, <1>7, <2>1, <2>2, <2>3, <2>5 DEF Table, n
<1> QED BY <1>9, <1>10, <1>11, <1>13, <1>14 DEF EpollInv

LEMMA EpollFailStep ==
    ASSUME EpollInv, AcceptFails
    PROVE  EpollInv'
<1> DEFINE r == NewClient(NoSocket)  n == Len(clients)
<1>1. /\ connected' = connected /\ gone' = gone /\ edge' = edge /\ undefined' = undefined
      /\ misremoved' = misremoved /\ down' = down /\ fdTable' = fdTable
      /\ Listener \in batch /\ batch' = batch \ {Listener}
      /\ backlog # <<>> /\ backlog' \in {backlog, Tail(backlog)}
      /\ clients' = Append(clients, r)
  BY DEF AcceptFails
<1>2. EpollTypes
  BY DEF EpollInv
<1>3. /\ Len(backlog) \in Nat \ {0} /\ backlog' \in Seq(1..connected)
      /\ Len(backlog') \in {Len(backlog), Len(backlog) - 1}
  <2>1. backlog \in Seq(1..connected)
    BY <1>2 DEF EpollTypes
  <2>2. /\ Len(backlog) \in Nat \ {0}
        /\ Tail(backlog) \in Seq(1..connected) /\ Len(Tail(backlog)) = Len(backlog) - 1
    BY <1>1, <2>1, Popped
  <2> QED BY <1>1, <2>1, <2>2
<1>4. r \in Records /\ r.sockfd = NoSocket /\ r.fd = 0
  BY DEF NewClient, Records, States
<1> HIDE DEF r
<1>5. /\ n \in Nat /\ clients' \in Seq(Records) /\ Len(clients') = n + 1
      /\ clients'[n + 1] = r /\ \A k \in 1..n : clients'[k] = clients[k]
  BY <1>1, <1>2, <1>4, Appended DEF EpollTypes
<1> HIDE DEF n
<1>6. OpenFds' = OpenFds /\ Files' = Files /\ Unopened' = Unopened
  BY <1>1, <1>4, <1>5 DEF OpenFds, Files, Unopened, n
<1>7. EpollTypes'
  BY <1>1, <1>2, <1>3, <1>5 DEF EpollTypes
<1>8. Edges'
  BY <1>1, <1>3 DEF EpollInv, Edges, Owed
<1>9. OpenedOnce'
  BY <1>4, <1>5 DEF EpollInv, OpenedOnce, n
<1>10. Descriptors'
  <2>1. /\ Cardinality(OpenFds) \in Nat /\ Cardinality(Files) \in Nat
        /\ Cardinality(Unopened) \in Nat /\ connected \in Nat
    BY <1>2, FdSets, MaxFdAssumption DEF EpollTypes
  <2> QED BY <1>1, <1>3, <1>6, <2>1 DEF EpollInv, Descriptors
<1>11. ASSUME ~misremoved' PROVE Table'
  <2>1. Table
    BY <1>1, <1>11 DEF EpollInv
  <2>2. {clients'[k].sockfd : k \in 1..Len(clients')} \ {NoSocket}
           = {clients[k].sockfd : k \in 1..n} \ {NoSocket}
    BY <1>4, <1>5
  <2>3. {clients'[k].fd : k \in 1..Len(clients')} \ {0} = {clients[k].fd : k \in 1..n} \ {0}
    BY <1>4, <1>5
  <2>4. Apart'
    <3> SUFFICES ASSUME NEW k \in 1..Len(clients'), NEW l \in 1..Len(clients'), k # l
                 PROVE  /\ clients'[k].sockfd # NoSocket => clients'[k].sockfd # clients'[l].sockfd
                        /\ clients'[k].fd # 0 => clients'[k].fd # clients'[l].fd
      BY DEF Apart
    <3>1. (k \in 1..n /\ clients'[k] = clients[k]) \/ (k = n + 1 /\ clients'[k] = r)
      BY <1>5
    <3>2. (l \in 1..n /\ clients'[l] = clients[l]) \/ (l = n + 1 /\ clients'[l] = r)
      BY <1>5
    <3> QED BY <1>4, <2>1, <3>1, <3>2 DEF Table, Apart, n
  <2> QED BY <1>1, <1>6, <2>1, <2>2, <2>3, <2>4 DEF Table, n
<1> QED BY <1>7, <1>8, <1>9, <1>10, <1>11 DEF EpollInv

\* The dialogue goes on without an open(): only the state of a record changes.
EventTaken ==
    /\ batch' \subseteq batch /\ (Listener \in batch' <=> Listener \in batch)
    /\ connected' = connected /\ gone' = gone /\ backlog' = backlog /\ edge' = edge
    /\ down' = down
StateStep(k, s) ==
    /\ clients[k].state # "FILE_WAIT_NAME" /\ s # "ST_UNASSIGNED"
    /\ s = "FILE_WAIT_NAME" => clients[k].fd = 0
    /\ clients' = [clients EXCEPT ![k].state = s]
    /\ fdTable' = fdTable /\ undefined' = undefined /\ misremoved' = misremoved

LEMMA EpollStateStep ==
    ASSUME EpollInv, NEW k \in 1..Len(clients), NEW s \in States,
           EventTaken, StateStep(k, s)
    PROVE  EpollInv'
<1>0. /\ fdTable' = fdTable /\ undefined' = undefined /\ misremoved' = misremoved
      /\ batch' \subseteq batch
  BY DEF StateStep, EventTaken
<1> DEFINE r == [clients[k] EXCEPT !.state = s]
<1>1. clients \in Seq(Records) /\ clients[k] \in Records
  BY DEF EpollInv, EpollTypes
<1>2. r \in Records /\ r.sockfd = clients[k].sockfd /\ r.fd = clients[k].fd /\ r.state = s
  BY <1>1 DEF Records
<1>3. clients' = [clients EXCEPT ![k] = r]
  BY <1>1 DEF StateStep
<1> HIDE DEF r
<1>4. /\ clients' \in Seq(Records) /\ Len(clients') = Len(clients) /\ clients'[k] = r
      /\ \A l \in 1..Len(clients) : l # k => clients'[l] = clients[l]
  <2> DEFINE q == [clients EXCEPT ![k] = r]
  <2>1. /\ q \in Seq(Records) /\ Len(q) = Len(clients) /\ q[k] = r
        /\ \A l \in 1..Len(clients) : l # k => q[l] = clients[l]
    BY <1>1, <1>2, Replaced
  <2> HIDE DEF q
  <2> QED BY <1>3, <2>1 DEF q
<1>5. \A l \in 1..Len(clients) :
          clients'[l].sockfd = clients[l].sockfd /\ clients'[l].fd = clients[l].fd
  BY <1>2, <1>4
<1>6. OpenFds' = OpenFds /\ Files' = Files /\ Unopened' = Unopened
  BY <1>0, <1>4, <1>5 DEF OpenFds, Files, Unopened
<1>7. EpollTypes' /\ Edges' /\ Descriptors'
  BY <1>0, <1>4, <1>6 DEF EpollInv, EpollTypes, Edges, Descriptors, EventTaken
<1>8. OpenedOnce'
  BY <1>2, <1>4 DEF EpollInv, OpenedOnce, StateStep
<1>9. ASSUME ~misremoved' PROVE Table'
  <2>1. Table
    BY <1>0, <1>9 DEF EpollInv
  <2>2. {clients'[l].sockfd : l \in 1..Len(clients')} = {clients[l].sockfd : l \in 1..Len(clients)}
    BY <1>4, <1>5
  <2>3. {clients'[l].fd : l \in 1..Len(clients')} = {clients[l].fd : l \in 1..Len(clients)}
    BY <1>4, <1>5
  <2>4. Apart'
    <3> SUFFICES ASSUME NEW l \in 1..Len(clients), NEW m \in 1..Len(clients), l # m
                 PROVE  /\ clients'[l].sockfd # NoSocket => clients'[l].sockfd # clients'[m].sockfd
                        /\ clients'[l].fd # 0 => clients'[l].fd # clients'[m].fd
      BY <1>4 DEF Apart
    <3>1. /\ clients'[l].sockfd = clients[l].sockfd /\ clients'[l].fd = clients[l].fd
          /\ clients'[m].sockfd = clients[m].sockfd /\ clients'[m].fd = clients[m].fd
      BY <1>5
    <3> QED BY <2>1, <3>1 DEF Table, Apart
  <2>5. ~undefined' /\ batch' \ {Listener} \subseteq OpenFds'
    BY <1>0, <1>6, <2>1 DEF Table
  <2>6. /\ OpenFds' = {clients'[l].sockfd : l \in 1..Len(clients')} \ {NoSocket}
        /\ Files' = {clients'[l].fd : l \in 1..Len(clients')} \ {0}
    BY <1>6, <2>1, <2>2, <2>3 DEF Table
  <2> QED BY <2>4, <2>5, <2>6 DEF Table
<1> QED BY <1>7, <1>8, <1>9 DEF EpollInv

\* The dialogue opens the file.
OpenStep(k) ==
    /\ clients[k].state = "FILE_WAIT_NAME"
    /\ clients' = [clients EXCEPT ![k].state = "FILE_RECEIVE", ![k].fd = LowestFree]
    /\ fdTable' = [fdTable EXCEPT ![LowestFree] = File]
    /\ undefined' = undefined /\ misremoved' = misremoved

LEMMA EpollOpenStep ==
    ASSUME EpollInv, NEW k \in 1..Len(clients), clients[k].sockfd # NoSocket,
           EventTaken, OpenStep(k)
    PROVE  EpollInv'
<1>0. /\ undefined' = undefined /\ misremoved' = misremoved /\ batch' \subseteq batch
      /\ connected' = connected /\ backlog' = backlog
  BY DEF OpenStep, EventTaken
<1> DEFINE g == LowestFree
           r == [clients[k] EXCEPT !.state = "FILE_RECEIVE", !.fd = g]
<1>1. EpollTypes /\ clients \in Seq(Records) /\ clients[k] \in Records
  BY DEF EpollInv, EpollTypes
<1>2. clients[k].fd = 0 /\ k \in Unopened
  BY DEF EpollInv, OpenedOnce, Unopened, OpenStep
<1>3. /\ Cardinality(OpenFds) \in Nat /\ Cardinality(Files) \in Nat
      /\ Cardinality(Unopened) \in Nat \ {0}
  BY <1>1, <1>2, FdSets, FS_EmptySet
<1>4. g \in Fds /\ fdTable[g] = Free
  <2>1. /\ Len(backlog) \in Nat /\ connected \in 0..MaxConns
        /\ Cardinality(OpenFds) <= connected - Len(backlog)
        /\ Cardinality(Files) + Cardinality(Unopened) <= connected - Len(backlog)
    BY <1>1, FdSets DEF EpollInv, EpollTypes, Descriptors
  <2>2. Cardinality(OpenFds) + Cardinality(Files) < MaxFd
    BY <1>3, <2>1, MaxFdAssumption
  <2> QED BY <1>1, <2>2, FreeFd
<1>5. r \in Records /\ r.sockfd = clients[k].sockfd /\ r.fd = g /\ r.state = "FILE_RECEIVE"
  BY <1>1, <1>4 DEF Records, States
<1>6. clients' = [clients EXCEPT ![k] = r]
  BY <1>1 DEF OpenStep
<1>7. fdTable' = [fdTable EXCEPT ![g] = File]
  BY DEF OpenStep
<1> HIDE DEF g, r
<1>8. /\ clients' \in Seq(Records) /\ Len(clients') = Len(clients) /\ clients'[k] = r
      /\ \A l \in 1..Len(clients) : l # k => clients'[l] = clients[l]
  <2> DEFINE q == [clients EXCEPT ![k] = r]
  <2>1. /\ q \in Seq(Records) /\ Len(q) = Len(clients) /\ q[k] = r
        /\ \A l \in 1..Len(clients) : l # k => q[l] = clients[l]
    BY <1>1, <1>5, Replaced
  <2> HIDE DEF q
  <2> QED BY <1>6, <2>1 DEF q
<1>9. OpenFds' = OpenFds /\ g \notin Files /\ Files' = Files \cup {g}
  <2>1. \A h \in Fds : fdTable'[h] = IF h = g THEN File ELSE fdTable[h]
    BY <1>1, <1>4, <1>7 DEF EpollTypes
  <2>2. Free \notin Conns /\ File \notin Conns /\ File # Free
    BY DEF Conns, Free, File
  <2> QED BY <1>4, <2>1, <2>2 DEF OpenFds, Files
<1>10. g # 0
  BY <1>4 DEF Fds
<1>11. Unopened' = Unopened \ {k}
  BY <1>5, <1>8, <1>10 DEF Unopened
<1>12. EpollTypes' /\ Edges'
  <2>1. fdTable' \in [Fds -> Conns \cup {Free, File}]
    BY <1>1, <1>7 DEF EpollTypes
  <2> QED BY <1>0, <1>1, <1>8, <2>1 DEF EpollInv, EpollTypes, Edges, EventTaken
<1>13. OpenedOnce'
  BY <1>5, <1>8 DEF EpollInv, OpenedOnce
<1>14. Descriptors'
  <2>1. Cardinality(Files') = Cardinality(Files) + 1
    BY <1>1, <1>9, FdSets, FS_AddElement
  <2>2. Cardinality(Unopened') = Cardinality(Unopened) - 1
    BY <1>1, <1>2, <1>11, FdSets, FS_RemoveElement
  <2> QED BY <1>0, <1>3, <1>9, <2>1, <2>2 DEF EpollInv, Descriptors
<1>15. ASSUME ~misremoved' PROVE Table'
  <2>1. Table
    BY <1>0, <1>15 DEF EpollInv
  <2>2. \A l \in 1..Len(clients) : clients'[l].sockfd = clients[l].sockfd
    BY <1>5, <1>8
  <2>7. \A l \in 1..Len(clients) : clients'[l].fd = IF l = k THEN g ELSE clients[l].fd
    BY <1>5, <1>8
  <2>3. {clients'[l].sockfd : l \in 1..Len(clients')} = {clients[l].sockfd : l \in 1..Len(clients)}
    BY <1>8, <2>2
  <2>4. {clients'[l].fd : l \in 1..Len(clients')} \ {0}
           = ({clients[l].fd : l \in 1..Len(clients)} \ {0}) \cup {g}
    BY <1>2, <1>8, <1>10, <2>7
  <2>5. \A l \in 1..Len(clients) : clients[l].fd # g
    BY <1>9, <1>10, <2>1 DEF Table
  <2>6. Apart'
    <3> SUFFICES ASSUME NEW l \in 1..Len(clients'), NEW m \in 1..Len(clients'), l # m
                 PROVE  /\ clients'[l].sockfd # NoSocket => clients'[l].sockfd # clients'[m].sockfd
                        /\ clients'[l].fd # 0 => clients'[l].fd # clients'[m].fd
      BY DEF Apart
    <3>1. l \in 1..Len(clients) /\ m \in 1..Len(clients)
      BY <1>8
    <3>2. clients'[l].fd = (IF l = k THEN g ELSE clients[l].fd)
      BY <2>7, <3>1
    <3>3. clients'[m].fd = (IF m = k THEN g ELSE clients[m].fd)
      BY <2>7, <3>1
    <3> QED BY <1>10, <2>1, <2>2, <2>5, <3>1, <3>2, <3>3 DEF Table, Apart
  <2> QED BY <1>0, <1>8, <1>9, <2>1, <2>3, <2>4, <2>6 DEF Table
<1> QED BY <1>12, <1>13, <1>14, <1>15 DEF EpollInv

\* The dialogue ends: the record's descriptors are closed and the last record disappears.
EndStep(k, s) ==
    /\ s \in {"ST_UNASSIGNED", "FILE_WAIT_NAME"} => s = clients[k].state
    /\ clients' = Front([clients EXCEPT ![k].state = s])
    /\ fdTable' = [g \in Fds |-> IF g \in ToClose(clients[k]) THEN Free ELSE fdTable[g]]
    /\ misremoved' = (misremoved \/ k # Len(clients))
    /\ undefined' = undefined
    /\ clients[k].sockfd \notin batch'

LEMMA EpollEndStep ==
    ASSUME EpollInv, NEW k \in 1..Len(clients), NEW s \in States,
           clients[k].sockfd \in Fds, EventTaken, EndStep(k, s)
    PROVE  EpollInv'
<1> DEFINE n == Len(clients)
           r == [clients[k] EXCEPT !.state = s]
           q == [clients EXCEPT ![k] = r]
           sock == clients[k].sockfd
           file == clients[k].fd
<1>0. /\ undefined' = undefined /\ misremoved' = (misremoved \/ k # n) /\ batch' \subseteq batch
      /\ connected' = connected /\ backlog' = backlog
  BY DEF EndStep, EventTaken
<1>1. /\ EpollTypes /\ clients \in Seq(Records) /\ clients[k] \in Records
      /\ n \in Nat \ {0} /\ k \in 1..n
  BY DEF EpollInv, EpollTypes
<1>2. /\ r \in Records /\ r.sockfd = sock /\ r.fd = file /\ r.state = s
      /\ sock \in Fds /\ sock # NoSocket /\ file \in Fds \cup {0}
  BY <1>1 DEF Records, Fds, NoSocket
<1>3. clients' = SubSeq(q, 1, n - 1)
  <2>1. clients' = SubSeq([clients EXCEPT ![k].state = s], 1,
                          Len([clients EXCEPT ![k].state = s]) - 1)
    BY DEF EndStep, Front
  <2>2. [clients EXCEPT ![k].state = s] = q
    OBVIOUS
  <2>3. Len(q) = n
    BY <1>1, <1>2, Replaced
  <2> QED BY <2>1, <2>2, <2>3
<1>4. /\ fdTable' = [g \in Fds |-> IF g \in {sock, file} THEN Free ELSE fdTable[g]]
      /\ sock \notin batch'
  BY DEF EndStep, ToClose
<1> HIDE DEF n, r, sock, file
<1>5. /\ q \in Seq(Records) /\ Len(q) = n /\ q[k] = r
      /\ \A l \in 1..n : l # k => q[l] = clients[l]
  BY <1>1, <1>2, Replaced DEF n
<1> HIDE DEF q
<1>6. /\ clients' \in Seq(Records) /\ Len(clients') = n - 1
      /\ \A l \in 1..(n - 1) : clients'[l] = q[l]
  BY <1>1, <1>3, <1>5, Fronted
<1>7. \A l \in 1..(n - 1) :
          /\ l \in 1..n /\ (l # k => clients'[l] = clients[l]) /\ (l = k => clients'[l] = r)
          /\ clients'[l].sockfd = clients[l].sockfd /\ clients'[l].fd = clients[l].fd
  <2> TAKE l \in 1..(n - 1)
  <2>1. l \in 1..n /\ clients'[l] = q[l]
    BY <1>1, <1>6
  <2>2. CASE l = k
    BY <1>2, <1>5, <2>1, <2>2 DEF sock, file
  <2>3. CASE l # k
    BY <1>5, <2>1, <2>3
  <2> QED BY <2>2, <2>3
<1>8. /\ OpenFds' = OpenFds \ {sock, file} /\ Files' = Files \ {sock, file}
      /\ Unopened' \subseteq Unopened
  <2>1. \A g \in Fds : fdTable'[g] = IF g \in {sock, file} THEN Free ELSE fdTable[g]
    BY <1>4
  <2>2. Free \notin Conns /\ File # Free
    BY DEF Conns, Free, File
  <2>3. Unopened' \subseteq Unopened
    BY <1>6, <1>7 DEF Unopened, n
  <2> QED BY <2>1, <2>2, <2>3 DEF OpenFds, Files
<1>9. EpollTypes'
  <2>1. fdTable' \in [Fds -> Conns \cup {Free, File}]
    BY <1>1, <1>4 DEF EpollTypes
  <2>2. misremoved' \in BOOLEAN /\ undefined' \in BOOLEAN
    BY <1>0, <1>1 DEF EpollTypes
  <2>3. gone' = gone /\ edge' = edge /\ down' = down
    BY DEF EventTaken
  <2> QED BY <1>0, <1>1, <1>6, <2>1, <2>2, <2>3 DEF EpollTypes
<1>10. Edges'
  BY <1>0 DEF EpollInv, Edges, EventTaken
<1>11. OpenedOnce'
  <2>1. s \in {"ST_UNASSIGNED", "FILE_WAIT_NAME"} => s = clients[k].state
    BY DEF EndStep
  <2>2. k \in 1..n /\ (s \in {"ST_UNASSIGNED", "FILE_WAIT_NAME"} => r.fd = 0)
    BY <1>1, <1>2, <2>1 DEF EpollInv, OpenedOnce, n, file
  <2> SUFFICES ASSUME NEW l \in 1..(n - 1),
                      clients'[l].state \in {"ST_UNASSIGNED", "FILE_WAIT_NAME"}
               PROVE  clients'[l].fd = 0
    BY <1>6 DEF OpenedOnce
  <2>3. CASE l = k
    BY <1>2, <1>7, <2>2, <2>3
  <2>4. CASE l # k
    BY <1>7, <2>4 DEF EpollInv, OpenedOnce, n
  <2> QED BY <2>3, <2>4
<1>12. Descriptors'
  <2>1. OpenFds' \in SUBSET OpenFds /\ Files' \in SUBSET Files /\ Unopened' \in SUBSET Unopened
    BY <1>8
  <2>2. /\ Cardinality(OpenFds') <= Cardinality(OpenFds) /\ Cardinality(OpenFds') \in Nat
        /\ Cardinality(Files') <= Cardinality(Files) /\ Cardinality(Files') \in Nat
        /\ Cardinality(Unopened') <= Cardinality(Unopened) /\ Cardinality(Unopened') \in Nat
    BY <1>1, <2>1, FdSets, FS_Subset, FS_CardinalityType
  <2>3. /\ Cardinality(OpenFds) \in Nat /\ Cardinality(Files) \in Nat
        /\ Cardinality(Unopened) \in Nat /\ connected \in Nat /\ Len(backlog) \in Nat
    BY <1>1, FdSets, MaxFdAssumption DEF EpollTypes
  <2> QED BY <1>0, <2>2, <2>3 DEF EpollInv, Descriptors
<1>13. ASSUME ~misremoved' PROVE Table'
  <2>1. Table /\ k = n
    BY <1>0, <1>13 DEF EpollInv
  <2>2. sock \in OpenFds /\ (file # 0 => file \in Files)
    BY <1>1, <1>2, <2>1 DEF Table, n, sock, file
  <2>3. OpenFds \cap Files = {} /\ 0 \notin OpenFds /\ 0 \notin Files
    BY DEF OpenFds, Files, Conns, File, Fds
  <2>4. OpenFds' = OpenFds \ {sock} /\ Files' = Files \ {file}
    BY <1>8, <2>2, <2>3
  <2>5. \A l \in 1..n : l = n \/ (l \in 1..(n - 1))
    BY <1>1
  <2>6. \A l \in 1..(n - 1) : clients[l].sockfd # sock /\ (file # 0 => clients[l].fd # file)
    <3> SUFFICES ASSUME NEW l \in 1..(n - 1)
                 PROVE  clients[l].sockfd # sock /\ (file # 0 => clients[l].fd # file)
      OBVIOUS
    <3>1. l \in 1..n /\ l # k
      BY <1>1, <2>1
    <3> QED BY <1>1, <1>2, <2>1, <3>1 DEF Table, Apart, n, sock, file
  <2>7. OpenFds' = {clients'[l].sockfd : l \in 1..Len(clients')} \ {NoSocket}
    <3>1. OpenFds' = ({clients[l].sockfd : l \in 1..n} \ {NoSocket}) \ {sock}
      BY <2>1, <2>4 DEF Table, n
    <3>2. {clients[l].sockfd : l \in 1..n} \ {sock} = {clients[l].sockfd : l \in 1..(n - 1)}
      BY <1>1, <1>7, <2>1, <2>5, <2>6 DEF sock
    <3>3. {clients[l].sockfd : l \in 1..(n - 1)} = {clients'[l].sockfd : l \in 1..(n - 1)}
      BY <1>7
    <3> QED BY <1>6, <3>1, <3>2, <3>3
  <2>8. Files' = {clients'[l].fd : l \in 1..Len(clients')} \ {0}
    <3>1. Files' = ({clients[l].fd : l \in 1..n} \ {0}) \ {file}
      BY <2>1, <2>4 DEF Table, n
    <3>2. ({clients[l].fd : l \in 1..n} \ {0}) \ {file} = {clients[l].fd : l \in 1..(n - 1)} \ {0}
      BY <1>1, <1>7, <2>1, <2>5, <2>6 DEF file
    <3>3. {clients[l].fd : l \in 1..(n - 1)} = {clients'[l].fd : l \in 1..(n - 1)}
      BY <1>7
    <3> QED BY <1>6, <3>1, <3>2, <3>3
  <2>9. Apart'
    <3> SUFFICES ASSUME NEW l \in 1..(n - 1), NEW m \in 1..(n - 1), l # m
                 PROVE  /\ clients'[l].sockfd # NoSocket => clients'[l].sockfd # clients'[m].sockfd
                        /\ clients'[l].fd # 0 => clients'[l].fd # clients'[m].fd
      BY <1>6 DEF Apart
    <3>1. /\ clients'[l].sockfd = clients[l].sockfd /\ clients'[l].fd = clients[l].fd
          /\ clients'[m].sockfd = clients[m].sockfd /\ clients'[m].fd = clients[m].fd
          /\ l \in 1..n /\ m \in 1..n
      BY <1>7
    <3> QED BY <2>1, <3>1 DEF Table, Apart, n
  <2>10. batch' \ {Listener} \subseteq OpenFds'
    BY <1>0, <1>4, <2>1, <2>4 DEF Table
  <2> QED BY <1>0, <2>1, <2>7, <2>8, <2>9, <2>10 DEF Table
<1> QED BY <1>9, <1>10, <1>11, <1>12, <1>13 DEF EpollInv

\* What dostuff() may leave in the record.
LEMMA Dialogue ==
    ASSUME NEW state \in States
    PROVE  /\ \A s \in Continues(state) :
                 /\ s \in States /\ s # "ST_UNASSIGNED"
                 /\ s = "FILE_WAIT_NAME" => state = "ST_UNASSIGNED"
                 /\ state = "FILE_WAIT_NAME" => s = "FILE_RECEIVE"
           /\ \A s \in Ends(state) :
                 /\ s \in States
                 /\ s \in {"ST_UNASSIGNED", "FILE_WAIT_NAME"} => s = state
  BY DEF States, Continues, Ends

LEMMA EpollHandleStep ==
    ASSUME EpollInv, NEW f \in Fds, Handle(f)
    PROVE  EpollInv'
<1> DEFINE k == ClientIdx(f)
<1>1. EpollTypes /\ f \in batch /\ f # Listener /\ batch' = batch \ {f} /\ EventTaken
  BY DEF EpollInv, Handle, EventTaken
<1>2. /\ k # 0 => k \in 1..Len(clients) /\ clients[k].sockfd = f
      /\ (\E l \in 1..Len(clients) : clients[l].sockfd = f) => k # 0
  BY <1>1, Found
<1>3. CASE k = 0
  <2>1. undefined' = TRUE /\ fdTable' = fdTable /\ clients' = clients /\ misremoved' = misremoved
    BY <1>3 DEF Handle
  <2>2. misremoved
    BY <1>1, <1>2, <1>3 DEF EpollInv, Table
  <2>3. OpenFds' = OpenFds /\ Files' = Files /\ Unopened' = Unopened
    BY <2>1 DEF OpenFds, Files, Unopened
  <2>4. EpollTypes'
    BY <1>1, <2>1 DEF EpollTypes, EventTaken
  <2> QED BY <1>1, <2>1, <2>2, <2>3, <2>4 DEF EpollInv, EventTaken, Edges, OpenedOnce, Descriptors
<1>4. CASE k # 0
  <2>1. undefined' = undefined /\ (Continue(f, k) \/ End(f, k))
    BY <1>4 DEF Handle
  <2>2. k \in 1..Len(clients) /\ clients[k] \in Records /\ clients[k].state \in States
    <3>1. k \in 1..Len(clients) /\ clients \in Seq(Records)
      BY <1>1, <1>2, <1>4 DEF EpollTypes
    <3> HIDE DEF k
    <3>2. clients[k] \in Records
      BY <3>1
    <3> QED BY <3>1, <3>2 DEF Records
  <2> HIDE DEF k
  <2>3. CASE Continue(f, k)
    <3>1. PICK s \in Continues(clients[k].state) :
            /\ IF clients[k].state = "FILE_WAIT_NAME"
               THEN /\ clients' = [clients EXCEPT ![k].state = s, ![k].fd = LowestFree]
                    /\ fdTable' = [fdTable EXCEPT ![LowestFree] = File]
               ELSE /\ clients' = [clients EXCEPT ![k].state = s]
                    /\ fdTable' = fdTable
            /\ misremoved' = misremoved
      BY <2>3 DEF Continue
    <3>2. /\ s \in States /\ s # "ST_UNASSIGNED"
          /\ s = "FILE_WAIT_NAME" => clients[k].state = "ST_UNASSIGNED"
          /\ clients[k].state = "FILE_WAIT_NAME" => s = "FILE_RECEIVE"
      BY <2>2, Dialogue
    <3>3. CASE clients[k].state = "FILE_WAIT_NAME"
      <4>1. OpenStep(k)
        BY <2>1, <3>1, <3>2, <3>3 DEF OpenStep
      <4>2. clients[k].sockfd # NoSocket
        BY <1>2, <1>4 DEF Fds, NoSocket, k
      <4> QED BY <1>1, <2>2, <4>1, <4>2, EpollOpenStep
    <3>4. CASE clients[k].state # "FILE_WAIT_NAME"
      <4>1. s = "FILE_WAIT_NAME" => clients[k].fd = 0
        BY <2>2, <3>2 DEF EpollInv, OpenedOnce
      <4>2. StateStep(k, s)
        BY <2>1, <3>1, <3>2, <3>4, <4>1 DEF StateStep
      <4> QED BY <1>1, <2>2, <3>2, <4>2, EpollStateStep
    <3> QED BY <3>3, <3>4
  <2>4. CASE End(f, k)
    <3>1. PICK s \in Ends(clients[k].state) :
            /\ fdTable' = [g \in Fds |-> IF g \in ToClose(clients[k]) THEN Free ELSE fdTable[g]]
            /\ clients' = Removed([clients EXCEPT ![k].state = s], k)
            /\ misremoved' = (misremoved \/ k # Len(clients))
      BY <2>4 DEF End
    <3>2. s \in States /\ (s \in {"ST_UNASSIGNED", "FILE_WAIT_NAME"} => s = clients[k].state)
      BY <2>2, Dialogue
    <3>3. clients[k].sockfd \notin batch' /\ clients[k].sockfd \in Fds
      BY <1>1, <1>2, <1>4 DEF k
    <3>4. EndStep(k, s)
      BY <2>1, <3>1, <3>2, <3>3 DEF EndStep, Removed
    <3> QED BY <1>1, <2>2, <3>2, <3>3, <3>4, EpollEndStep
  <2> QED BY <2>1, <2>3, <2>4
<1> QED BY <1>3, <1>4

LEMMA EpollSignalStep ==
    ASSUME EpollInv, NEW f \in Fds, EndedBySignal(f)
    PROVE  EpollInv'
<1>1. /\ down' = TRUE /\ backlog' = <<>> /\ edge' = FALSE /\ batch' = {} /\ clients' = <<>>
      /\ fdTable' = [g \in Fds |-> Free] /\ ~undefined
      /\ connected' = connected /\ gone' = gone /\ undefined' = undefined
      /\ misremoved' = misremoved
  BY DEF EndedBySignal, Over
<1>2. OpenFds' = {} /\ Files' = {} /\ Unopened' = {}
  BY <1>1 DEF OpenFds, Conns, Free, File, Files, Unopened
<1>3. EpollTypes'
  <2>1. backlog' \in Seq(1..connected') /\ clients' \in Seq(Records)
    BY <1>1
  <2>2. fdTable' \in [Fds -> Conns \cup {Free, File}]
    BY <1>1
  <2> QED BY <1>1, <2>1, <2>2, Zenon DEF EpollInv, EpollTypes
<1>4. Edges' /\ OpenedOnce'
  BY <1>1 DEF Edges, Owed, OpenedOnce
<1>5. Descriptors'
  BY <1>1, <1>2, FS_EmptySet, MaxFdAssumption DEF EpollInv, EpollTypes, Descriptors
<1>6. Table'
  BY <1>1, <1>2, FS_EmptySet DEF Table, Apart
<1> QED BY <1>3, <1>4, <1>5, <1>6 DEF EpollInv

LEMMA EpollInvariance == ESSpec => []EpollInv
<1>1. EpollInv /\ [ESNext]_ESvars => EpollInv'
  <2> SUFFICES ASSUME EpollInv, [ESNext]_ESvars PROVE EpollInv'
    OBVIOUS
  <2>1. CASE Server
    <3>1. CASE Wait \/ Accept \/ AcceptFails
      BY <3>1, EpollWaitStep, EpollAcceptStep, EpollFailStep
    <3>2. CASE \E f \in Fds : Handle(f) \/ EndedBySignal(f)
      BY <3>2, EpollHandleStep, EpollSignalStep
    <3> QED BY <2>1, <3>1, <3>2 DEF Server
  <2>2. CASE Connect \/ \E c \in Conns : Hangup(c)
    BY <2>2, EpollPeerStep
  <2>3. CASE UNCHANGED ESvars
    <3>1. /\ connected' = connected /\ gone' = gone /\ backlog' = backlog /\ edge' = edge
          /\ batch' = batch /\ fdTable' = fdTable /\ clients' = clients
          /\ undefined' = undefined /\ down' = down /\ misremoved' = misremoved
      BY <2>3 DEF ESvars
    <3>2. OpenFds' = OpenFds /\ Files' = Files /\ Unopened' = Unopened /\ (Apart' <=> Apart)
      BY <3>1 DEF OpenFds, Files, Unopened, Apart
    <3>3. EpollTypes' /\ Edges' /\ OpenedOnce' /\ Descriptors'
      BY <3>1, <3>2 DEF EpollInv, EpollTypes, Edges, OpenedOnce, Descriptors
    <3> QED BY <3>1, <3>2, <3>3 DEF EpollInv, Table
  <2> QED BY <2>1, <2>2, <2>3 DEF ESNext
<1> QED BY InitEpollInv, <1>1, PTL DEF ESSpec

(* The listening socket blocks, and it is accepted from once per edge: accept() never waits,
   however many connections come between epoll_wait() and accept(). *)
THEOREM AcceptFindsOne == ESSpec => []AcceptNeverBlocks
<1>1. EpollInv => AcceptNeverBlocks
  BY DEF EpollInv, EpollTypes, Edges, Owed, AcceptNeverBlocks
<1> QED BY EpollInvariance, <1>1, PTL

(* clients[] describes the open connections and files of 15/server.c exactly, until a client is
   removed that is not the last, however many peers connect and however they go away. *)
THEOREM TableIsExact == ESSpec => []TableExact
<1>1. EpollInv => TableExact
  <2> SUFFICES ASSUME EpollInv PROVE TableExact
    OBVIOUS
  <2>1. ESTypeOK
    BY DEF EpollInv, EpollTypes, ESTypeOK, Records
  <2>2. DOMAIN clients = 1..Len(clients)
    BY DEF EpollInv, EpollTypes
  <2>3. ASSUME Table, NEW k \in 1..Len(clients)
        PROVE  \A l \in 1..Len(clients) \ {k} :
                   /\ clients[k].sockfd \notin {clients[l].sockfd} \ {NoSocket}
                   /\ clients[k].fd \notin {clients[l].fd} \ {0}
    BY <2>3 DEF Table, Apart
  <2>4. ASSUME ~misremoved
        PROVE  /\ ~undefined
               /\ batch \ {Listener} \subseteq OpenFds
               /\ OpenFds = {clients[k].sockfd : k \in DOMAIN clients} \ {NoSocket}
               /\ {f \in Fds : fdTable[f] = File} =
                     {clients[k].fd : k \in DOMAIN clients} \ {0}
               /\ \A k \in DOMAIN clients :
                     \A l \in DOMAIN clients \ {k} :
                         /\ clients[k].sockfd \notin {clients[l].sockfd} \ {NoSocket}
                         /\ clients[k].fd \notin {clients[l].fd} \ {0}
    <3>1. Table
      BY <2>4 DEF EpollInv
    <3> QED BY <2>2, <2>3, <3>1 DEF Table, Files
  <2> QED BY <2>1, <2>4, Zenon DEF TableExact
<1> QED BY EpollInvariance, <1>1, PTL
=============================================================================
