--------------------------- MODULE SignalCounter ---------------------------
(***************************************************************************)
(* 05/main.c: a loop that counts seconds until it has received SIGINT      *)
(* three times, and logs the signals it receives.  One handler serves      *)
(* SIGINT and SIGQUIT; it talks to the loop through remains (uint8_t) and  *)
(* sig_to_write.  While the handler runs for one signal, that signal is    *)
(* blocked but the other may interrupt it; a signal sent again before it   *)
(* is delivered is not counted twice.                                      *)
(*                                                                         *)
(* LoopProofs extends three machines, so each has names with a prefix, SC. *)
(***************************************************************************)
EXTENDS Integers, Sequences, SequencesExt

CONSTANT MaxSent   \* bound: how often each signal is sent

ASSUME MaxSentAssumption == MaxSent \in Nat

SIGINT == "SIGINT"
SIGQUIT == "SIGQUIT"
Signals == {SIGINT, SIGQUIT}
None == "none"      \* sig_to_write = -1

VARIABLES
    pc,             \* where the loop is
    frames,         \* the running handlers, the innermost first
    pending,        \* signals generated and not yet delivered
    remains,
    sig_to_write,
    \* History, read by the properties and the bound only:
    sent, handled, logged     \* how often, by signal

SCvars == <<pc, frames, pending, remains, sig_to_write, sent, handled, logged>>
hist == <<sent, handled, logged>>

SCInit ==
    /\ pc = "check" /\ frames = <<>> /\ pending = {}
    /\ remains = 3 /\ sig_to_write = None
    /\ sent = [s \in Signals |-> 0]
    /\ handled = [s \in Signals |-> 0]
    /\ logged = [s \in Signals |-> 0]

\* kill(2) from another process.
Send(s) ==
    /\ sent[s] < MaxSent
    /\ sent' = [sent EXCEPT ![s] = @ + 1]
    /\ pending' = pending \cup {s}
    /\ UNCHANGED <<pc, frames, remains, sig_to_write, handled, logged>>
-----------------------------------------------------------------------------
(* handler() *)

\* remains is a uint8_t: the decrement of 0 gives 255, and not -1.
Decremented(n) == (n - 1) % 256

Running(s) == \E k \in DOMAIN frames : frames[k].sig = s

Deliver(s) ==
    /\ pc # "ended"
    /\ s \in pending
    /\ ~Running(s)
    /\ pending' = pending \ {s}
    /\ frames' = <<[sig |-> s, step |-> "count"]>> \o frames
    /\ UNCHANGED <<pc, remains, sig_to_write, hist>>

\* if (sig == SIGINT) remains--;
Counts(s) == s = SIGINT

Count ==
    /\ frames # <<>>
    /\ Head(frames).step = "count"
    /\ remains' = IF Counts(Head(frames).sig) THEN Decremented(remains) ELSE remains
    /\ frames' = [frames EXCEPT ![1].step = "note"]
    /\ handled' = [handled EXCEPT ![Head(frames).sig] = @ + 1]
    /\ UNCHANGED <<pc, pending, sig_to_write, sent, logged>>

\* sig_to_write = sig; and the handler returns.
Note ==
    /\ frames # <<>>
    /\ Head(frames).step = "note"
    /\ sig_to_write' = Head(frames).sig
    /\ frames' = Tail(frames)
    /\ UNCHANGED <<pc, pending, remains, hist>>
-----------------------------------------------------------------------------
(* main() *)

\* The loop moves only between handlers.
At(l) == pc = l /\ frames = <<>>

\* if (sig_to_write != -1): write and reset, in this order.
WriteAndReset == IF sig_to_write # None THEN "write" ELSE "test"

Check ==
    /\ At("check")
    /\ pc' = WriteAndReset
    /\ UNCHANGED <<frames, pending, remains, sig_to_write, hist>>

\* write_file(): sig_to_write is read a second time, as the argument.
Write ==
    /\ At("write")
    /\ logged' = [logged EXCEPT ![sig_to_write] = @ + 1]
    /\ pc' = "reset"
    /\ UNCHANGED <<frames, pending, remains, sig_to_write, sent, handled>>

\* The note after it is written, and a version that leaves it.
Kept == sig_to_write
Cleared == None

Reset ==
    /\ At("reset")
    /\ sig_to_write' = Cleared
    /\ pc' = "test"
    /\ UNCHANGED <<frames, pending, remains, hist>>

\* if (remains == 0) break; and one SIGINT too early.
OneLeft == remains = 1
NoneLeft == remains = 0

Test ==
    /\ At("test")
    /\ pc' = IF NoneLeft THEN "ended" ELSE "sleep"
    /\ UNCHANGED <<frames, pending, remains, sig_to_write, hist>>

\* sleep(1) ends after a second or with a signal.
Sleep ==
    /\ At("sleep")
    /\ pc' = "check"
    /\ UNCHANGED <<frames, pending, remains, sig_to_write, hist>>

Handler == Count \/ Note \/ (\E s \in Signals : Deliver(s))
Main == Check \/ Write \/ Reset \/ Test \/ Sleep

SCNext == Handler \/ Main \/ (\E s \in Signals : Send(s))

SCSpec == SCInit /\ [][SCNext]_SCvars

\* The process runs and pending signals are delivered; nobody has to send any.
SCFairSpec == SCSpec /\ WF_SCvars(Main) /\ WF_SCvars(Handler)
-----------------------------------------------------------------------------
(* Properties. *)

SCTypeOK ==
    /\ pc \in {"check", "write", "reset", "test", "sleep", "ended"}
    /\ frames \in BoundedSeq([sig : Signals, step : {"count", "note"}], 2)
    /\ pending \subseteq Signals
    /\ remains \in 0..255
    /\ sig_to_write \in Signals \cup {None}
    /\ sent \in [Signals -> 0..MaxSent]
    /\ handled \in [Signals -> 0..MaxSent]
    /\ logged \in [Signals -> 0..MaxSent]

(* The loop never ends before the third SIGINT was handled, whatever the number of
   SIGQUITs and wherever they interrupt. *)
EndsByThree == pc = "ended" => handled[SIGINT] >= 3

(* Every line of the log stands for a signal of its kind that was handled, a
   different one each: the note read twice by main() is never logged twice. *)
LinesAreTrue == \A s \in Signals : logged[s] <= handled[s]

(* The loop of 05/main.c:64-81 neither ends for a SIGINT that was not handled nor logs a
   signal that was not, wherever handlers come between its steps or in each other. *)
NothingInvented == SCTypeOK /\ EndsByThree /\ LinesAreTrue

(* 05/README.md:4, "the program must end after the third SIGINT": three SIGINTs
   end the program as long as there is no fourth. *)
ThirdEndsUnlessFourth ==
    (handled[SIGINT] = 3) ~> (pc = "ended" \/ handled[SIGINT] > 3)
=============================================================================
