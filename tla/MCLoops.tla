------------------------------ MODULE MCLoops ------------------------------
(***************************************************************************)
(* MinMax, SignalCounter and EpollServer in one run.  The three programs   *)
(* share nothing: one of them is started, and the others stay as they are. *)
(***************************************************************************)
EXTENDS MinMax, SignalCounter, EpollServer

VARIABLE program    \* which one

MCvars == <<program, MMvars, SCvars, ESvars>>

\* An array is for 10 only.
MCInit ==
    /\ program \in {"10", "05", "15"}
    /\ MMInit /\ SCInit /\ ESInit
    /\ program # "10" => size = 1 /\ numbers[0] = 0

In10 == program = "10" /\ UNCHANGED <<program, SCvars, ESvars>>
In05 == program = "05" /\ UNCHANGED <<program, MMvars, ESvars>>
In15 == program = "15" /\ UNCHANGED <<program, MMvars, SCvars>>

MCNext == (In10 /\ MMNext) \/ (In05 /\ SCNext) \/ (In15 /\ ESNext)

\* The fairness of SCFairSpec and ESFairSpec for the program that runs.
MCFairSpec ==
    /\ MCInit /\ [][MCNext]_MCvars
    /\ WF_MCvars(In05 /\ Main) /\ WF_MCvars(In05 /\ Handler)
    /\ WF_MCvars(In15 /\ Server)
=============================================================================
