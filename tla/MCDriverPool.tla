---------------------------- MODULE MCDriverPool ----------------------------
(***************************************************************************)
(* DriverPool with a timer of each sign: refused by the kernel, disarming  *)
(* the timer, and an ordinary one.                                         *)
(***************************************************************************)
EXTENDS DriverPool

MCTimers == {-1, 0, 5}
=============================================================================
