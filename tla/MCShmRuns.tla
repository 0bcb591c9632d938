----------------------------- MODULE MCShmRuns -----------------------------
(* ShmRuns with writers and readers that are told apart by nothing. *)
EXTENDS ShmRuns, TLC

Symmetry == Permutations(Writers) \cup Permutations(Readers)
=============================================================================
