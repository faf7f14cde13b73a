------------------------------- MODULE MCTrial -------------------------------
(* A small instance of Trial. *)
EXTENDS Trial, TLC

(* Processes, trials, notes and directories are interchangeable. *)
Symmetry ==
    Permutations(Procs) \cup Permutations(Trials) \cup Permutations(Notes)
    \cup Permutations(RunDirs)

=============================================================================
