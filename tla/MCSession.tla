------------------------------ MODULE MCSession ------------------------------
(* Small instances of Session. *)
EXTENDS Session, TLC

(* The processes are interchangeable; used where no liveness is checked. *)
Symmetry == Permutations(Procs)

=============================================================================
