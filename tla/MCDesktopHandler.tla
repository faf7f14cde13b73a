-------------------------- MODULE MCDesktopHandler --------------------------
(* A small instance of DesktopHandler: three schemes, two programs. *)
EXTENDS DesktopHandler, TLC

Symmetry == Permutations(Apps)

=============================================================================
