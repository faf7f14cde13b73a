----------------------------- MODULE MCApproval -----------------------------
(* A small instance of Approval: two commands at a time over two boots.  Its *)
(* configuration gives the constants; no symmetry, since liveness is checked. *)
EXTENDS Approval

=============================================================================
