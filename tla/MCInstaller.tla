---------------------------- MODULE MCInstaller ----------------------------
(* Small instances of Installer: all kinds of damage, or one. *)
EXTENDS Installer

AllKinds    == Kinds
PatchedOnly == {"patched"}

=============================================================================
