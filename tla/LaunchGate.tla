----------------------------- MODULE LaunchGate -----------------------------
(***************************************************************************)
(* What launch.lock promises, without files, descriptors or subprocesses.  *)
(*                                                                         *)
(* An operation is a website launch, an applied update or a client         *)
(* download.  At most one of them owns the launcher.  The owner starts the *)
(* program it supervises (the game, or nxdl) only while no supervised      *)
(* program runs, and gives the launcher up only when its program has       *)
(* ended.  An operation may also be abandoned: its launcher process dies,  *)
(* the ownership is gone at once and the program may go on.                *)
(***************************************************************************)

CONSTANTS
    Ops,    \* the operations
    NoOne   \* the owner when there is none

VARIABLES
    owner,     \* the operation that owns the launcher
    running,   \* the operations whose program runs
    abandoned  \* the operations whose launcher process died

gateVars == <<owner, running, abandoned>>

Init ==
    /\ owner = NoOne
    /\ running = {}
    /\ abandoned = {}

Begin(o) ==
    /\ owner = NoOne
    /\ o \notin running
    /\ owner' = o
    /\ UNCHANGED <<running, abandoned>>

(* The heart of the promise: nothing that is still supervised runs. *)
Start(o) ==
    /\ owner = o
    /\ running \subseteq abandoned
    /\ running' = running \cup {o}
    /\ UNCHANGED <<owner, abandoned>>

(* One program ends, or several do when the Wine prefix is stopped. *)
ProgramsEnd ==
    /\ running' \subseteq running
    /\ UNCHANGED <<owner, abandoned>>

Finish(o) ==
    /\ owner = o
    /\ o \notin running
    /\ owner' = NoOne
    /\ UNCHANGED <<running, abandoned>>

Abandon(o) ==
    /\ owner' = IF owner = o THEN NoOne ELSE owner
    /\ abandoned' = abandoned \cup {o}
    /\ UNCHANGED running

(* An abandoned operation is over when its program has ended too. *)
Forget(o) ==
    /\ o \in abandoned \ running
    /\ abandoned' = abandoned \ {o}
    /\ UNCHANGED <<owner, running>>

Next ==
    \/ ProgramsEnd
    \/ \E o \in Ops :
        Begin(o) \/ Start(o) \/ Finish(o) \/ Abandon(o) \/ Forget(o)

Spec == Init /\ [][Next]_gateVars

=============================================================================
