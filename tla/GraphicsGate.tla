---------------------------- MODULE GraphicsGate ----------------------------
(***************************************************************************)
(* What the graphics approval promises, without a file, reports or         *)
(* interleaved commands.                                                   *)
(*                                                                         *)
(* In each boot there is an approval or there is none.  It is granted only *)
(* in a boot whose graphics have passed a check, withdrawn at any time,    *)
(* and gone after a reboot although the file that stands for it survives.  *)
(* A launch is let through while there is an approval, or together with    *)
(* the grant of one.                                                       *)
(***************************************************************************)

CONSTANTS
    Launches, \* the launches
    BootIds   \* the boots

VARIABLES
    now,      \* the boot the machine runs in
    passed,   \* the boots in which the graphics passed a check
    inForce,  \* there is an approval
    through   \* the launches that were let through and go on

gateVars == <<now, passed, inForce, through>>

Init ==
    /\ now \in BootIds
    /\ passed = {}
    /\ inForce = FALSE
    /\ through = {}

CheckPasses ==
    /\ passed' = passed \cup {now}
    /\ UNCHANGED <<now, inForce, through>>

Grant ==
    /\ now \in passed
    /\ inForce' = TRUE
    /\ UNCHANGED <<now, passed, through>>

Withdraw ==
    /\ inForce' = FALSE
    /\ UNCHANGED <<now, passed, through>>

LetThrough(o) ==
    /\ inForce \/ now \in passed
    /\ inForce' = TRUE
    /\ through' = through \cup {o}
    /\ UNCHANGED <<now, passed>>

Leave(o) ==
    /\ through' = through \ {o}
    /\ UNCHANGED <<now, passed, inForce>>

(* A boot that has never been checked. *)
Reboot ==
    /\ now' \in BootIds \ passed
    /\ inForce' = FALSE
    /\ through' = {}
    /\ UNCHANGED passed

Next ==
    \/ CheckPasses \/ Grant \/ Withdraw \/ Reboot
    \/ \E o \in Launches : LetThrough(o) \/ Leave(o)

Spec == Init /\ [][Next]_gateVars

=============================================================================
