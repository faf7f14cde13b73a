----------------------------- MODULE ClientPath -----------------------------
(***************************************************************************)
(* What is promised of the path the game is started from, without locks,   *)
(* staging directories, copies or kills.                                   *)
(*                                                                         *)
(* A client appears there whole, in one step, where there was no file.  It *)
(* goes away in one step, to a place aside, and never in another way.  In  *)
(* between it loses no file; it gains files only while the downloader of   *)
(* an update is at work, which may go on when its update is over.          *)
(***************************************************************************)
EXTENDS Naturals

CONSTANTS
    Ops,      \* the operations
    Files,    \* the files a client may have
    Required  \* those without which it cannot be played

VARIABLES
    exists,   \* there is a client
    files,    \* the files it has
    aside,    \* how many clients were put aside
    updating  \* the operations whose downloader writes into the client

pathVars == <<exists, files, aside, updating>>

(* Somebody's client, or nothing. *)
Init ==
    /\ exists \in BOOLEAN
    /\ files \in SUBSET Files
    /\ exists \/ files = {}
    /\ aside = 0
    /\ updating = {}

Appear ==
    /\ files = {}
    /\ exists' = TRUE
    /\ files' \in SUBSET Files
    /\ Required \subseteq files'
    /\ UNCHANGED <<aside, updating>>

PutAside ==
    /\ exists
    /\ exists' = FALSE
    /\ files' = {}
    /\ aside' = aside + 1
    /\ UNCHANGED updating

BeginUpdate(o) ==
    /\ o \notin updating
    /\ updating' = updating \cup {o}
    /\ UNCHANGED <<exists, files, aside>>

Gain ==
    /\ updating # {}
    /\ exists' = TRUE
    /\ files' \in SUBSET Files
    /\ files \subseteq files'
    /\ UNCHANGED <<aside, updating>>

EndUpdate(o) ==
    /\ o \in updating
    /\ updating' = updating \ {o}
    /\ UNCHANGED <<exists, files, aside>>

Next ==
    \/ Appear \/ PutAside \/ Gain
    \/ \E o \in Ops : BeginUpdate(o) \/ EndUpdate(o)

Spec == Init /\ [][Next]_pathVars

=============================================================================
