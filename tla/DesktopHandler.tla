--------------------------- MODULE DesktopHandler ---------------------------
(***************************************************************************)
(* The desktop integration: which handler the desktop calls for the URL    *)
(* schemes of the website, and handler-rollback.json, which remembers the  *)
(* handlers that were there before.                                        *)
(*                                                                         *)
(* "install" registers the project's desktop file for every scheme and     *)
(* "uninstall" gives the schemes back; both may fail or be killed at every *)
(* step and be run again.  Commands run one at a time; between them the    *)
(* user picks other handlers and removes programs.                         *)
(*                                                                         *)
(* xdg-mime is a program outside this repository.  Taken for granted: it   *)
(* stores one name per scheme or silently does nothing, and a query gives  *)
(* the stored name, or possibly nothing when that program is gone.         *)
(***************************************************************************)

CONSTANTS
    Schemes,  \* the URL schemes
    First,    \* the one that earlier versions of the project handled
    Apps,     \* the user's programs
    Ours,     \* msclassic-ngm.desktop
    Legacy,   \* maplestory-classic-nexonplug.desktop
    None,     \* no handler
    Absent,   \* there is no rollback file
    Torn      \* the rollback file is empty or cut off

Names == Apps \cup {Ours, Legacy, None}

(* Both schemas of the file; the older one knows the first scheme only. *)
Rollbacks ==
    [legacy : BOOLEAN, previous : [Schemes -> Names] \cup [{First} -> Names]]

ASSUME FirstIsAScheme == First \in Schemes
ASSUME NamesDiffer ==
    /\ Ours \notin Apps /\ Legacy \notin Apps /\ None \notin Apps
    /\ Ours # Legacy /\ Ours # None /\ Legacy # None
    /\ Absent \notin Rollbacks \cup {Torn} /\ Torn \notin Rollbacks

VARIABLES
    handler,   \* handler[s]: the name stored for scheme s, or None
    apps,      \* the programs that are there
    file,      \* the project's desktop file is there
    wrapper,   \* ~/.local/bin/msclassic is there
    rollback,  \* what is in handler-rollback.json
    pc,        \* where the command is
    previous,  \* the handlers it holds in memory
    todo       \* the schemes it has not set yet

(* History variable: the handler that the user had chosen for a scheme when *)
(* the project took the scheme over, as long as that program is there.      *)
VARIABLE chosen

(* History variable: the schemes that an uninstallation has forgotten and  *)
(* not given back, since they had no handler to go back to.                *)
VARIABLE keptBack

vars == <<handler, apps, file, wrapper, rollback, pc, previous, todo, chosen, keptBack>>

-----------------------------------------------------------------------------

Nothing == [s \in Schemes |-> None]

Installing == {"discover", "upgrade", "file", "record", "database", "set"}
Removing == {"read", "restore", "forget", "refresh"}
Ended == {"installed", "removed", "failed", "refused", "unreadable"}

TypeOK ==
    /\ handler \in [Schemes -> Names]
    /\ apps \subseteq Apps
    /\ file \in BOOLEAN
    /\ wrapper \in BOOLEAN
    /\ rollback \in Rollbacks \cup {Absent, Torn}
    /\ pc \in {"idle"} \cup Installing \cup Removing \cup Ended
    /\ previous \in [Schemes -> Names]
    /\ todo \subseteq Schemes
    /\ chosen \in [Schemes -> Apps \cup {None}]
    /\ keptBack \subseteq Schemes

(* A desktop without the project, or with an earlier version of it. *)
Init ==
    /\ apps = Apps
    /\ chosen \in [Schemes -> Apps \cup {None}]
    /\ \/ /\ rollback = Absent
          /\ handler = chosen
       \/ /\ rollback = [legacy |-> TRUE, previous |-> [s \in {First} |-> chosen[First]]]
          /\ handler = [chosen EXCEPT ![First] = Legacy]
       \/ /\ rollback = [legacy |-> TRUE, previous |-> chosen]
          /\ handler = [s \in Schemes |-> Legacy]
    /\ file = FALSE
    /\ wrapper = (rollback # Absent)
    /\ pc = "idle"
    /\ previous = Nothing
    /\ todo = {}
    /\ keptBack = {}

-----------------------------------------------------------------------------
(* Helpers *)

Move(from, to) == pc = from /\ pc' = to

Readable == rollback \notin {Absent, Torn}
Schema1 == DOMAIN rollback.previous # Schemes

(* _query_handler *)
There(n) == n \in apps \/ (n = Ours /\ file)
Answers(s) == {handler[s]} \cup (IF There(handler[s]) THEN {} ELSE {None})

(* xdg-mime default *)
Store(s, n) == handler' \in {handler, [handler EXCEPT ![s] = n]}

(* _write_rollback writes the file in place: an error or a kill leaves the *)
(* old one or a torn one.                                                  *)
WriteRollback(from, to) ==
    \/ /\ Move(from, to)
       /\ rollback' = [legacy |-> FALSE, previous |-> previous]
    \/ /\ pc = from
       /\ pc' = "failed"
       /\ rollback' \in {rollback, Torn}

-----------------------------------------------------------------------------
(* install: _install_application is over, the wrapper is there *)

BeginInstall ==
    /\ Move("idle", "discover")
    /\ wrapper' = TRUE
    /\ UNCHANGED <<handler, apps, file, rollback, previous, todo, chosen, keptBack>>

(* Mutants: the handlers of today are taken for the previous ones; what an *)
(* old file says is taken for all there is.                                *)
FoundOnly(found) == found
FileOnly(found) == IF Readable THEN rollback.previous ELSE found

(* What the rollback file remembers goes before what was found. *)
Remembered(found) ==
    IF Readable
    THEN [s \in Schemes |-> IF s \in DOMAIN rollback.previous
                            THEN rollback.previous[s] ELSE found[s]]
    ELSE found

Discover ==
    /\ pc = "discover"
    /\ \/ rollback = Torn /\ pc' = "unreadable" /\ UNCHANGED previous
       \/ /\ rollback # Torn
          /\ pc' = IF Readable /\ (Schema1 \/ rollback.legacy) THEN "upgrade" ELSE "file"
          /\ \E found \in [Schemes -> Names] :
                /\ \A s \in Schemes : found[s] \in Answers(s)
                /\ previous' = Remembered(found)
    /\ UNCHANGED <<handler, apps, file, wrapper, rollback, todo, chosen, keptBack>>

Upgrade ==
    /\ WriteRollback("upgrade", "file")
    /\ UNCHANGED <<handler, apps, file, wrapper, previous, todo, chosen, keptBack>>

(* The desktop file is replaced in one rename. *)
WriteFile ==
    /\ Move("file", IF rollback = Absent THEN "record" ELSE "database")
    /\ file' = TRUE
    /\ UNCHANGED <<handler, apps, wrapper, rollback, previous, todo, chosen, keptBack>>

(* Nothing has been registered before this file is written. *)
Record ==
    /\ WriteRollback("record", "database")
    /\ UNCHANGED <<handler, apps, file, wrapper, previous, todo, chosen, keptBack>>

UpdateDatabase ==
    /\ Move("database", "set")
    /\ todo' = Schemes
    /\ UNCHANGED <<handler, apps, file, wrapper, rollback, previous, chosen, keptBack>>

(* Mutant: the schemes are set and not queried again. *)
SetUnverified(s) ==
    /\ pc = "set" /\ s \in todo
    /\ Store(s, Ours)
    /\ pc' = IF todo = {s} THEN "installed" ELSE "set"
    /\ todo' = todo \ {s}
    /\ UNCHANGED <<apps, file, wrapper, rollback, previous, chosen, keptBack>>

(* One scheme is set and queried again. *)
Set(s) ==
    /\ pc = "set" /\ s \in todo
    /\ Store(s, Ours)
    /\ todo' = todo \ {s}
    /\ UNCHANGED <<apps, file, wrapper, rollback, previous, chosen, keptBack>>
    /\ \E a \in Answers(s)' :
        pc' = IF a # Ours THEN "failed"
              ELSE IF todo = {s} THEN "installed" ELSE "set"

-----------------------------------------------------------------------------
(* uninstall *)

BeginUninstall ==
    /\ Move("idle", "read")
    /\ UNCHANGED <<handler, apps, file, wrapper, rollback, previous, todo, chosen, keptBack>>

(* Mutant: the restoration stops after the first scheme. *)
FirstOnly(r) == {s \in {First} : r.previous[s] # None}

(* A scheme that had no handler is not given back to anyone. *)
Restorable(r) == {s \in DOMAIN r.previous : r.previous[s] # None}

Read ==
    /\ \/ /\ Readable
          /\ Move("read", "restore")
          /\ todo' = Restorable(rollback)
          /\ previous' = [s \in Schemes |-> IF s \in DOMAIN rollback.previous
                                            THEN rollback.previous[s] ELSE None]
       \/ /\ ~Readable
          /\ Move("read", IF rollback = Absent THEN "refused" ELSE "unreadable")
          /\ UNCHANGED <<previous, todo>>
    /\ UNCHANGED <<handler, apps, file, wrapper, rollback, chosen, keptBack>>

Restore(s) ==
    /\ pc = "restore" /\ s \in todo
    /\ Store(s, previous[s])
    /\ todo' = todo \ {s}
    /\ UNCHANGED <<apps, file, wrapper, rollback, previous, chosen, keptBack>>
    /\ \E a \in Answers(s)' : pc' = IF a = previous[s] THEN "restore" ELSE "failed"

Unlink ==
    /\ todo = {}
    /\ Move("restore", "forget")
    /\ file' = FALSE
    /\ UNCHANGED <<handler, apps, wrapper, rollback, previous, todo, chosen, keptBack>>

Forget ==
    /\ Move("forget", "refresh")
    /\ rollback' = Absent
    /\ keptBack' = keptBack \cup {s \in DOMAIN rollback.previous : rollback.previous[s] = None}
    /\ UNCHANGED <<handler, apps, file, wrapper, previous, todo, chosen>>

(* update-desktop-database, and then the wrapper goes. *)
Unwrap ==
    /\ Move("refresh", "removed")
    /\ wrapper' = FALSE
    /\ UNCHANGED <<handler, apps, file, rollback, previous, todo, chosen, keptBack>>

-----------------------------------------------------------------------------

(* An error of a file or a desktop command, or a kill, before any step. *)
Fail ==
    /\ pc \in Installing \cup Removing
    /\ pc' = "failed"
    /\ UNCHANGED <<handler, apps, file, wrapper, rollback, previous, todo, chosen, keptBack>>

End ==
    /\ pc \in Ended
    /\ pc' = "idle"
    /\ previous' = Nothing
    /\ todo' = {}
    /\ UNCHANGED <<handler, apps, file, wrapper, rollback, chosen, keptBack>>

(* The user picks another program for a scheme.  The choice counts as the   *)
(* one to give back unless the rollback file already remembers another one. *)
TakenOver(s) == rollback = Torn \/ (Readable /\ s \in DOMAIN rollback.previous)

UserChooses(s) ==
    /\ pc = "idle"
    /\ \E a \in apps :
        /\ handler' = [handler EXCEPT ![s] = a]
        /\ chosen' = IF TakenOver(s) THEN chosen ELSE [chosen EXCEPT ![s] = a]
    /\ UNCHANGED <<apps, file, wrapper, rollback, pc, previous, todo, keptBack>>

UserRemoves(a) ==
    /\ a \in apps
    /\ pc = "idle"
    /\ apps' = apps \ {a}
    /\ chosen' = [s \in Schemes |-> IF chosen[s] = a THEN None ELSE chosen[s]]
    /\ UNCHANGED <<handler, file, wrapper, rollback, pc, previous, todo, keptBack>>

Next ==
    \/ BeginInstall \/ Discover \/ Upgrade \/ WriteFile \/ Record \/ UpdateDatabase
    \/ BeginUninstall \/ Read \/ Unlink \/ Forget \/ Unwrap
    \/ \E s \in Schemes : Set(s) \/ Restore(s) \/ UserChooses(s)
    \/ \E a \in Apps : UserRemoves(a)
    \/ Fail \/ End

Spec == Init /\ [][Next]_vars

-----------------------------------------------------------------------------
(* Properties *)

(***************************************************************************)
(* However often an installation fails, is killed and is run again, and    *)
(* whichever version of the project wrote the rollback file: for a scheme  *)
(* with a program that the user had chosen and that is still there, the    *)
(* file remembers that program.                                            *)
(***************************************************************************)
RollbackKeepsChoice ==
    Readable => \A s \in DOMAIN rollback.previous :
        chosen[s] # None => rollback.previous[s] = chosen[s]

(***************************************************************************)
(* A run that fails half-way and is repeated, or comes after an earlier    *)
(* version, finds the project's own handlers and never writes them down as *)
(* the ones to go back to.  Only a scheme that had no handler when it was  *)
(* taken over may have one of them there, once an uninstallation has taken *)
(* the rollback file away: that leaves the scheme as it is, and the next   *)
(* installation takes what it finds for the choice of the user.            *)
(***************************************************************************)
OwnHandlerOnlyAfterRemoval ==
    Readable => \A s \in DOMAIN rollback.previous :
        rollback.previous[s] \in {Ours, Legacy} => s \in keptBack

(***************************************************************************)
(* The rollback file goes only when every scheme with a program that the   *)
(* user had chosen, and that is still there, is back at it: what an        *)
(* uninstallation that fails before has not given back can be given back   *)
(* by the next one.                                                        *)
(***************************************************************************)
RestoredBeforeForgotten ==
    [][ (rollback # Absent /\ rollback' = Absent)
        => \A s \in Schemes : chosen[s] # None => handler[s] = chosen[s] ]_vars

(***************************************************************************)
(* An installation that reports success has every scheme, its desktop file *)
(* and a rollback file that an uninstallation can read, although xdg-mime  *)
(* may do nothing and say that all is well.                                *)
(***************************************************************************)
InstalledMeansRegistered ==
    pc = "installed" =>
        /\ \A s \in Schemes : handler[s] = Ours
        /\ file /\ Readable /\ ~Schema1

(***************************************************************************)
(* clean-project-design.md:22, "safe to repeat": neither install nor       *)
(* uninstall is ever refused because an interrupted earlier run has left   *)
(* the rollback file unreadable.                                           *)
(***************************************************************************)
SafeToRepeat == pc # "unreadable"

=============================================================================
