------------------------------- MODULE Client -------------------------------
(***************************************************************************)
(* The game tree at ~/Games/MapleStoryClassic and the commands that put    *)
(* it there: "install --source" copies it, "install --download-client"     *)
(* fetches it with nxdl into a staging sibling and renames it, "update     *)
(* --apply" runs nxdl on the live tree.                                    *)
(*                                                                         *)
(* A tree is the set of files in it.  nxdl writes some files under a name  *)
(* that spells the Windows path with backslashes ("raw"); normalisation    *)
(* moves each to the path it spells ("plain").  nxdl, a program outside    *)
(* this repository, is taken to write any file of the manifest under its   *)
(* own name for it, links as well, to remove nothing, and to stop anywhere;*)
(* when the command that started it is killed it may go on by itself.      *)
(*                                                                         *)
(* An installation decides what to do with the client when it builds its   *)
(* plan and does it much later; only downloads and updates take            *)
(* launch.lock, so two installations interleave freely, and any command    *)
(* may be killed between two steps.                                        *)
(***************************************************************************)
EXTENDS Integers, FiniteSets

CONSTANTS
    Procs,         \* the commands that may run at the same time
    NoOne,         \* the holder of a free lock
    Files,         \* the files of the manifest
    RawFiles,      \* those that nxdl names with backslashes
    Required,      \* those without which a client is incomplete
    Absent,        \* no directory
    GivenClients,  \* what may be at the client path in the beginning
    GivenStages,   \* what may be left in the staging directory
    MaxRuns        \* bound: the commands started in a behaviour

ASSUME FileSets ==
    /\ RawFiles \subseteq Files
    /\ Required \subseteq Files
    /\ "link" \notin Files
ASSUME RunBound == MaxRuns \in Nat

Tree == [plain : SUBSET Files, raw : SUBSET RawFiles, link : BOOLEAN]

ASSUME GivenTrees ==
    /\ GivenClients \subseteq Tree \cup {Absent}
    /\ GivenStages \subseteq Tree \cup {Absent}
    /\ Absent \notin Tree
    /\ NoOne \notin Procs

VARIABLES
    lock,      \* the process that holds launch.lock, or NoOne
    client,    \* the tree at the client path, or Absent
    stage,     \* the tree in the staging directory, or Absent
    temp,      \* temp[p]: the copy an import works on, or Absent
    cmd, pc,   \* the command of a process and where it is
    plan,      \* what the plan of an installation says about the client
    moves,     \* moves[p]: the raw files that p is about to move to their paths
    backups,   \* how many trees were moved aside
    runs       \* how many commands were started

(* History variables: no guard reads them. *)
VARIABLES
    placed,    \* how many trees have been at the client path
    origin,    \* who wrote the tree at the client path last
    orphaned   \* an nxdl was left running when its command was killed

vars == <<lock, client, stage, temp, cmd, pc, plan, moves, backups, runs, placed, origin,
          orphaned>>

-----------------------------------------------------------------------------

Empty == [plain |-> {}, raw |-> {}, link |-> FALSE]

(* _validate_client looks for files, _reject_unsafe_tree for links. *)
Complete(t) == Required \subseteq t.plain
Safe(t) == ~t.link

Installs == {"import", "acquire"}
Commands == Installs \cup {"update"}
UnderLock == {"look", "query", "fetch", "normalize", "move", "validate",
              "recheck", "rename", "confirm", "leave"}
Running == UnderLock \cup {"plan", "work", "lock", "backup", "copy", "promote"}
Ended == {"done", "failed", "collided", "killed"}

(* "orphan": the command was killed and its nxdl goes on. *)

TypeOK ==
    /\ lock \in Procs \cup {NoOne}
    /\ client \in Tree \cup {Absent}
    /\ stage \in Tree \cup {Absent}
    /\ temp \in [Procs -> Tree \cup {Absent}]
    /\ cmd \in [Procs -> Commands \cup {"none"}]
    /\ pc \in [Procs -> {"idle", "orphan"} \cup Running \cup Ended]
    /\ plan \in [Procs -> {"none", "verify", "import", "backup", "acquire"}]
    /\ moves \in [Procs -> SUBSET RawFiles]
    /\ backups \in Nat
    /\ runs \in 0..MaxRuns
    /\ placed \in Nat
    /\ origin \in {"given", "imported", "downloaded", "nxdl"}
    /\ orphaned \in BOOLEAN

Init ==
    /\ lock = NoOne
    /\ client \in GivenClients
    /\ stage \in GivenStages
    /\ temp = [p \in Procs |-> Absent]
    /\ cmd = [p \in Procs |-> "none"]
    /\ pc = [p \in Procs |-> "idle"]
    /\ plan = [p \in Procs |-> "none"]
    /\ moves = [p \in Procs |-> {}]
    /\ backups = 0
    /\ runs = 0
    /\ placed = IF client = Absent THEN 0 ELSE 1
    /\ origin = "given"
    /\ orphaned = FALSE

-----------------------------------------------------------------------------
(* Helpers *)

Move(p, from, to) ==
    /\ pc[p] = from
    /\ pc' = [pc EXCEPT ![p] = to]

(* Mutant: the rename replaces whatever it finds. *)
ReplaceAny(t) == TRUE

(* rename(2) puts a directory over nothing or over an empty directory. *)
Replaceable(t) == t = Absent \/ t = Empty

(* A rename onto the client path: only an empty tree may vanish under it. *)
Place(t, how) ==
    /\ client' = t
    /\ origin' = how
    /\ placed' = IF client = Empty THEN placed ELSE placed + 1

clientVars == <<client, origin, placed>>
fixedVars  == <<cmd, plan, moves, runs, orphaned>>

Start(p, c) ==
    /\ runs < MaxRuns
    /\ runs' = runs + 1
    /\ Move(p, "idle", IF c \in Installs THEN "plan" ELSE "lock")
    /\ cmd' = [cmd EXCEPT ![p] = c]
    /\ UNCHANGED <<lock, stage, temp, plan, moves, backups, orphaned, clientVars>>

-----------------------------------------------------------------------------
(* The plan, and the hours of downloads and builds before the client's turn *)

(* build_install_plan.  Download mode refuses a client that it would have  *)
(* to replace; source mode plans to move an incomplete one aside.          *)
Planned(c) ==
    IF client = Absent THEN IF c = "acquire" THEN "acquire" ELSE "import"
    ELSE IF Complete(client) /\ (c = "acquire" => Safe(client)) THEN "verify"
    ELSE IF c = "acquire" THEN "refuse" ELSE "backup"

BuildPlan(p) ==
    /\ IF Planned(cmd[p]) = "refuse"
       THEN Move(p, "plan", "failed") /\ UNCHANGED plan
       ELSE /\ Move(p, "plan", "work")
            /\ plan' = [plan EXCEPT ![p] = Planned(cmd[p])]
    /\ UNCHANGED <<lock, stage, temp, cmd, moves, backups, runs, orphaned, clientVars>>

(* The actions before the client's; verify_client does nothing. *)
Work(p) ==
    /\ \/ Move(p, "work", CASE plan[p] = "verify"  -> "done"
                            [] plan[p] = "backup"  -> "backup"
                            [] plan[p] = "import"  -> "copy"
                            [] plan[p] = "acquire" -> "lock")
       \/ Move(p, "work", "failed")
    /\ UNCHANGED <<lock, stage, temp, backups, clientVars, fixedVars>>

-----------------------------------------------------------------------------
(* install --source *)

(* backup_client: whatever is at the client path by now is moved aside, *)
(* under a name that nothing has.                                       *)
Backup(p) ==
    /\ \/ /\ client # Absent
          /\ Move(p, "backup", "copy")
          /\ client' = Absent
          /\ backups' = backups + 1
       \/ /\ client = Absent
          /\ Move(p, "backup", "failed")
          /\ UNCHANGED <<client, backups>>
    /\ UNCHANGED <<lock, stage, temp, origin, placed, fixedVars>>

(* Mutant: the copy is not validated before it is promoted. *)
CopyUnchecked(p) ==
    /\ \/ \E t \in [plain : SUBSET Files, raw : {{}}, link : BOOLEAN] :
            /\ Move(p, "copy", "promote")
            /\ temp' = [temp EXCEPT ![p] = t]
       \/ Move(p, "copy", "failed") /\ UNCHANGED temp
    /\ UNCHANGED <<lock, stage, backups, clientVars, fixedVars>>

(* rsync into a fresh sibling, and its validation, which takes links. *)
Copy(p) ==
    /\ \/ \E t \in [plain : SUBSET Files, raw : {{}}, link : BOOLEAN] :
            /\ Complete(t)
            /\ Move(p, "copy", "promote")
            /\ temp' = [temp EXCEPT ![p] = t]
       \/ Move(p, "copy", "failed") /\ UNCHANGED temp
    /\ UNCHANGED <<lock, stage, backups, clientVars, fixedVars>>

(* One rename; when it fails the copy is removed. *)
Promote(p) ==
    /\ \/ /\ Replaceable(client)
          /\ Move(p, "promote", "done")
          /\ Place(temp[p], "imported")
       \/ /\ ~Replaceable(client)
          /\ Move(p, "promote", "failed")
          /\ UNCHANGED clientVars
    /\ temp' = [temp EXCEPT ![p] = Absent]
    /\ UNCHANGED <<lock, stage, backups, fixedVars>>

-----------------------------------------------------------------------------
(* The lock, and what downloads and updates do first *)

Lock(p) ==
    /\ \/ lock = NoOne /\ Move(p, "lock", "look") /\ lock' = p
       \/ lock # NoOne /\ Move(p, "lock", "failed") /\ UNCHANGED lock
    /\ UNCHANGED <<stage, temp, backups, clientVars, fixedVars>>

(* A download leaves an existing client alone, good or bad; an update *)
(* needs one.                                                         *)
Look(p) ==
    /\ Move(p, "look", IF (client = Absent) = (cmd[p] = "acquire") THEN "query" ELSE "leave")
    /\ UNCHANGED <<lock, stage, temp, backups, clientVars, fixedVars>>

(* The manifest query and the disk check; a staging directory that holds a *)
(* link is refused before nxdl sees it.                                    *)
Query(p) ==
    /\ \/ /\ (cmd[p] = "acquire" /\ stage # Absent) => Safe(stage)
          /\ Move(p, "query", "fetch")
       \/ Move(p, "query", "leave")
    /\ UNCHANGED <<lock, stage, temp, backups, clientVars, fixedVars>>

(* Mutant: every file is taken to be written under a raw name. *)
WrittenRaw(t, f) ==
    [(IF t = Absent THEN Empty ELSE t) EXCEPT !.raw = @ \cup ({f} \ {"link"})]

(* nxdl writes a link, or a file of the manifest under its own name for it. *)
Written(t, f) ==
    LET d == IF t = Absent THEN Empty ELSE t IN
    CASE f = "link"       -> [d EXCEPT !.link = TRUE]
      [] f \in RawFiles   -> [d EXCEPT !.raw = @ \cup {f}]
      [] OTHER            -> [d EXCEPT !.plain = @ \cup {f}]

Fetch(p) ==
    /\ pc[p] \in {"fetch", "orphan"}
    /\ \E f \in Files \cup {"link"} :
        \/ /\ cmd[p] = "acquire"
           /\ stage' = Written(stage, f)
           /\ UNCHANGED clientVars
        \/ /\ cmd[p] = "update"
           /\ client' = Written(client, f)
           /\ origin' = "nxdl"
           /\ placed' = IF client = Absent THEN placed + 1 ELSE placed
           /\ UNCHANGED stage
    /\ UNCHANGED <<lock, temp, backups, pc, fixedVars>>

(* nxdl exits.  A failure, or its time limit, leaves the tree as it is; an *)
(* update is over either way.                                              *)
FetchEnds(p) ==
    /\ \/ Move(p, "fetch", "leave")
       \/ Move(p, "orphan", "killed")
       \/ cmd[p] = "acquire" /\ stage # Absent /\ Move(p, "fetch", "normalize")
    /\ UNCHANGED <<lock, stage, temp, backups, clientVars, fixedVars>>

-----------------------------------------------------------------------------
(* install --download-client, after nxdl has exited with success *)

(* A raw file spells the path of a file that is already there. *)
Collides(t) == t.raw \cap t.plain # {}

(* What is to be moved is listed, and links and collisions are looked for,  *)
(* before the first file is moved.                                         *)
Normalize(p) ==
    /\ pc[p] = "normalize"
    /\ \/ /\ ~Safe(stage)
          /\ Move(p, "normalize", "leave")
          /\ UNCHANGED <<lock, moves>>
       \/ /\ Safe(stage) /\ ~Collides(stage)
          /\ Move(p, "normalize", "move")
          /\ moves' = [moves EXCEPT ![p] = stage.raw]
          /\ UNCHANGED lock
       \/ /\ Safe(stage) /\ Collides(stage)
          /\ Move(p, "normalize", "collided")
          /\ lock' = NoOne
          /\ UNCHANGED moves
    /\ UNCHANGED <<stage, temp, backups, cmd, plan, runs, orphaned, clientVars>>

(* Mutant: a move that fails takes the raw file away. *)
MoveOrDrop(p) ==
    /\ pc[p] = "move"
    /\ \/ \E f \in moves[p] :
            /\ stage' = [stage EXCEPT !.raw = @ \ {f}]
            /\ moves' = [moves EXCEPT ![p] = @ \ {f}]
            /\ UNCHANGED pc
       \/ moves[p] = {} /\ Move(p, "move", "validate") /\ UNCHANGED <<stage, moves>>
    /\ UNCHANGED <<lock, temp, backups, cmd, plan, runs, orphaned, clientVars>>

(* Each listed file goes to its path; a failed move ends the command.  What *)
(* an orphaned nxdl writes under a raw name meanwhile is not moved.         *)
MoveFile(p) ==
    /\ pc[p] = "move"
    /\ \/ \E f \in moves[p] :
            /\ stage' = [stage EXCEPT !.raw = @ \ {f}, !.plain = @ \cup {f}]
            /\ moves' = [moves EXCEPT ![p] = @ \ {f}]
            /\ UNCHANGED pc
       \/ moves[p] = {} /\ Move(p, "move", "validate") /\ UNCHANGED <<stage, moves>>
       \/ /\ moves[p] # {}
          /\ Move(p, "move", "leave")
          /\ moves' = [moves EXCEPT ![p] = {}]
          /\ UNCHANGED stage
    /\ UNCHANGED <<lock, temp, backups, cmd, plan, runs, orphaned, clientVars>>

(* Mutant: only links are looked for before the promotion. *)
AcceptSafe(t) == Safe(t)

(* _validate_downloaded_client and _reject_unsafe_tree. *)
Acceptable(t) == Complete(t) /\ Safe(t)

ValidateStage(p) ==
    /\ pc[p] = "validate"
    /\ Move(p, "validate", IF Acceptable(stage) THEN "recheck" ELSE "leave")
    /\ UNCHANGED <<lock, stage, temp, backups, clientVars, fixedVars>>

(* "client destination appeared during download" *)
Recheck(p) ==
    /\ Move(p, "recheck", IF client = Absent THEN "rename" ELSE "leave")
    /\ UNCHANGED <<lock, stage, temp, backups, clientVars, fixedVars>>

Rename(p) ==
    /\ \/ /\ Replaceable(client)
          /\ Move(p, "rename", "confirm")
          /\ Place(stage, "downloaded")
          /\ stage' = Absent
       \/ /\ ~Replaceable(client)
          /\ Move(p, "rename", "leave")
          /\ UNCHANGED <<stage, clientVars>>
    /\ UNCHANGED <<lock, temp, backups, fixedVars>>

(* The last validation, of the live tree. *)
Confirm(p) ==
    /\ Move(p, "confirm", "leave")
    /\ UNCHANGED <<lock, stage, temp, backups, clientVars, fixedVars>>

Leave(p) ==
    /\ Move(p, "leave", "done")
    /\ lock' = NoOne
    /\ UNCHANGED <<stage, temp, backups, clientVars, fixedVars>>

-----------------------------------------------------------------------------

(* A command is killed; what it has written stays where it is, the copy of *)
(* an import as a directory nobody looks at again.                         *)
Kill(p) ==
    /\ pc[p] \in Running
    /\ pc' = [pc EXCEPT ![p] = IF @ = "fetch" THEN "orphan" ELSE "killed"]
    /\ lock' = IF lock = p THEN NoOne ELSE lock
    /\ temp' = [temp EXCEPT ![p] = Absent]
    /\ moves' = [moves EXCEPT ![p] = {}]
    /\ orphaned' = (orphaned \/ pc[p] = "fetch")
    /\ UNCHANGED <<stage, backups, cmd, plan, runs, clientVars>>

End(p) ==
    /\ pc[p] \in Ended
    /\ pc' = [pc EXCEPT ![p] = "idle"]
    /\ cmd' = [cmd EXCEPT ![p] = "none"]
    /\ plan' = [plan EXCEPT ![p] = "none"]
    /\ UNCHANGED <<lock, stage, temp, moves, backups, runs, orphaned, clientVars>>

Step(p) ==
    \/ BuildPlan(p) \/ Work(p)
    \/ Backup(p) \/ Copy(p) \/ Promote(p)
    \/ Lock(p) \/ Look(p) \/ Query(p) \/ Fetch(p) \/ FetchEnds(p)
    \/ Normalize(p) \/ MoveFile(p) \/ ValidateStage(p)
    \/ Recheck(p) \/ Rename(p) \/ Confirm(p) \/ Leave(p)

Next ==
    \/ \E p \in Procs, c \in Commands : Start(p, c)
    \/ \E p \in Procs : Step(p) \/ Kill(p) \/ End(p)

Spec == Init /\ [][Next]_vars

-----------------------------------------------------------------------------
(* Properties *)

(***************************************************************************)
(* The live client path is never partially populated                       *)
(* (zero-client-download-design.md:92): a tree that an import or a         *)
(* download has put there has every required file at every moment and      *)
(* after every kill, whatever other installations do.  A downloaded tree   *)
(* holds no link either, unless an nxdl outlived its command and wrote     *)
(* behind the back of the check.                                           *)
(***************************************************************************)
InstalledClientComplete ==
    client # Absent =>
        /\ origin \in {"imported", "downloaded"} => Complete(client)
        /\ origin = "downloaded" => Safe(client) \/ orphaned

(***************************************************************************)
(* No tree that was ever at the client path is destroyed: it is still      *)
(* there or it was moved aside, also when two installations that planned   *)
(* on the same sight of it execute one after the other.                    *)
(***************************************************************************)
NoClientTreeLost ==
    placed = backups + IF client = Absent THEN 0 ELSE 1

(***************************************************************************)
(* What nxdl has fetched is kept: a file in the staging directory stays    *)
(* there, under its raw or its plain name, until the whole directory       *)
(* becomes the client.                                                     *)
(***************************************************************************)
StageIsKept ==
    [][ \/ stage = Absent
        \/ /\ stage' # Absent
           /\ stage.plain \subseteq stage'.plain
           /\ stage.raw \subseteq stage'.raw \cup stage'.plain
        \/ stage' = Absent /\ client' = stage ]_vars

(***************************************************************************)
(* Imports, downloads and updates implement ClientPath: a reader of the    *)
(* client path, as the next launch is, sees a client appear whole, stay or *)
(* grow, and be put aside, whatever is locked, staged, copied or killed.   *)
(***************************************************************************)
HasUpdater(p) == cmd[p] = "update" /\ pc[p] \in {"fetch", "orphan"}

Path == INSTANCE ClientPath WITH
    Ops      <- Procs,
    exists   <- client # Absent,
    files    <- IF client = Absent THEN {} ELSE client.plain,
    aside    <- backups,
    updating <- {p \in Procs : HasUpdater(p)}

ImplementsPath == Path!Spec

(***************************************************************************)
(* zero-client-download-design.md:98: an interrupted download is retried   *)
(* by the same command on the same staging directory; what the interrupted *)
(* run has left there is no reason to refuse the retry.                    *)
(***************************************************************************)
RetryNeverCollides == \A p \in Procs : pc[p] # "collided"

=============================================================================
