------------------------------- MODULE Session -------------------------------
(***************************************************************************)
(* The commands that share launch.lock and the Wine prefix.                *)
(*                                                                         *)
(* A website launch holds the lock from before its checks until the game   *)
(* it waits for has exited; an applied update and a client download hold   *)
(* it around nxdl; "update" without --apply only probes it.  The lock is   *)
(* an flock: it is gone as soon as its holder dies, and the game or nxdl   *)
(* the holder had started need not die with it.                            *)
(*                                                                         *)
(* "stop", the debugger and the installer's Wine steps use the same prefix *)
(* as the game and never look at the lock: wineserver -k, run by "stop"    *)
(* and by the installer, ends every Windows program in the prefix.         *)
(***************************************************************************)
EXTENDS Integers

CONSTANTS
    Procs,  \* the commands that may run at the same time
    NoOne   \* the holder of a free lock

ASSUME NoOneIsNoProc == NoOne \notin Procs

VARIABLES
    lock,      \* the process that holds the flock on launch.lock, or NoOne
    lockFile,  \* launch.lock exists
    status,    \* the stage in last-launch-status.json
    cmd,       \* the command a process runs
    tool,      \* the installer's Wine tool of the moment
    pc,        \* where a process is
    child      \* the program it started: none, live or gone

vars == <<lock, lockFile, status, cmd, tool, pc, child>>

-----------------------------------------------------------------------------

Nxdl     == {"update", "download"}         \* commands that run nxdl
Locked   == {"launch"} \cup Nxdl           \* commands that hold the lock
InPrefix == {"launch", "debugger", "install"}  \* their program runs in Wine
Commands == Locked \cup InPrefix \cup {"query", "stop"}

(* The states of a process that holds the lock, but for a probe. *)
Critical == {"gate", "record", "spawn", "run", "leave"}

Running == Critical \cup {"acquire", "probe", "unprobe", "query",
                          "start", "wait", "kill", "drain"}
Ended   == {"busy", "done", "failed", "killed"}

TypeOK ==
    /\ lock \in Procs \cup {NoOne}
    /\ lockFile \in BOOLEAN
    /\ status \in {"none", "starting", "spawn-failed", "exited"}
    /\ cmd \in [Procs -> Commands \cup {"none"}]
    /\ tool \in [Procs -> {"none", "wineboot", "regedit", "ngs"}]
    /\ pc \in [Procs -> {"idle"} \cup Running \cup Ended]
    /\ child \in [Procs -> {"none", "live", "gone"}]

Init ==
    /\ lock = NoOne
    /\ lockFile = FALSE
    /\ status = "none"
    /\ cmd = [p \in Procs |-> "none"]
    /\ tool = [p \in Procs |-> "none"]
    /\ pc = [p \in Procs |-> "idle"]
    /\ child = [p \in Procs |-> "none"]

-----------------------------------------------------------------------------
(* Helpers *)

Move(p, from, to) ==
    /\ pc[p] = from
    /\ pc' = [pc EXCEPT ![p] = to]

SetChild(p, state) == child' = [child EXCEPT ![p] = state]

PrefixPrograms == {q \in Procs : cmd[q] \in InPrefix /\ child[q] = "live"}

FirstState(c) ==
    CASE c \in Locked   -> "acquire"
      [] c = "query"    -> "probe"
      [] c = "stop"     -> "kill"
      [] OTHER          -> "start"

(* The command of a process starts; an install starts with wineboot. *)
Start(p, c) ==
    /\ Move(p, "idle", FirstState(c))
    /\ cmd' = [cmd EXCEPT ![p] = c]
    /\ tool' = [tool EXCEPT ![p] = IF c = "install" THEN "wineboot" ELSE "none"]
    /\ UNCHANGED <<lock, lockFile, status, child>>

-----------------------------------------------------------------------------
(* The holders of the lock: launch, update --apply, client download *)

(* Mutant: the lock is opened but never asked for. *)
NobodyAsks == TRUE

(* Opening creates the file; the flock never blocks. *)
LockIsFree == lock = NoOne

(* Mutant: a refused launch reports a failed spawn. *)
AcquireOrReport(p) ==
    /\ \/ LockIsFree /\ Move(p, "acquire", "gate") /\ lock' = p /\ UNCHANGED status
       \/ /\ ~LockIsFree
          /\ Move(p, "acquire", "busy")
          /\ status' = "spawn-failed"
          /\ UNCHANGED lock
    /\ lockFile' = TRUE
    /\ UNCHANGED <<cmd, tool, child>>

Acquire(p) ==
    /\ \/ LockIsFree /\ Move(p, "acquire", "gate") /\ lock' = p
       \/ ~LockIsFree /\ Move(p, "acquire", "busy") /\ UNCHANGED lock
    /\ lockFile' = TRUE
    /\ UNCHANGED <<status, cmd, tool, child>>

(* The checks under the lock: approval, runtime and NGS for a launch, the  *)
(* manifest and disk check for nxdl.  A check that raises, and a download  *)
(* that finds a client already there, leave at once.                       *)
Gate(p) ==
    /\ \/ Move(p, "gate", IF cmd[p] = "launch" THEN "record" ELSE "spawn")
       \/ Move(p, "gate", "leave")
    /\ UNCHANGED <<lock, lockFile, status, cmd, tool, child>>

(* _write_launch_status replaces the file in one rename.  An error before   *)
(* it leaves the old status; one after it, from chmod, leaves the new one   *)
(* of a launch that goes no further.                                        *)
Record(p) ==
    /\ \/ Move(p, "record", "spawn") /\ status' = "starting"
       \/ Move(p, "record", "leave") /\ status' \in {"starting", status}
    /\ UNCHANGED <<lock, lockFile, cmd, tool, child>>

Spawn(p) ==
    /\ \/ Move(p, "spawn", "run") /\ SetChild(p, "live") /\ UNCHANGED status
       \/ /\ Move(p, "spawn", "leave")
          /\ status' \in IF cmd[p] = "launch" THEN {"spawn-failed", status}
                                              ELSE {status}
          /\ UNCHANGED child
    /\ UNCHANGED <<lock, lockFile, cmd, tool>>

(* Mutant: the launch starts the game and does not wait for it. *)
ProgramNotAwaited(p) ==
    /\ Move(p, "run", "leave")
    /\ status' \in IF cmd[p] = "launch" THEN {"exited", status} ELSE {status}
    /\ UNCHANGED <<lock, lockFile, cmd, tool, child>>

(* The program has exited; a launch records it, if the status can be written. *)
ProgramExited(p) ==
    /\ child[p] = "gone"
    /\ Move(p, "run", "leave")
    /\ status' \in IF cmd[p] = "launch" THEN {"exited", status} ELSE {status}
    /\ UNCHANGED <<lock, lockFile, cmd, tool, child>>

(* Mutant: only the update passes a timeout to nxdl. *)
UpdateTimeout(p) ==
    /\ cmd[p] = "update"
    /\ child[p] = "live"
    /\ Move(p, "run", "leave")
    /\ SetChild(p, "gone")
    /\ UNCHANGED <<lock, lockFile, status, cmd, tool>>

(* Mutant: the timeout gives up on nxdl without killing it. *)
TimeoutWithoutKill(p) ==
    /\ cmd[p] \in Nxdl
    /\ child[p] = "live"
    /\ Move(p, "run", "leave")
    /\ UNCHANGED <<lock, lockFile, status, cmd, tool, child>>

(* subprocess.run kills nxdl when its time is over; a game has no timeout. *)
NxdlTimeout(p) ==
    /\ cmd[p] \in Nxdl
    /\ child[p] = "live"
    /\ Move(p, "run", "leave")
    /\ SetChild(p, "gone")
    /\ UNCHANGED <<lock, lockFile, status, cmd, tool>>

(* The lock goes with the descriptor when the with-block ends. *)
Leave(p) ==
    /\ Move(p, "leave", "done")
    /\ lock' = NoOne
    /\ UNCHANGED <<lockFile, status, cmd, tool, child>>

-----------------------------------------------------------------------------
(* "update" without --apply: _ensure_not_locked, then the manifest query *)

(* Mutant: a probe that gets the lock keeps it during the query. *)
ProbeAndKeep(p) ==
    /\ \/ ~lockFile /\ Move(p, "probe", "query") /\ UNCHANGED lock
       \/ lockFile /\ LockIsFree /\ Move(p, "probe", "query") /\ lock' = p
       \/ lockFile /\ ~LockIsFree /\ Move(p, "probe", "busy") /\ UNCHANGED lock
    /\ UNCHANGED <<lockFile, status, cmd, tool, child>>

Probe(p) ==
    /\ \/ ~lockFile /\ Move(p, "probe", "query") /\ UNCHANGED lock
       \/ lockFile /\ LockIsFree /\ Move(p, "probe", "unprobe") /\ lock' = p
       \/ lockFile /\ ~LockIsFree /\ Move(p, "probe", "busy") /\ UNCHANGED lock
    /\ UNCHANGED <<lockFile, status, cmd, tool, child>>

Unprobe(p) ==
    /\ Move(p, "unprobe", "query")
    /\ lock' = NoOne
    /\ UNCHANGED <<lockFile, status, cmd, tool, child>>

Query(p) ==
    /\ Move(p, "query", "done") \/ Move(p, "query", "failed")
    /\ UNCHANGED <<lock, lockFile, status, cmd, tool, child>>

-----------------------------------------------------------------------------
(* The prefix without the lock: debugger, the installer's Wine steps, stop *)

StartProgram(p) ==
    /\ \/ Move(p, "start", "wait") /\ SetChild(p, "live")
       \/ Move(p, "start", "failed") /\ UNCHANGED child
    /\ UNCHANGED <<lock, lockFile, status, cmd, tool>>

(* wineboot and the NGS installer are followed by a stop of the prefix,    *)
(* regedit by the NGS installer.                                           *)
ProgramEnded(p) ==
    /\ child[p] = "gone"
    /\ \/ cmd[p] = "debugger" /\ Move(p, "wait", "done") /\ UNCHANGED tool
       \/ cmd[p] = "install" /\ Move(p, "wait", "failed") /\ UNCHANGED tool
       \/ tool[p] \in {"wineboot", "ngs"} /\ Move(p, "wait", "kill") /\ UNCHANGED tool
       \/ /\ tool[p] = "regedit"
          /\ Move(p, "wait", "start")
          /\ tool' = [tool EXCEPT ![p] = "ngs"]
    /\ UNCHANGED <<lock, lockFile, status, cmd, child>>

(* Mutant: a timed-out tool leaves the installer in a state nothing handles. *)
ToolHangs(p) ==
    /\ cmd[p] = "install"
    /\ child[p] = "live"
    /\ Move(p, "wait", "timeout")
    /\ SetChild(p, "gone")
    /\ UNCHANGED <<lock, lockFile, status, cmd, tool>>

(* A timed-out wineboot is accepted when the prefix proves initialised. *)
ToolTimeout(p) ==
    /\ cmd[p] = "install"
    /\ child[p] = "live"
    /\ Move(p, "wait", IF tool[p] = "wineboot" THEN "kill" ELSE "failed")
    /\ SetChild(p, "gone")
    /\ UNCHANGED <<lock, lockFile, status, cmd, tool>>

(* Mutant: a refusal of wineserver -k is reported as a success. *)
RefusalIgnored(p) ==
    /\ \/ /\ Move(p, "kill", "drain")
          /\ child' = [q \in Procs |-> IF q \in PrefixPrograms THEN "gone" ELSE child[q]]
       \/ Move(p, "kill", "done") /\ UNCHANGED child
    /\ UNCHANGED <<lock, lockFile, status, cmd, tool>>

(* wineserver -k: every program of the prefix ends, whoever started it; or *)
(* the server is unavailable, refuses or takes longer than 15 seconds.     *)
KillPrefix(p) ==
    /\ \/ /\ Move(p, "kill", "drain")
          /\ child' = [q \in Procs |-> IF q \in PrefixPrograms THEN "gone" ELSE child[q]]
       \/ Move(p, "kill", "failed") /\ UNCHANGED child
    /\ UNCHANGED <<lock, lockFile, status, cmd, tool>>

(* wineserver -w returns when the prefix is quiet, or times out.  The      *)
(* installer goes on, unless what it expects to find is not there.         *)
AwaitQuiet(p) ==
    /\ \/ /\ PrefixPrograms = {}
          /\ \/ tool[p] # "wineboot" /\ Move(p, "drain", "done") /\ UNCHANGED tool
             \/ /\ tool[p] = "wineboot"
                /\ Move(p, "drain", "start")
                /\ tool' = [tool EXCEPT ![p] = "regedit"]
       \/ Move(p, "drain", "failed") /\ UNCHANGED tool
    /\ UNCHANGED <<lock, lockFile, status, cmd, child>>

-----------------------------------------------------------------------------
(* What happens to the processes *)

(* A program exits by itself. *)
ProgramExits(p) ==
    /\ child[p] = "live"
    /\ SetChild(p, "gone")
    /\ UNCHANGED <<lock, lockFile, status, cmd, tool, pc>>

(* A command is killed: the kernel closes its descriptors, its program and *)
(* the status file stay as they are.                                       *)
Kill(p) ==
    /\ pc[p] \in Running
    /\ pc' = [pc EXCEPT ![p] = "killed"]
    /\ lock' = IF lock = p THEN NoOne ELSE lock
    /\ UNCHANGED <<lockFile, status, cmd, tool, child>>

(* The slot of a command is free when the program it started is gone too. *)
End(p) ==
    /\ pc[p] \in Ended
    /\ child[p] # "live"
    /\ pc' = [pc EXCEPT ![p] = "idle"]
    /\ cmd' = [cmd EXCEPT ![p] = "none"]
    /\ tool' = [tool EXCEPT ![p] = "none"]
    /\ SetChild(p, "none")
    /\ UNCHANGED <<lock, lockFile, status>>

HolderStep(p) ==
    \/ Acquire(p)
    \/ Gate(p)
    \/ Record(p)
    \/ Spawn(p)
    \/ ProgramExited(p)
    \/ NxdlTimeout(p)
    \/ Leave(p)

ProbeStep(p) == Probe(p) \/ Unprobe(p) \/ Query(p)

PrefixStep(p) ==
    \/ StartProgram(p)
    \/ ProgramEnded(p)
    \/ ToolTimeout(p)
    \/ KillPrefix(p)
    \/ AwaitQuiet(p)

Step(p) == HolderStep(p) \/ ProbeStep(p) \/ PrefixStep(p)

Next ==
    \/ \E p \in Procs, c \in Commands : Start(p, c)
    \/ \E p \in Procs : Step(p) \/ ProgramExits(p) \/ Kill(p) \/ End(p)

(* A command that is not killed takes its next step; only what has a       *)
(* timeout in the code is sure to end, a game or a debugger is not.        *)
Fairness == \A p \in Procs : WF_vars(Step(p))

Spec == Init /\ [][Next]_vars
FairSpec == Spec /\ Fairness

-----------------------------------------------------------------------------
(* Properties *)

(***************************************************************************)
(* At most one launch, applied update or download is between taking the    *)
(* lock and giving it up, and it is the one the kernel calls the holder,   *)
(* whoever is killed, probing or stopping the prefix meanwhile.            *)
(***************************************************************************)
LockHolderAlone ==
    \A p \in Procs : pc[p] \in Critical => lock = p

(***************************************************************************)
(* Two games or downloads run side by side only after the launcher process *)
(* of one of them was killed: no order of clicks, updates and stops does   *)
(* it (runner.py keeps the lock until the game is reaped).                 *)
(***************************************************************************)
SideBySideOnlyAfterKill ==
    \A p, q \in Procs :
        (/\ p # q
         /\ cmd[p] \in Locked /\ child[p] = "live"
         /\ cmd[q] \in Locked /\ child[q] = "live")
        => "killed" \in {pc[p], pc[q]}

(***************************************************************************)
(* While a launcher waits for its game, last-launch-status.json says       *)
(* "starting": no other command's status hides the launch that is on.      *)
(***************************************************************************)
WaitedGameIsOnRecord ==
    \A p \in Procs :
        (cmd[p] = "launch" /\ pc[p] = "run") => status = "starting"

(***************************************************************************)
(* Nobody is told "game launch or update is active" (updater.py:193) by a  *)
(* lock that nobody will give up: whoever has it can take its next step    *)
(* towards the end by itself, because it waits for nothing, for an nxdl    *)
(* with a time limit, or for a program that is gone; or it is a launch and *)
(* its game is alive.                                                      *)
(***************************************************************************)
OnItsWay(p) ==
    \/ pc[p] \in {"gate", "record", "spawn", "leave", "unprobe"}
    \/ pc[p] = "run" /\ (child[p] = "gone" \/ (cmd[p] \in Nxdl /\ child[p] = "live"))

PlaysTheGame(p) == cmd[p] = "launch" /\ pc[p] = "run" /\ child[p] = "live"

LockedForAReason ==
    \A p \in Procs : lock = p => OnItsWay(p) \/ PlaysTheGame(p)

(***************************************************************************)
(* troubleshooting.md:95-98, for every way a launcher process can end:     *)
(* while a game is alive another click does not start a second one.        *)
(***************************************************************************)
NoDuplicateClient ==
    \A p, q \in Procs :
        (cmd[p] = "launch" /\ child[p] = "live" /\ cmd[q] = "launch" /\ child[q] = "live")
        => p = q

(***************************************************************************)
(* A hanging nxdl cannot lock the game out for ever: the timeouts of       *)
(* update and download let the lock go although nobody ends nxdl.          *)
(***************************************************************************)
NxdlLetsGo ==
    \A p \in Procs : (lock = p /\ cmd[p] \in Nxdl) ~> (lock # p)

(***************************************************************************)
(* "stop" gets a user out of a hanging game: once wineserver -k has been   *)
(* asked for, either stop reports failure (or dies) or the launch that     *)
(* waits for the game gives the lock up (quick-start-lubuntu-pve.md:254).  *)
(***************************************************************************)
StopFreesTheLock ==
    \A p, q \in Procs :
        (cmd[p] = "launch" /\ pc[p] = "run" /\ pc[q] = "kill")
        ~> (lock # p \/ pc[q] \in {"failed", "killed"})

(***************************************************************************)
(* The lock protocol implements LaunchGate: probes, the prefix commands    *)
(* and the lock file are invisible there.                                  *)
(***************************************************************************)
Owner == IF lock \in Procs /\ pc[lock] \in Critical THEN lock ELSE NoOne

Gated == INSTANCE LaunchGate WITH
    Ops       <- Procs,
    owner     <- Owner,
    running   <- {p \in Procs : cmd[p] \in Locked /\ child[p] = "live"},
    abandoned <- {p \in Procs : pc[p] = "killed"}

ImplementsGate == Gated!Spec

=============================================================================
