---------------------------- MODULE SessionProofs ----------------------------
(***************************************************************************)
(* Proofs about Session, for any set of processes.                         *)
(*                                                                         *)
(* The inductive invariant ties the kernel's lock, which knows nothing of  *)
(* control points, to where the processes are, and a live supervised       *)
(* program to a launcher that waits for it or was killed.                  *)
(***************************************************************************)
EXTENDS Session, TLAPS

-----------------------------------------------------------------------------

(* Between taking the lock and giving it up, a process is the holder. *)
HoldersHold ==
    \A p \in Procs : pc[p] \in Critical \cup {"unprobe"} => lock = p

(* Which commands can be where. *)
CommandsInPlace ==
    \A p \in Procs :
        /\ pc[p] \in Critical \cup {"acquire"} => cmd[p] \in Locked
        /\ pc[p] \in {"start", "wait"} => cmd[p] \in {"debugger", "install"}
        /\ pc[p] = "idle" => child[p] = "none"
        /\ tool[p] # "none" => cmd[p] = "install"

(* A supervised program is alive only under a launcher that waits for it, *)
(* or after its launcher was killed.                                      *)
LiveIsWatched ==
    \A p \in Procs :
        (cmd[p] \in Locked /\ child[p] = "live") => pc[p] \in {"run", "killed"}

RecordedBeforeSpawn ==
    \A p \in Procs :
        (cmd[p] = "launch" /\ pc[p] \in {"spawn", "run"}) => status = "starting"

IInv ==
    /\ TypeOK
    /\ HoldersHold
    /\ CommandsInPlace
    /\ LiveIsWatched
    /\ RecordedBeforeSpawn

-----------------------------------------------------------------------------

(* Lock, control points and children keep their types. *)
THEOREM TypeCorrect == Spec => []TypeOK
<1>1. Init => TypeOK
  BY DEF Init, TypeOK, Running, Ended
<1>2. ASSUME TypeOK, [Next]_vars PROVE TypeOK'
  <2> USE <1>2 DEF TypeOK, Running, Critical, Ended, Move, SetChild
  <2>1. ASSUME NEW p \in Procs, NEW c \in Commands, Start(p, c) PROVE TypeOK'
    <3>1. FirstState(c) \in Running
      BY DEF FirstState
    <3> QED BY <2>1, <3>1 DEF Start
  <2>2. ASSUME NEW p \in Procs, Acquire(p) PROVE TypeOK'
    BY <2>2 DEF Acquire
  <2>3. ASSUME NEW p \in Procs, Gate(p) PROVE TypeOK'
    BY <2>3 DEF Gate
  <2>4. ASSUME NEW p \in Procs, Record(p) PROVE TypeOK'
    BY <2>4 DEF Record
  <2>5. ASSUME NEW p \in Procs, Spawn(p) PROVE TypeOK'
    BY <2>5 DEF Spawn
  <2>6. ASSUME NEW p \in Procs, ProgramExited(p) PROVE TypeOK'
    BY <2>6 DEF ProgramExited
  <2>7. ASSUME NEW p \in Procs, NxdlTimeout(p) PROVE TypeOK'
    BY <2>7 DEF NxdlTimeout
  <2>8. ASSUME NEW p \in Procs, Leave(p) PROVE TypeOK'
    BY <2>8 DEF Leave
  <2>9. ASSUME NEW p \in Procs, ProbeStep(p) PROVE TypeOK'
    BY <2>9 DEF ProbeStep, Probe, Unprobe, Query
  <2>10. ASSUME NEW p \in Procs, StartProgram(p) PROVE TypeOK'
    BY <2>10 DEF StartProgram
  <2>11. ASSUME NEW p \in Procs, ProgramEnded(p) PROVE TypeOK'
    BY <2>11 DEF ProgramEnded
  <2>12. ASSUME NEW p \in Procs, ToolTimeout(p) PROVE TypeOK'
    BY <2>12 DEF ToolTimeout
  <2>13. ASSUME NEW p \in Procs, KillPrefix(p) PROVE TypeOK'
    BY <2>13 DEF KillPrefix
  <2>14. ASSUME NEW p \in Procs, AwaitQuiet(p) PROVE TypeOK'
    BY <2>14 DEF AwaitQuiet
  <2>15. ASSUME NEW p \in Procs, ProgramExits(p) \/ Kill(p) \/ End(p) PROVE TypeOK'
    BY <2>15 DEF ProgramExits, Kill, End
  <2>16. CASE UNCHANGED vars
    BY <2>16 DEF vars
  <2> QED
    BY <2>1, <2>2, <2>3, <2>4, <2>5, <2>6, <2>7, <2>8, <2>9, <2>10, <2>11,
       <2>12, <2>13, <2>14, <2>15, <2>16
    DEF Next, Step, HolderStep, PrefixStep
<1> QED BY <1>1, <1>2, PTL DEF Spec

-----------------------------------------------------------------------------

(* The steps taken under the lock, or to take it. *)
LEMMA HolderSteps ==
    ASSUME IInv, TypeOK', NEW p \in Procs, HolderStep(p)
    PROVE  IInv'
<1> USE NoOneIsNoProc
    DEF IInv, TypeOK, HoldersHold, CommandsInPlace, LiveIsWatched,
        RecordedBeforeSpawn, Critical, Move, SetChild
<1>1. CASE Acquire(p)
  BY <1>1 DEF Acquire, LockIsFree
<1>2. CASE Gate(p)
  BY <1>2 DEF Gate
<1>3. CASE Record(p)
  BY <1>3 DEF Record
<1>4. CASE Spawn(p)
  BY <1>4 DEF Spawn
<1>5. CASE ProgramExited(p)
  BY <1>5 DEF ProgramExited
<1>6. CASE NxdlTimeout(p)
  BY <1>6 DEF NxdlTimeout, Nxdl
<1>7. CASE Leave(p)
  BY <1>7 DEF Leave
<1> QED BY <1>1, <1>2, <1>3, <1>4, <1>5, <1>6, <1>7 DEF HolderStep

(* The steps of the commands that never hold the lock, or only to probe it. *)
LEMMA OtherSteps ==
    ASSUME IInv, TypeOK', NEW p \in Procs, ProbeStep(p) \/ PrefixStep(p)
    PROVE  IInv'
<1> USE NoOneIsNoProc
    DEF IInv, TypeOK, HoldersHold, CommandsInPlace, LiveIsWatched,
        RecordedBeforeSpawn, Critical, Move, SetChild
<1>1. CASE Probe(p)
  BY <1>1 DEF Probe, LockIsFree
<1>2. CASE Unprobe(p)
  BY <1>2 DEF Unprobe
<1>3. CASE Query(p)
  BY <1>3 DEF Query
<1>4. CASE StartProgram(p)
  BY <1>4 DEF StartProgram, Locked, Nxdl
<1>5. CASE ProgramEnded(p)
  BY <1>5 DEF ProgramEnded
<1>6. CASE ToolTimeout(p)
  BY <1>6 DEF ToolTimeout
<1>7. CASE KillPrefix(p)
  <2>1. \A q \in Procs : child'[q] \in {child[q], "gone"}
    BY <1>7 DEF KillPrefix
  <2>2. /\ pc[p] = "kill"
        /\ \/ pc' = [pc EXCEPT ![p] = "drain"]
           \/ pc' = [pc EXCEPT ![p] = "failed"]
        /\ UNCHANGED <<lock, status, cmd, tool>>
    BY <1>7 DEF KillPrefix
  <2>3. \A q \in Procs : pc[q] = "idle" => child'[q] = "none"
    BY <1>7 DEF KillPrefix, PrefixPrograms
  <2>4. HoldersHold' /\ RecordedBeforeSpawn'
    BY <2>2
  <2>5. CommandsInPlace'
    BY <2>2, <2>3
  <2>6. LiveIsWatched'
    BY <2>1, <2>2
  <2> QED BY <2>4, <2>5, <2>6
<1>8. CASE AwaitQuiet(p)
  BY <1>8 DEF AwaitQuiet
<1> QED
  BY <1>1, <1>2, <1>3, <1>4, <1>5, <1>6, <1>7, <1>8 DEF ProbeStep, PrefixStep

THEOREM Invariance == Spec => []IInv
<1> USE NoOneIsNoProc
<1>1. Init => IInv
  BY DEF Init, IInv, TypeOK, HoldersHold, CommandsInPlace, LiveIsWatched,
         RecordedBeforeSpawn, Critical, Running, Ended
<1>2. ASSUME IInv, TypeOK', [Next]_vars PROVE IInv'
  <2> USE <1>2
      DEF IInv, TypeOK, HoldersHold, CommandsInPlace, LiveIsWatched,
          RecordedBeforeSpawn, Critical
  <2>1. ASSUME NEW p \in Procs, NEW c \in Commands, Start(p, c) PROVE IInv'
    <3>1. /\ FirstState(c) \in {"acquire", "probe", "kill", "start"}
          /\ FirstState(c) = "acquire" => c \in Locked
          /\ FirstState(c) = "start" => c \in {"debugger", "install"}
      BY DEF FirstState, Commands, Locked, Nxdl, InPrefix
    <3>2. /\ pc[p] = "idle"
          /\ pc' = [pc EXCEPT ![p] = FirstState(c)]
          /\ cmd' = [cmd EXCEPT ![p] = c]
          /\ tool' = [tool EXCEPT ![p] = IF c = "install" THEN "wineboot" ELSE "none"]
          /\ UNCHANGED <<lock, status, child>>
      BY <2>1 DEF Start, Move
    <3> QED BY <3>1, <3>2
  <2>2. ASSUME NEW p \in Procs, Step(p) PROVE IInv'
    BY <2>2, HolderSteps, OtherSteps DEF Step
  <2>3. ASSUME NEW p \in Procs, ProgramExits(p) PROVE IInv'
    BY <2>3 DEF ProgramExits, SetChild
  <2>4. ASSUME NEW p \in Procs, Kill(p) PROVE IInv'
    BY <2>4 DEF Kill
  <2>5. ASSUME NEW p \in Procs, End(p) PROVE IInv'
    BY <2>5 DEF End, SetChild, Locked, Nxdl
  <2>6. CASE UNCHANGED vars
    BY <2>6 DEF vars
  <2> QED BY <2>1, <2>2, <2>3, <2>4, <2>5, <2>6 DEF Next
<1> QED BY <1>1, <1>2, TypeCorrect, PTL DEF Spec

(* At most one launch, update or download is inside the lock, always. *)
THEOREM MutualExclusion == Spec => []LockHolderAlone
<1>1. IInv => LockHolderAlone
  BY DEF IInv, HoldersHold, LockHolderAlone
<1> QED BY <1>1, Invariance, PTL

(* Two supervised programs run together only after a launcher was killed. *)
THEOREM NoOrderRunsTwo == Spec => []SideBySideOnlyAfterKill
<1>1. IInv => SideBySideOnlyAfterKill
  BY DEF IInv, TypeOK, HoldersHold, LiveIsWatched, Critical, SideBySideOnlyAfterKill
<1> QED BY <1>1, Invariance, PTL

(* A launcher that waits for its game has "starting" on record. *)
THEOREM StatusIsTruthful == Spec => []WaitedGameIsOnRecord
<1>1. IInv => WaitedGameIsOnRecord
  BY DEF IInv, RecordedBeforeSpawn, WaitedGameIsOnRecord
<1> QED BY <1>1, Invariance, PTL

-----------------------------------------------------------------------------
(* The way out of the lock *)

(* The kernel's holder is a command inside the lock, or a probe. *)
HolderInside ==
    \A p \in Procs : lock = p => pc[p] \in Critical \cup {"unprobe"}

RunsItsProgram == \A p \in Procs : pc[p] = "run" => child[p] # "none"

LEMMA HoldersAreInside ==
    ASSUME IInv, HolderInside, RunsItsProgram, [Next]_vars
    PROVE  HolderInside' /\ RunsItsProgram'
<1> USE NoOneIsNoProc
    DEF IInv, TypeOK, HoldersHold, HolderInside, RunsItsProgram, Critical, Move, SetChild
<1>1. ASSUME NEW p \in Procs, NEW c \in Commands, Start(p, c)
      PROVE  HolderInside' /\ RunsItsProgram'
  <2>1. FirstState(c) # "run"
    BY DEF FirstState
  <2> QED BY <1>1, <2>1 DEF Start
<1>2. ASSUME NEW p \in Procs, HolderStep(p) PROVE HolderInside' /\ RunsItsProgram'
  <2>1. CASE Acquire(p)
    BY <2>1 DEF Acquire, LockIsFree
  <2>2. CASE Gate(p) \/ Record(p) \/ Leave(p)
    BY <2>2 DEF Gate, Record, Leave
  <2>3. CASE Spawn(p)
    BY <2>3 DEF Spawn
  <2>4. CASE ProgramExited(p) \/ NxdlTimeout(p)
    BY <2>4 DEF ProgramExited, NxdlTimeout
  <2> QED BY <1>2, <2>1, <2>2, <2>3, <2>4 DEF HolderStep
<1>3. ASSUME NEW p \in Procs, ProbeStep(p) PROVE HolderInside' /\ RunsItsProgram'
  BY <1>3 DEF ProbeStep, Probe, Unprobe, Query, LockIsFree
<1>4. ASSUME NEW p \in Procs, PrefixStep(p) PROVE HolderInside' /\ RunsItsProgram'
  <2>1. CASE KillPrefix(p)
    <3>1. \A q \in Procs : child'[q] \in {child[q], "gone"}
      BY <2>1 DEF KillPrefix
    <3> QED BY <2>1, <3>1 DEF KillPrefix
  <2>2. CASE ~KillPrefix(p)
    BY <1>4, <2>2 DEF PrefixStep, StartProgram, ProgramEnded, ToolTimeout, AwaitQuiet
  <2> QED BY <2>1, <2>2
<1>5. ASSUME NEW p \in Procs, ProgramExits(p) \/ Kill(p) \/ End(p)
      PROVE  HolderInside' /\ RunsItsProgram'
  BY <1>5 DEF ProgramExits, Kill, End, Ended
<1>6. CASE UNCHANGED vars
  BY <1>6 DEF vars
<1> QED BY <1>1, <1>2, <1>3, <1>4, <1>5, <1>6 DEF Next, Step

LEMMA HolderInvariance == Spec => [](HolderInside /\ RunsItsProgram)
<1>1. Init => HolderInside /\ RunsItsProgram
  BY NoOneIsNoProc DEF Init, HolderInside, RunsItsProgram
<1>2. IInv /\ HolderInside /\ RunsItsProgram /\ [Next]_vars => HolderInside' /\ RunsItsProgram'
  BY HoldersAreInside
<1> QED BY <1>1, <1>2, Invariance, PTL DEF Spec

(***************************************************************************)
(* The lock is with a command that can go on by itself, or with a launch   *)
(* whose game is alive.                                                    *)
(***************************************************************************)
THEOREM HeldForAReason == Spec => []LockedForAReason
<1>1. IInv /\ HolderInside /\ RunsItsProgram => LockedForAReason
  BY DEF IInv, TypeOK, CommandsInPlace, HolderInside, RunsItsProgram, LockedForAReason,
         OnItsWay, PlaysTheGame, Critical, Locked
<1> QED BY <1>1, Invariance, HolderInvariance, PTL

(* How many steps a holder has left at most before the lock is free. *)
StepsLeft(at) ==
    CASE at = "gate"   -> 5
      [] at = "record" -> 4
      [] at = "spawn"  -> 3
      [] at = "run"    -> 2
      [] OTHER         -> 1

(* A holder is nearer to the end or where it was, if the step was not its own. *)
Onwards(p) ==
    \/ lock' = NoOne
    \/ /\ lock' = p
       /\ \/ pc'[p] = pc[p] /\ ~Step(p)
          \/ StepsLeft(pc'[p]) < StepsLeft(pc[p])

(***************************************************************************)
(* Five steps of its own bring any holder out of the lock, and nobody else *)
(* sets it back or takes the lock from it: with HeldForAReason, what       *)
(* NxdlLetsGo rests on besides fairness, and StopFreesTheLock once the     *)
(* game has been ended.                                                    *)
(***************************************************************************)
THEOREM HolderGetsOut ==
    Spec => [][\A p \in Procs : lock = p => Onwards(p)]_vars
<1>1. ASSUME IInv, HolderInside, Next, NEW p \in Procs, lock = p PROVE Onwards(p)
  <2> USE <1>1, NoOneIsNoProc DEF IInv, TypeOK, Move
  <2>1. pc[p] \in Critical \cup {"unprobe"}
    BY DEF HolderInside
  <2>2. CASE Step(p)
    <3>1. CASE HolderStep(p)
      <4>1. CASE Acquire(p)
        BY <2>1, <4>1 DEF Acquire, Critical
      <4>2. CASE Gate(p)
        BY <4>2 DEF Gate, Onwards, StepsLeft
      <4>3. CASE Record(p)
        BY <4>3 DEF Record, Onwards, StepsLeft
      <4>4. CASE Spawn(p)
        BY <4>4 DEF Spawn, Onwards, StepsLeft
      <4>5. CASE ProgramExited(p) \/ NxdlTimeout(p)
        BY <4>5 DEF ProgramExited, NxdlTimeout, Onwards, StepsLeft
      <4>6. CASE Leave(p)
        BY <4>6 DEF Leave, Onwards
      <4> QED BY <3>1, <4>1, <4>2, <4>3, <4>4, <4>5, <4>6 DEF HolderStep
    <3>2. CASE ~HolderStep(p)
      BY <2>1, <2>2, <3>2
      DEF Onwards, Critical, Step, ProbeStep, PrefixStep, Probe, Unprobe, Query, StartProgram,
          ProgramEnded, ToolTimeout, KillPrefix, AwaitQuiet
    <3> QED BY <3>1, <3>2
  <2>3. CASE ~Step(p) /\ pc'[p] = pc[p] /\ lock' = p
    BY <2>3 DEF Onwards
  <2>4. ASSUME NEW q \in Procs, q # p, Step(q) PROVE pc'[p] = pc[p] /\ lock' = p
    <3>1. pc[q] \notin Critical \cup {"unprobe"}
      BY <2>4 DEF HoldersHold
    <3>2. CASE HolderStep(q)
      BY <2>4, <3>1, <3>2
      DEF HolderStep, Acquire, LockIsFree, Gate, Record, Spawn, ProgramExited, NxdlTimeout,
          Leave, Critical
    <3>3. CASE ~HolderStep(q)
      BY <2>4, <3>1, <3>3
      DEF Step, ProbeStep, PrefixStep, Probe, Unprobe, Query, LockIsFree, StartProgram,
          ProgramEnded, ToolTimeout, KillPrefix, AwaitQuiet
    <3> QED BY <3>2, <3>3
  <2>5. ASSUME NEW q \in Procs, NEW c \in Commands, Start(q, c)
        PROVE  pc'[p] = pc[p] /\ lock' = p
    BY <2>1, <2>5 DEF Start, Critical
  <2>6. ASSUME NEW q \in Procs, Kill(q) PROVE lock' = NoOne \/ (pc'[p] = pc[p] /\ lock' = p)
    BY <2>6 DEF Kill
  <2>7. ASSUME NEW q \in Procs, ProgramExits(q) \/ End(q)
        PROVE  pc'[p] = pc[p] /\ lock' = p
    BY <2>1, <2>7 DEF ProgramExits, End, Ended, Critical
  <2> QED BY <2>2, <2>3, <2>4, <2>5, <2>6, <2>7 DEF Next, Onwards
<1>2. IInv /\ HolderInside /\ [Next]_vars => [\A p \in Procs : lock = p => Onwards(p)]_vars
  BY <1>1
<1> QED BY <1>2, Invariance, HolderInvariance, PTL DEF Spec

-----------------------------------------------------------------------------
(* Session implements LaunchGate *)

Supervised == {p \in Procs : cmd[p] \in Locked /\ child[p] = "live"}
Abandoned == {p \in Procs : pc[p] = "killed"}

(* The owner in LaunchGate is the process inside the lock. *)
LEMMA OwnerInside ==
    ASSUME IInv
    PROVE  /\ \A p \in Procs : Owner = p <=> pc[p] \in Critical
           /\ Owner = NoOne <=> \A p \in Procs : pc[p] \notin Critical
           /\ Owner \in Procs \cup {NoOne}
BY NoOneIsNoProc DEF IInv, TypeOK, HoldersHold, Owner

(* A step that keeps everybody on the same side of the lock keeps the owner. *)
LEMMA OwnerUnchanged ==
    ASSUME IInv, IInv',
           \A q \in Procs : pc'[q] \in Critical <=> pc[q] \in Critical
    PROVE  Owner' = Owner
<1>1. /\ \A p \in Procs : Owner' = p <=> pc'[p] \in Critical
      /\ Owner' = NoOne <=> \A p \in Procs : pc'[p] \notin Critical
      /\ Owner' \in Procs \cup {NoOne}
  BY NoOneIsNoProc DEF IInv, TypeOK, HoldersHold, Owner
<1> QED BY <1>1, OwnerInside, NoOneIsNoProc

(* Every step of the commands is a step of LaunchGate or invisible there. *)
LEMMA StepRefines ==
    ASSUME IInv, IInv', [Next]_vars
    PROVE  [Gated!Next]_(Gated!gateVars)
<1> DEFINE Same == UNCHANGED <<Owner, Supervised, Abandoned>>
<1> USE DEF IInv, TypeOK, Move, SetChild, Supervised, Abandoned
<1>a. Same => [Gated!Next]_(Gated!gateVars)
  BY DEF Gated!gateVars
<1> HIDE DEF Same
<1>1. ASSUME NEW p \in Procs, NEW c \in Commands, Start(p, c) PROVE Same
  <2>1. FirstState(c) \notin Critical \cup {"killed"}
    BY DEF FirstState, Critical
  <2>2. child[p] = "none" /\ pc[p] = "idle" /\ "idle" \notin Critical
    BY <1>1 DEF Start, CommandsInPlace, Critical
  <2>3. Owner' = Owner
    BY <1>1, <2>1, <2>2, OwnerUnchanged DEF Start
  <2> QED BY <1>1, <2>1, <2>2, <2>3 DEF Start, Same
<1>2. ASSUME NEW p \in Procs, HolderStep(p) PROVE [Gated!Next]_(Gated!gateVars)
  <2>1. CASE Acquire(p)
    <3>1. CASE pc'[p] = "busy"
      <4>1. \A q \in Procs : pc'[q] \in Critical <=> pc[q] \in Critical
        BY <2>1, <3>1 DEF Acquire, Critical
      <4>2. UNCHANGED <<Supervised, Abandoned>>
        BY <2>1, <3>1 DEF Acquire
      <4> QED BY <4>1, <4>2, OwnerUnchanged, <1>a DEF Same
    <3>2. CASE pc'[p] # "busy"
      <4>1. lock = NoOne /\ lock' = p /\ pc[p] = "acquire" /\ pc'[p] = "gate"
        BY <2>1, <3>2 DEF Acquire, LockIsFree
      <4>2. Owner = NoOne /\ Owner' = p
        BY <4>1, NoOneIsNoProc DEF Owner, Critical
      <4>3. p \notin Supervised
        BY <4>1 DEF LiveIsWatched
      <4>4. UNCHANGED <<Supervised, Abandoned>>
        BY <2>1, <4>1 DEF Acquire
      <4> QED BY <4>2, <4>3, <4>4 DEF Gated!Next, Gated!Begin
    <3> QED BY <3>1, <3>2
  <2>2. CASE Gate(p) \/ Record(p) \/ ProgramExited(p)
    <3>1. \A q \in Procs : pc'[q] \in Critical <=> pc[q] \in Critical
      BY <2>2 DEF Gate, Record, ProgramExited, Critical
    <3>2. UNCHANGED <<Supervised, Abandoned>>
      BY <2>2 DEF Gate, Record, ProgramExited
    <3> QED BY <3>1, <3>2, OwnerUnchanged, <1>a DEF Same
  <2>3. CASE Spawn(p)
    <3>1. \A q \in Procs : pc'[q] \in Critical <=> pc[q] \in Critical
      BY <2>3 DEF Spawn, Critical
    <3>2. Owner' = Owner /\ UNCHANGED Abandoned
      BY <2>3, <3>1, OwnerUnchanged DEF Spawn
    <3>3. CASE child' = child
      <4>1. UNCHANGED Supervised
        BY <2>3, <3>3 DEF Spawn
      <4> QED BY <3>2, <4>1, <1>a DEF Same
    <3>4. CASE child' # child
      <4>1. pc[p] = "spawn" /\ child' = [child EXCEPT ![p] = "live"] /\ cmd' = cmd
        BY <2>3, <3>4 DEF Spawn
      <4>2. Owner = p /\ cmd[p] \in Locked
        BY <4>1, OwnerInside DEF Critical, CommandsInPlace
      <4>3. Supervised \subseteq Abandoned
        BY <4>1 DEF LiveIsWatched, HoldersHold, Critical
      <4>4. Supervised' = Supervised \cup {p}
        BY <4>1, <4>2
      <4> QED BY <3>2, <4>2, <4>3, <4>4 DEF Gated!Next, Gated!Start
    <3> QED BY <3>3, <3>4
  <2>4. CASE NxdlTimeout(p)
    <3>1. \A q \in Procs : pc'[q] \in Critical <=> pc[q] \in Critical
      BY <2>4 DEF NxdlTimeout, Critical
    <3>2. Owner' = Owner /\ UNCHANGED Abandoned /\ Supervised' \subseteq Supervised
      BY <2>4, <3>1, OwnerUnchanged DEF NxdlTimeout
    <3> QED BY <3>2 DEF Gated!Next, Gated!ProgramsEnd
  <2>5. CASE Leave(p)
    <3>1. pc[p] = "leave" /\ pc'[p] = "done" /\ lock' = NoOne
      BY <2>5 DEF Leave
    <3>2. Owner = p /\ Owner' = NoOne
      BY <3>1, OwnerInside, NoOneIsNoProc DEF Critical, Owner
    <3>3. p \notin Supervised
      BY <3>1 DEF LiveIsWatched
    <3>4. UNCHANGED <<Supervised, Abandoned>>
      BY <2>5 DEF Leave
    <3> QED BY <3>2, <3>3, <3>4 DEF Gated!Next, Gated!Finish
  <2> QED BY <1>2, <2>1, <2>2, <2>3, <2>4, <2>5 DEF HolderStep
<1>3. ASSUME NEW p \in Procs, ProbeStep(p) PROVE Same
  <2>1. \A q \in Procs : pc'[q] \in Critical <=> pc[q] \in Critical
    BY <1>3 DEF ProbeStep, Probe, Unprobe, Query, Critical
  <2>2. UNCHANGED <<Supervised, Abandoned>>
    BY <1>3 DEF ProbeStep, Probe, Unprobe, Query
  <2> QED BY <2>1, <2>2, OwnerUnchanged DEF Same
<1>4. ASSUME NEW p \in Procs, PrefixStep(p) PROVE [Gated!Next]_(Gated!gateVars)
  <2>1. \A q \in Procs : pc'[q] \in Critical <=> pc[q] \in Critical
    BY <1>4
    DEF PrefixStep, StartProgram, ProgramEnded, ToolTimeout, KillPrefix,
        AwaitQuiet, Critical
  <2>2. Owner' = Owner
    BY <2>1, OwnerUnchanged
  <2>3. UNCHANGED Abandoned
    BY <1>4
    DEF PrefixStep, StartProgram, ProgramEnded, ToolTimeout, KillPrefix, AwaitQuiet
  <2>4. cmd' = cmd
    BY <1>4
    DEF PrefixStep, StartProgram, ProgramEnded, ToolTimeout, KillPrefix, AwaitQuiet
  <2>5. \A q \in Supervised' : q \in Supervised
    <3>1. CASE StartProgram(p)
      BY <2>4, <3>1 DEF StartProgram, CommandsInPlace, Locked, Nxdl
    <3>2. CASE ProgramEnded(p) \/ ToolTimeout(p) \/ AwaitQuiet(p)
      BY <2>4, <3>2 DEF ProgramEnded, ToolTimeout, AwaitQuiet
    <3>3. CASE KillPrefix(p)
      BY <2>4, <3>3 DEF KillPrefix
    <3> QED BY <1>4, <3>1, <3>2, <3>3 DEF PrefixStep
  <2>6. Supervised' \subseteq Supervised
    BY <2>5
  <2> QED BY <2>2, <2>3, <2>6 DEF Gated!Next, Gated!ProgramsEnd
<1>5. ASSUME NEW p \in Procs, ProgramExits(p) PROVE [Gated!Next]_(Gated!gateVars)
  <2>1. Owner' = Owner /\ UNCHANGED Abandoned /\ Supervised' \subseteq Supervised
    BY <1>5, OwnerUnchanged DEF ProgramExits
  <2> QED BY <2>1 DEF Gated!Next, Gated!ProgramsEnd
<1>6. ASSUME NEW p \in Procs, Kill(p) PROVE [Gated!Next]_(Gated!gateVars)
  <2>1. Abandoned' = Abandoned \cup {p} /\ UNCHANGED Supervised
    BY <1>6 DEF Kill
  <2>2. \A q \in Procs : q # p => (pc'[q] \in Critical <=> pc[q] \in Critical)
    BY <1>6 DEF Kill
  <2>3. pc'[p] \notin Critical
    BY <1>6 DEF Kill, Critical
  <2>4. /\ \A q \in Procs : Owner' = q <=> pc'[q] \in Critical
        /\ Owner' \in Procs \cup {NoOne}
    BY NoOneIsNoProc DEF HoldersHold, Owner
  <2>5. Owner' = IF Owner = p THEN NoOne ELSE Owner
    BY <2>2, <2>3, <2>4, OwnerInside, NoOneIsNoProc
  <2> QED BY <2>1, <2>5 DEF Gated!Next, Gated!Abandon
<1>7. ASSUME NEW p \in Procs, End(p) PROVE [Gated!Next]_(Gated!gateVars)
  <2>1. \A q \in Procs : pc'[q] \in Critical <=> pc[q] \in Critical
    BY <1>7 DEF End, Ended, Critical
  <2>2. Owner' = Owner
    BY <2>1, OwnerUnchanged
  <2>3. p \notin Supervised /\ UNCHANGED Supervised
    BY <1>7 DEF End, Locked, Nxdl
  <2>4. Abandoned' = Abandoned \ {p}
    BY <1>7 DEF End
  <2>5. CASE p \in Abandoned
    BY <2>2, <2>3, <2>4, <2>5 DEF Gated!Next, Gated!Forget
  <2>6. CASE p \notin Abandoned
    BY <2>2, <2>3, <2>4, <2>6, <1>a DEF Same
  <2> QED BY <2>5, <2>6
<1>8. CASE UNCHANGED vars
  BY <1>8, <1>a DEF vars, Same, Owner
<1> QED
  BY <1>1, <1>2, <1>3, <1>4, <1>5, <1>6, <1>7, <1>8, <1>a DEF Next, Step

(* The commands that share launch.lock keep the promise of LaunchGate. *)
THEOREM Refinement == Spec => ImplementsGate
<1>1. Init => Gated!Init
  BY NoOneIsNoProc DEF Init, Gated!Init, Owner, Locked
<1>2. IInv /\ IInv' /\ [Next]_vars => [Gated!Next]_(Gated!gateVars)
  BY StepRefines
<1> QED BY <1>1, <1>2, Invariance, PTL DEF Spec, ImplementsGate, Gated!Spec

=============================================================================
