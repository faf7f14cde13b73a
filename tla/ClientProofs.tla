---------------------------- MODULE ClientProofs ----------------------------
(***************************************************************************)
(* Proofs about Client, for any sets of processes, files and given trees,  *)
(* and any number of commands.                                             *)
(*                                                                         *)
(* A tree reaches the client path in one rename, from the staging          *)
(* directory or from the copy of an import.  The inductive invariant says  *)
(* what is known of those two on the way there, while orphans of killed    *)
(* downloads may go on writing.                                            *)
(***************************************************************************)
EXTENDS Client, TLAPS

-----------------------------------------------------------------------------

HoldersHold == \A p \in Procs : pc[p] \in UnderLock => lock = p

PlansAreMade == \A p \in Procs : pc[p] = "work" => plan[p] # "none"

CopiesAreChecked ==
    \A p \in Procs : pc[p] = "promote" => temp[p] # Absent /\ Complete(temp[p])

(* From normalisation on there is a staged tree, from its validation on it *)
(* is complete, and holds a link only if an orphan has written one since.  *)
StageIsChecked ==
    \A p \in Procs :
        /\ pc[p] \in {"normalize", "move", "validate", "recheck", "rename"} => stage # Absent
        /\ pc[p] \in {"recheck", "rename"} => Complete(stage) /\ (Safe(stage) \/ orphaned)

OrphansAreKnown == \A p \in Procs : pc[p] = "orphan" => orphaned

IInv ==
    /\ TypeOK
    /\ HoldersHold
    /\ PlansAreMade
    /\ CopiesAreChecked
    /\ StageIsChecked
    /\ OrphansAreKnown
    /\ InstalledClientComplete
    /\ NoClientTreeLost

-----------------------------------------------------------------------------

LEMMA EmptyIsATree == Empty \in Tree /\ Empty # Absent
<1>1. Empty \in Tree
  BY Zenon DEF Tree, Empty
<1> QED BY <1>1, GivenTrees

(* nxdl makes a tree of nothing, and only adds to one. *)
LEMMA WrittenGrows ==
    ASSUME NEW t \in Tree \cup {Absent}, NEW f \in Files \cup {"link"}
    PROVE  /\ Written(t, f) \in Tree
           /\ t # Absent => /\ t.plain \subseteq Written(t, f).plain
                            /\ t.raw \subseteq Written(t, f).raw
<1> DEFINE d == IF t = Absent THEN Empty ELSE t
<1>1. d \in Tree /\ (t # Absent => d = t)
  BY EmptyIsATree
<1>2. CASE f = "link"
  BY <1>1, <1>2 DEF Written, Tree
<1>3. CASE f # "link" /\ f \in RawFiles
  BY <1>1, <1>3 DEF Written, Tree
<1>4. CASE f # "link" /\ f \notin RawFiles
  BY <1>1, <1>4 DEF Written, Tree
<1> QED BY <1>2, <1>3, <1>4

LEMMA InitialState == Init => IInv
<1> SUFFICES ASSUME Init PROVE IInv
  OBVIOUS
<1>1. TypeOK
  <2>1. client \in Tree \cup {Absent} /\ stage \in Tree \cup {Absent}
    BY GivenTrees DEF Init
  <2>2. placed \in Nat /\ runs \in 0 .. MaxRuns /\ backups \in Nat
    BY RunBound DEF Init
  <2> QED BY <2>1, <2>2 DEF Init, TypeOK
<1>2. InstalledClientComplete /\ NoClientTreeLost
  BY DEF Init, InstalledClientComplete, NoClientTreeLost
<1> QED
  BY <1>1, <1>2 DEF Init, IInv, HoldersHold, PlansAreMade, CopiesAreChecked, StageIsChecked,
     OrphansAreKnown, UnderLock

-----------------------------------------------------------------------------

(* Steps that write no tree. *)
LEMMA QuietSteps ==
    ASSUME IInv, NEW p \in Procs,
           \/ \E c \in Commands : Start(p, c)
           \/ BuildPlan(p) \/ Work(p) \/ Lock(p) \/ Look(p) \/ Query(p) \/ FetchEnds(p)
           \/ Normalize(p) \/ ValidateStage(p) \/ Recheck(p) \/ Confirm(p) \/ Leave(p)
           \/ End(p)
    PROVE  IInv'
<1> USE GivenTrees, RunBound
    DEF IInv, Move, HoldersHold, PlansAreMade, CopiesAreChecked, StageIsChecked,
        OrphansAreKnown, UnderLock, clientVars, fixedVars
<1>1. InstalledClientComplete' /\ NoClientTreeLost' /\ UNCHANGED <<client, stage, temp>>
  BY DEF InstalledClientComplete, NoClientTreeLost, Complete, Safe, Start, BuildPlan, Work, Lock,
     Look, Query, FetchEnds, Normalize, ValidateStage, Recheck, Confirm, Leave, End
<1> USE <1>1 DEF TypeOK, Running, Ended
<1>2. ASSUME NEW c \in Commands, Start(p, c) PROVE IInv'
  BY <1>2 DEF Start, Complete, Safe
<1>3. CASE BuildPlan(p)
  BY <1>3 DEF BuildPlan, Planned, Complete, Safe
<1>4. CASE Work(p)
  <2>1. plan[p] \in {"verify", "import", "backup", "acquire"}
    BY <1>4 DEF Work
  <2> QED BY <1>4, <2>1 DEF Work, Complete, Safe
<1>5. CASE Lock(p)
  BY <1>5 DEF Lock, Complete, Safe
<1>6. CASE Look(p)
  BY <1>6 DEF Look, Complete, Safe
<1>7. CASE Query(p)
  BY <1>7 DEF Query, Complete, Safe
<1>8. CASE FetchEnds(p)
  BY <1>8 DEF FetchEnds, Complete, Safe
<1>9. CASE Normalize(p)
  <2>1. stage \in Tree
    BY <1>9 DEF Normalize
  <2>2. stage.raw \subseteq RawFiles
    BY <2>1 DEF Tree
  <2>3. moves' \in [Procs -> SUBSET RawFiles]
    BY <1>9, <2>2 DEF Normalize
  <2> QED BY <1>9, <2>3 DEF Normalize, Complete, Safe
<1>10. CASE ValidateStage(p)
  BY <1>10 DEF ValidateStage, Acceptable, Complete, Safe
<1>11. CASE Recheck(p)
  BY <1>11 DEF Recheck, Complete, Safe
<1>12. CASE Confirm(p) \/ Leave(p)
  BY <1>12 DEF Confirm, Leave, Complete, Safe
<1>13. CASE End(p)
  BY <1>13 DEF End, Complete, Safe
<1> QED BY <1>2, <1>3, <1>4, <1>5, <1>6, <1>7, <1>8, <1>9, <1>10, <1>11, <1>12, <1>13

(* nxdl, the moves, and kills: the staged or the live tree grows. *)
LEMMA WritingSteps ==
    ASSUME IInv, NEW p \in Procs, Fetch(p) \/ MoveFile(p) \/ Kill(p)
    PROVE  IInv'
<1> USE GivenTrees, RunBound
    DEF IInv, Move, HoldersHold, PlansAreMade, CopiesAreChecked, StageIsChecked,
        OrphansAreKnown, UnderLock, clientVars, fixedVars, TypeOK, Running, Ended
<1>1. CASE Fetch(p)
  <2>1. PICK f \in Files \cup {"link"} :
        \/ /\ cmd[p] = "acquire"
           /\ stage' = Written(stage, f)
           /\ UNCHANGED clientVars
        \/ /\ cmd[p] = "update"
           /\ client' = Written(client, f)
           /\ origin' = "nxdl"
           /\ placed' = IF client = Absent THEN placed + 1 ELSE placed
           /\ UNCHANGED stage
    BY <1>1 DEF Fetch
  <2>2. /\ UNCHANGED <<lock, temp, backups, pc, cmd, plan, moves, runs, orphaned>>
        /\ pc[p] \in {"fetch", "orphan"}
    BY <1>1 DEF Fetch
  <2>3. CASE cmd[p] = "acquire"
    <3>1. stage' = Written(stage, f) /\ UNCHANGED <<client, origin, placed>>
      BY <2>1, <2>3
    <3>2. stage' \in Tree /\ (stage # Absent => stage.plain \subseteq stage'.plain)
      BY <3>1, WrittenGrows
    <3>3. StageIsChecked'
      <4>1. ASSUME NEW q \in Procs, pc[q] \in {"recheck", "rename"}
            PROVE  Complete(stage') /\ orphaned
        <5>1. pc[p] = "orphan"
          BY <2>2, <4>1
        <5> QED BY <2>2, <3>2, <4>1, <5>1 DEF Complete
      <4> QED BY <2>2, <3>2, <4>1 DEF Complete
    <3>4. InstalledClientComplete' /\ NoClientTreeLost'
      BY <2>2, <3>1 DEF InstalledClientComplete, NoClientTreeLost, Complete, Safe
    <3> QED BY <2>2, <3>1, <3>2, <3>3, <3>4
  <2>4. CASE cmd[p] = "update"
    <3>1. /\ client' = Written(client, f) /\ origin' = "nxdl" /\ UNCHANGED stage
          /\ placed' = IF client = Absent THEN placed + 1 ELSE placed
      BY <2>1, <2>4
    <3>2. client' \in Tree
      BY <3>1, WrittenGrows
    <3>3. InstalledClientComplete' /\ NoClientTreeLost'
      BY <2>2, <3>1, <3>2 DEF InstalledClientComplete, NoClientTreeLost
    <3> QED BY <2>2, <3>1, <3>2, <3>3 DEF Complete, Safe
  <2> QED BY <2>1, <2>3, <2>4
<1>2. CASE MoveFile(p)
  <2>1. /\ UNCHANGED <<lock, temp, backups, client, origin, placed, cmd, plan, runs, orphaned>>
        /\ pc[p] = "move" /\ pc'[p] \in {"move", "validate", "leave"}
        /\ \A q \in Procs : q # p => pc'[q] = pc[q]
        /\ pc' \in [Procs -> {"idle", "orphan"} \cup Running \cup Ended]
    BY <1>2 DEF MoveFile
  <2>2. stage' \in Tree
    <3>1. stage \in Tree
      BY <1>2, <2>1
    <3>2. CASE UNCHANGED stage
      BY <3>1, <3>2
    <3>3. CASE ~UNCHANGED stage
      <4>1. PICK f \in RawFiles :
              stage' = [stage EXCEPT !.raw = @ \ {f}, !.plain = @ \cup {f}]
        BY <1>2, <3>3 DEF MoveFile
      <4> QED BY <3>1, <4>1, FileSets DEF Tree
    <3> QED BY <3>2, <3>3
  <2>3. StageIsChecked' /\ moves' \in [Procs -> SUBSET RawFiles]
    <3>1. \A f : moves[p] \ {f} \in SUBSET RawFiles
      OBVIOUS
    <3>2. \/ \E f \in moves[p] : moves' = [moves EXCEPT ![p] = @ \ {f}]
          \/ UNCHANGED moves
          \/ moves' = [moves EXCEPT ![p] = {}]
      BY <1>2 DEF MoveFile
    <3> QED BY <2>1, <2>2, <3>1, <3>2
  <2>4. InstalledClientComplete' /\ NoClientTreeLost'
    BY <2>1 DEF InstalledClientComplete, NoClientTreeLost, Complete, Safe
  <2> QED BY <2>1, <2>2, <2>3, <2>4 DEF Complete
<1>3. CASE Kill(p)
  <2>1. InstalledClientComplete' /\ NoClientTreeLost'
    BY <1>3 DEF Kill, InstalledClientComplete, NoClientTreeLost, Complete, Safe
  <2>2. orphaned' \in BOOLEAN /\ (orphaned => orphaned') /\ (pc[p] = "fetch" => orphaned')
    BY <1>3 DEF Kill
  <2> QED BY <1>3, <2>1, <2>2 DEF Kill, Complete, Safe
<1> QED BY <1>1, <1>2, <1>3

(* The steps of an import, and the renames onto the client path. *)
LEMMA PlacingSteps ==
    ASSUME IInv, NEW p \in Procs, Backup(p) \/ Copy(p) \/ Promote(p) \/ Rename(p)
    PROVE  IInv'
<1> USE GivenTrees, RunBound
    DEF IInv, Move, HoldersHold, PlansAreMade, CopiesAreChecked, StageIsChecked,
        OrphansAreKnown, UnderLock, clientVars, fixedVars, TypeOK, Running, Ended
<1>1. CASE Backup(p)
  <2>1. InstalledClientComplete' /\ NoClientTreeLost'
    BY <1>1 DEF Backup, InstalledClientComplete, NoClientTreeLost, Complete, Safe
  <2> QED BY <1>1, <2>1 DEF Backup, Complete, Safe
<1>2. CASE Copy(p)
  <2>1. InstalledClientComplete' /\ NoClientTreeLost'
    BY <1>2 DEF Copy, InstalledClientComplete, NoClientTreeLost, Complete, Safe
  <2>2. temp' \in [Procs -> Tree \cup {Absent}] /\ (pc'[p] = "promote" =>
                                                  temp'[p] # Absent /\ Complete(temp'[p]))
    BY <1>2 DEF Copy, Tree
  <2> QED BY <1>2, <2>1, <2>2 DEF Copy, Complete, Safe
<1>3. ASSUME NEW t \in Tree, NEW how \in {"imported", "downloaded"}, Complete(t),
             how = "downloaded" => Safe(t) \/ orphaned,
             Replaceable(client), Place(t, how), UNCHANGED <<backups, orphaned>>
      PROVE  /\ client' \in Tree /\ origin' = how /\ placed' \in Nat
             /\ InstalledClientComplete' /\ NoClientTreeLost'
  BY <1>3, EmptyIsATree
  DEF Place, Replaceable, InstalledClientComplete, NoClientTreeLost, Complete, Safe
<1>4. CASE Promote(p)
  <2>1. temp[p] \in Tree /\ Complete(temp[p])
    BY <1>4 DEF Promote
  <2>2. CASE Replaceable(client)
    <3>1. Place(temp[p], "imported") /\ UNCHANGED <<backups, orphaned>>
      BY <1>4, <2>2 DEF Promote
    <3>2. /\ client' \in Tree /\ origin' = "imported" /\ placed' \in Nat
          /\ InstalledClientComplete' /\ NoClientTreeLost'
      BY <1>3, <2>1, <2>2, <3>1
    <3> QED BY <1>4, <2>2, <3>2 DEF Promote, Complete, Safe
  <2>3. CASE ~Replaceable(client)
    <3>1. UNCHANGED <<client, origin, placed, backups, orphaned>>
      BY <1>4, <2>3 DEF Promote
    <3>2. InstalledClientComplete' /\ NoClientTreeLost'
      BY <3>1 DEF InstalledClientComplete, NoClientTreeLost, Complete, Safe
    <3> QED BY <1>4, <2>3, <3>1, <3>2 DEF Promote, Complete, Safe
  <2> QED BY <2>2, <2>3
<1>5. CASE Rename(p)
  <2>1. /\ stage \in Tree /\ Complete(stage) /\ (Safe(stage) \/ orphaned)
        /\ \A q \in Procs : q # p => pc[q] \notin UnderLock
    BY <1>5 DEF Rename
  <2>2. CASE Replaceable(client)
    <3>1. Place(stage, "downloaded") /\ UNCHANGED <<backups, orphaned>>
      BY <1>5, <2>2 DEF Rename
    <3>2. /\ client' \in Tree /\ origin' = "downloaded" /\ placed' \in Nat
          /\ InstalledClientComplete' /\ NoClientTreeLost'
      BY <1>3, <2>1, <2>2, <3>1
    <3> QED BY <1>5, <2>1, <2>2, <3>2 DEF Rename, Complete, Safe
  <2>3. CASE ~Replaceable(client)
    <3>1. UNCHANGED <<client, origin, placed, backups, orphaned, stage>>
      BY <1>5, <2>3 DEF Rename
    <3>2. InstalledClientComplete' /\ NoClientTreeLost'
      BY <3>1 DEF InstalledClientComplete, NoClientTreeLost, Complete, Safe
    <3> QED BY <1>5, <2>3, <3>1, <3>2 DEF Rename, Complete, Safe
  <2> QED BY <2>2, <2>3
<1> QED BY <1>1, <1>2, <1>4, <1>5

-----------------------------------------------------------------------------

(***************************************************************************)
(* What is known of the two trees on their way to the client path.         *)
(***************************************************************************)
THEOREM Invariance == Spec => []IInv
<1>1. IInv /\ [Next]_vars => IInv'
  <2> SUFFICES ASSUME IInv, [Next]_vars PROVE IInv'
    OBVIOUS
  <2>1. CASE UNCHANGED vars
    BY <2>1 DEF vars, IInv, TypeOK, HoldersHold, PlansAreMade, CopiesAreChecked, StageIsChecked,
         OrphansAreKnown, InstalledClientComplete, NoClientTreeLost, Complete, Safe
  <2>2. CASE Next
    BY <2>2, QuietSteps, WritingSteps, PlacingSteps DEF Next, Step
  <2> QED BY <2>1, <2>2
<1> QED BY <1>1, InitialState, PTL DEF Spec

(* The variables of Client keep their types. *)
THEOREM TypeCorrect == Spec => []TypeOK
<1>1. IInv => TypeOK
  BY DEF IInv
<1> QED BY <1>1, Invariance, PTL

(***************************************************************************)
(* The live path never shows half a client that an import or a download    *)
(* has put there, for any number of commands, kills and orphans.           *)
(***************************************************************************)
THEOREM ClientIsComplete == Spec => []InstalledClientComplete
<1>1. IInv => InstalledClientComplete
  BY DEF IInv
<1> QED BY <1>1, Invariance, PTL

(* No tree that was at the client path is destroyed. *)
THEOREM TreesSurvive == Spec => []NoClientTreeLost
<1>1. IInv => NoClientTreeLost
  BY DEF IInv
<1> QED BY <1>1, Invariance, PTL

(***************************************************************************)
(* What is in the staging directory stays there, under one name or the     *)
(* other, until the directory becomes the client.                          *)
(***************************************************************************)
THEOREM DownloadsAreKept == Spec => StageIsKept
<1> DEFINE Kept == \/ stage = Absent
                  \/ /\ stage' # Absent
                     /\ stage.plain \subseteq stage'.plain
                     /\ stage.raw \subseteq stage'.raw \cup stage'.plain
                  \/ (stage' = Absent /\ client' = stage)
<1>1. ASSUME IInv, [Next]_vars PROVE [Kept]_vars
  <2>1. SUFFICES ASSUME Next, stage # Absent PROVE Kept
    BY <1>1
  <2>2. CASE UNCHANGED stage
    BY <2>1, <2>2
  <2>3. ASSUME NEW p \in Procs, Fetch(p), ~UNCHANGED stage PROVE Kept
    <3>1. PICK f \in Files \cup {"link"} : stage' = Written(stage, f)
      BY <2>3 DEF Fetch
    <3> QED BY <1>1, <2>1, <3>1, WrittenGrows, GivenTrees DEF IInv, TypeOK
  <2>4. ASSUME NEW p \in Procs, MoveFile(p), ~UNCHANGED stage PROVE Kept
    <3>1. PICK f \in RawFiles :
            stage' = [stage EXCEPT !.raw = @ \ {f}, !.plain = @ \cup {f}]
      BY <1>1, <2>4 DEF MoveFile, IInv, TypeOK
    <3>2. stage \in Tree
      BY <1>1, <2>1 DEF IInv, TypeOK
    <3> QED BY <3>1, <3>2, FileSets, GivenTrees DEF Tree
  <2>5. ASSUME NEW p \in Procs, Rename(p), ~UNCHANGED stage PROVE Kept
    BY <2>5 DEF Rename, Place
  <2> QED BY <2>1, <2>2, <2>3, <2>4, <2>5
      DEF Next, Step, Start, BuildPlan, Work, Backup, Copy, Promote, Lock, Look, Query,
          FetchEnds, Normalize, ValidateStage, Recheck, Confirm, Leave, Kill, End
<1>2. IInv /\ [Next]_vars => [Kept]_vars
  BY <1>1
<1> QED BY <1>2, Invariance, PTL DEF Spec, StageIsKept

-----------------------------------------------------------------------------
(* Client implements ClientPath. *)

Present  == client # Absent
PathFiles == IF client = Absent THEN {} ELSE client.plain
Updating == {p \in Procs : HasUpdater(p)}

(* The mapped variables change only if the client, the backups or the set  *)
(* of downloaders do.                                                      *)
LEMMA QuietPath ==
    ASSUME UNCHANGED <<client, backups>>, \A p \in Procs : HasUpdater(p)' <=> HasUpdater(p)
    PROVE  [Path!Next]_(Path!pathVars)
<1>1. Updating' = Updating
  BY DEF Updating
<1> QED BY <1>1 DEF Path!pathVars, Updating

(* One downloader more is an update that begins, one less is one that ends. *)
LEMMA OneDownloader ==
    ASSUME UNCHANGED <<client, backups>>, NEW p \in Procs,
           \A q \in Procs : q # p => (HasUpdater(q)' <=> HasUpdater(q))
    PROVE  [Path!Next]_(Path!pathVars)
<1>1. CASE HasUpdater(p)' <=> HasUpdater(p)
  BY <1>1, QuietPath
<1>2. CASE HasUpdater(p)' /\ ~HasUpdater(p)
  <2>1. p \notin Updating /\ Updating' = Updating \cup {p}
    BY <1>2 DEF Updating
  <2> QED BY <2>1 DEF Path!Next, Path!BeginUpdate, Updating
<1>3. CASE ~HasUpdater(p)' /\ HasUpdater(p)
  <2>1. p \in Updating /\ Updating' = Updating \ {p}
    BY <1>3 DEF Updating
  <2> QED BY <2>1 DEF Path!Next, Path!EndUpdate, Updating
<1> QED BY <1>1, <1>2, <1>3

(* A rename puts a complete tree where nothing or an empty directory was. *)
LEMMA PlacedIsAppeared ==
    ASSUME NEW t \in Tree, Complete(t), NEW how, Place(t, how), Replaceable(client),
           UNCHANGED backups, \A p \in Procs : HasUpdater(p)' <=> HasUpdater(p)
    PROVE  Path!Next
<1>1. client' = t /\ t # Absent
  BY GivenTrees DEF Place
<1>2. PathFiles = {}
  BY DEF PathFiles, Replaceable, Empty
<1>3. Present' /\ PathFiles' = t.plain /\ t.plain \in SUBSET Files /\ Required \subseteq t.plain
  BY <1>1 DEF Present, PathFiles, Tree, Complete
<1>4. Updating' = Updating
  BY DEF Updating
<1>5. Path!Appear
  BY <1>2, <1>3, <1>4 DEF Path!Appear, Present, PathFiles, Updating
<1> QED BY <1>5 DEF Path!Next

(* Steps of one command that touch neither the client nor the backups. *)
LEMMA PathIsLeftAlone ==
    ASSUME TypeOK, NEW p \in Procs,
           \/ \E c \in Commands : Start(p, c)
           \/ BuildPlan(p) \/ Work(p) \/ Copy(p) \/ Lock(p) \/ Look(p) \/ Query(p)
           \/ FetchEnds(p) \/ Normalize(p) \/ MoveFile(p) \/ ValidateStage(p) \/ Recheck(p)
           \/ Confirm(p) \/ Leave(p) \/ Kill(p) \/ End(p)
    PROVE  [Path!Next]_(Path!pathVars)
<1>1. UNCHANGED <<client, backups>>
  BY DEF clientVars, Start, BuildPlan, Work, Copy, Lock, Look, Query, FetchEnds, Normalize,
         MoveFile, ValidateStage, Recheck, Confirm, Leave, Kill, End
<1>2. ASSUME NEW q \in Procs, q # p PROVE pc'[q] = pc[q] /\ cmd'[q] = cmd[q]
  BY <1>2 DEF TypeOK, Move, fixedVars, Start, BuildPlan, Work, Copy, Lock, Look, Query,
         FetchEnds, Normalize, MoveFile, ValidateStage, Recheck, Confirm, Leave, Kill, End
<1>3. \A q \in Procs : q # p => (HasUpdater(q)' <=> HasUpdater(q))
  BY <1>2 DEF HasUpdater
<1> QED BY <1>1, <1>3, OneDownloader

(* nxdl under an update adds to the client, under a download to the stage. *)
LEMMA FetchIsGain ==
    ASSUME TypeOK, NEW p \in Procs, Fetch(p)
    PROVE  [Path!Next]_(Path!pathVars)
<1>1. UNCHANGED <<backups, pc, cmd>> /\ pc[p] \in {"fetch", "orphan"}
  BY DEF Fetch, fixedVars
<1>2. \A q \in Procs : HasUpdater(q)' <=> HasUpdater(q)
  BY <1>1 DEF HasUpdater
<1>3. CASE cmd[p] # "update"
  <2>1. UNCHANGED client
    BY <1>3 DEF Fetch, clientVars
  <2> QED BY <1>1, <1>2, <2>1, QuietPath
<1>4. CASE cmd[p] = "update"
  <2>1. PICK f \in Files \cup {"link"} : client' = Written(client, f)
    BY <1>4 DEF Fetch
  <2>2. client' \in Tree /\ (client # Absent => client.plain \subseteq client'.plain)
    BY <2>1, WrittenGrows DEF TypeOK
  <2>3. Present' /\ PathFiles' \in SUBSET Files /\ PathFiles \subseteq PathFiles'
    BY <2>2, GivenTrees DEF Present, PathFiles, Tree
  <2>4. Updating # {} /\ Updating' = Updating
    BY <1>1, <1>2, <1>4 DEF Updating, HasUpdater
  <2>5. Path!Gain
    BY <1>1, <2>3, <2>4 DEF Path!Gain, Present, PathFiles, Updating
  <2> QED BY <2>5 DEF Path!Next
<1> QED BY <1>3, <1>4

LEMMA StepRefines ==
    ASSUME IInv, [Next]_vars
    PROVE  [Path!Next]_(Path!pathVars)
<1>1. TypeOK
  BY DEF IInv
<1>2. ASSUME NEW p \in Procs, Backup(p) PROVE [Path!Next]_(Path!pathVars)
  <2>1. \A q \in Procs : HasUpdater(q)' <=> HasUpdater(q)
    BY <1>1, <1>2 DEF Backup, Move, fixedVars, HasUpdater, TypeOK
  <2>2. CASE UNCHANGED <<client, backups>>
    BY <2>1, <2>2, QuietPath
  <2>3. CASE ~UNCHANGED <<client, backups>>
    <3>1. Present /\ ~Present' /\ PathFiles' = {} /\ backups' = backups + 1
      BY <1>2, <2>3 DEF Backup, Present, PathFiles
    <3>2. Updating' = Updating
      BY <2>1 DEF Updating
    <3>3. Path!PutAside
      BY <3>1, <3>2 DEF Path!PutAside, Present, PathFiles, Updating
    <3> QED BY <3>3 DEF Path!Next
  <2> QED BY <2>2, <2>3
<1>3. ASSUME NEW p \in Procs, Promote(p) PROVE [Path!Next]_(Path!pathVars)
  <2>1. /\ UNCHANGED backups
        /\ \A q \in Procs : HasUpdater(q)' <=> HasUpdater(q)
    BY <1>1, <1>3 DEF Promote, Move, fixedVars, HasUpdater, TypeOK
  <2>2. CASE Replaceable(client)
    <3>1. Place(temp[p], "imported") /\ temp[p] \in Tree /\ Complete(temp[p])
      BY <1>1, <1>3, <2>2 DEF Promote, Move, IInv, CopiesAreChecked, TypeOK
    <3> QED BY <2>1, <2>2, <3>1, PlacedIsAppeared
  <2>3. CASE ~Replaceable(client)
    BY <1>3, <2>1, <2>3, QuietPath DEF Promote, clientVars
  <2> QED BY <2>2, <2>3
<1>4. ASSUME NEW p \in Procs, Rename(p) PROVE [Path!Next]_(Path!pathVars)
  <2>1. /\ UNCHANGED backups
        /\ \A q \in Procs : HasUpdater(q)' <=> HasUpdater(q)
    BY <1>1, <1>4 DEF Rename, Move, fixedVars, HasUpdater, TypeOK
  <2>2. CASE Replaceable(client)
    <3>1. Place(stage, "downloaded") /\ stage \in Tree /\ Complete(stage)
      BY <1>1, <1>4, <2>2 DEF Rename, Move, IInv, StageIsChecked, TypeOK
    <3> QED BY <2>1, <2>2, <3>1, PlacedIsAppeared
  <2>3. CASE ~Replaceable(client)
    BY <1>4, <2>1, <2>3, QuietPath DEF Rename, clientVars
  <2> QED BY <2>2, <2>3
<1>5. CASE UNCHANGED vars
  BY <1>5, QuietPath DEF vars, HasUpdater
<1> QED
  BY <1>1, <1>2, <1>3, <1>4, <1>5, PathIsLeftAlone, FetchIsGain DEF Next, Step

(***************************************************************************)
(* Whoever reads the client path sees what ClientPath allows: a client     *)
(* appears whole, stays or grows, and is put aside.                        *)
(***************************************************************************)
THEOREM Refinement == Spec => ImplementsPath
<1>1. Init => Path!Init
  <2> SUFFICES ASSUME Init PROVE Path!Init
    OBVIOUS
  <2>1. PathFiles \in SUBSET Files /\ (Present \/ PathFiles = {})
    BY GivenTrees DEF Init, PathFiles, Present, Tree
  <2>2. Updating = {}
    BY DEF Init, Updating, HasUpdater
  <2> QED BY <2>1, <2>2 DEF Init, Path!Init, PathFiles, Present, Updating
<1>2. IInv /\ [Next]_vars => [Path!Next]_(Path!pathVars)
  BY StepRefines
<1> QED BY <1>1, <1>2, Invariance, PTL DEF Spec, ImplementsPath, Path!Spec

=============================================================================
