--------------------------- MODULE InstallerProofs ---------------------------
(***************************************************************************)
(* Proofs about Installer, for any kinds of damage and any number of them. *)
(*                                                                         *)
(* An installation relies on what its earlier steps have made, and nothing *)
(* takes that away before it ends: that is the inductive invariant, with   *)
(* what each step of the extraction and of the application's replacement   *)
(* finds.                                                                  *)
(***************************************************************************)
EXTENDS Installer, TLAPS

-----------------------------------------------------------------------------

InApp == {"app", "clear", "retire", "swap", "wrap", "installed"}
InPrefix == {"wineboot", "regedit", "ngs"}

(* What the steps that are over have made. *)
MadeSoFar ==
    /\ pc \in {"wine", "extract", "stamp", "prepare", "client"} \cup BuildSteps
          \cup InPrefix \cup InApp
         => binary = "good"
    /\ pc \in {"client"} \cup InPrefix \cup InApp => patched = "valid"
    /\ pc \in InPrefix \cup InApp => client = "good"
    /\ pc \in {"regedit", "ngs"} \cup InApp => prefix.services
    /\ pc \in InApp => prefix.ngs
    /\ pc \in {"wrap", "installed"} => app
    /\ pc = "installed" => wrapper

(* Only a download that was bad is planned to be moved aside. *)
PlanIsTrue ==
    /\ pc = "idle" => \A a \in Artifacts : plan[a] = "none"
    /\ \A a \in Artifacts : plan[a] = "replace" => cache[a] = "bad"

ExtractionWhere ==
    /\ pc = "extract" => ~base.stamp
    /\ pc = "stamp" => base.there /\ base.whole
    /\ base.stamp => base.there

BackupGoesWhere == pc = "clear" => app

IInv ==
    /\ TypeOK
    /\ MadeSoFar
    /\ PlanIsTrue
    /\ ExtractionWhere
    /\ BackupGoesWhere
    /\ AppOrBackup

-----------------------------------------------------------------------------

LEMMA InitialState == Init => IInv
<1>1. Init => TypeOK
  <2>1. 0 \in 0..MaxFaults
    BY FaultBound
  <2>2. /\ NoBase \in [there : BOOLEAN, whole : BOOLEAN, stamp : BOOLEAN]
        /\ NoPrefix \in [services : BOOLEAN, ngs : BOOLEAN]
        /\ [source |-> "absent", objects |-> "absent"]
              \in [source : {"absent", "bad", "good"}, objects : {"absent", "bad", "good"}]
    BY DEF NoBase, NoPrefix
  <2>3. FALSE \in BOOLEAN
    OBVIOUS
  <2> QED BY <2>1, <2>2, <2>3 DEF Init, TypeOK
<1>2. Init => /\ MadeSoFar /\ PlanIsTrue /\ ExtractionWhere
              /\ BackupGoesWhere /\ AppOrBackup
  BY DEF Init, MadeSoFar, PlanIsTrue, ExtractionWhere, BackupGoesWhere, AppOrBackup, NoBase,
         InPrefix, InApp, BuildSteps
<1> QED BY <1>1, <1>2 DEF IInv

LEMMA BeginKeeps == IInv /\ Begin => IInv'
<1> SUFFICES ASSUME IInv, Begin PROVE IInv'
  OBVIOUS
<1> USE DEF IInv
<1>1. /\ UNCHANGED <<cache, binary, base, patched, built, orphans, prefix, client, app, backup,
                     wrapper, faults>>
      /\ \/ pc' = "nxdl" /\ plan' = [a \in Artifacts |-> Planned(a)]
         \/ pc' = "failed" /\ plan' = plan
  BY DEF Begin, Move, runtimes, userData, appFiles
<1>2. \A a \in Artifacts : /\ Planned(a) \in {"reuse", "replace", "download"}
                           /\ Planned(a) = "replace" => cache[a] = "bad"
  BY DEF Planned, TypeOK
<1>3. TypeOK'
  BY <1>1, <1>2 DEF TypeOK, Steps, Ended
<1>4. PlanIsTrue'
  BY <1>1, <1>2 DEF PlanIsTrue
<1> QED BY <1>1, <1>3, <1>4
    DEF MadeSoFar, ExtractionWhere, BackupGoesWhere, AppOrBackup, InPrefix, InApp, BuildSteps

LEMMA CacheKeeps ==
    ASSUME IInv, NEW a \in Artifacts, Quarantine(a) \/ Download(a)
    PROVE  IInv'
<1> USE DEF IInv
<1>1. UNCHANGED <<pc, binary, base, patched, built, orphans, prefix, client, app, backup,
                  wrapper, faults>>
  BY DEF Quarantine, Download, runtimes, userData, appFiles
<1>2. TypeOK' /\ PlanIsTrue'
  <2>1. CASE Quarantine(a)
    BY <1>1, <2>1 DEF Quarantine, TypeOK, PlanIsTrue, Artifacts
  <2>2. CASE Download(a)
    BY <1>1, <2>2 DEF Download, TypeOK, PlanIsTrue, Artifacts
  <2> QED BY <2>1, <2>2
<1> QED BY <1>1, <1>2
    DEF MadeSoFar, ExtractionWhere, BackupGoesWhere, AppOrBackup

(* What a step of the build script finds and leaves, whoever has started it. *)
LEMMA BuildStepIs ==
    ASSUME TypeOK, NEW at \in BuildSteps, NEW next \in BuildSteps \cup {"stop", "done"}, BuildStep(at, next)
    PROVE  /\ built' \in [source : {"absent", "bad", "good"}, objects : {"absent", "bad", "good"}]
           /\ patched' \in {"absent", "invalid", "valid"}
           /\ patched # "absent" => patched' = patched
<1>1. CASE CheckInputs(next)
  BY <1>1 DEF CheckInputs, TypeOK, BuildSteps
<1>2. CASE FetchSource(next)
  <2>1. built' = [built EXCEPT !.source = IF @ = "absent" THEN "good" ELSE @]
    BY <1>2 DEF FetchSource
  <2> QED BY <1>2, <2>1 DEF FetchSource, TypeOK, BuildSteps
<1>3. CASE MakeRuntime(next)
  <2>1. PICK o \in {"good", "bad"} :
            built' = [built EXCEPT !.objects = IF @ = "bad" THEN @ ELSE o]
    BY <1>3 DEF MakeRuntime
  <2>2. built' \in [source : {"absent", "bad", "good"}, objects : {"absent", "bad", "good"}]
    BY <2>1 DEF TypeOK
  <2>3. \/ patched' = patched
        \/ patched = "absent" /\ patched' \in {"valid", "invalid"}
    BY <1>3 DEF MakeRuntime, TypeOK
  <2> QED BY <2>2, <2>3 DEF TypeOK
<1> QED BY <1>1, <1>2, <1>3 DEF BuildStep

LEMMA BuildKeeps == IInv /\ Build => IInv'
<1> SUFFICES ASSUME IInv, Build PROVE IInv'
  OBVIOUS
<1> USE DEF IInv
<1>1. /\ pc \in BuildSteps
      /\ UNCHANGED <<cache, binary, base, orphans, prefix, client, app, backup, wrapper, plan, faults>>
  BY DEF Build, userData, appFiles
<1>2. PICK next \in BuildSteps \cup {"stop", "done"} :
          /\ BuildStep(pc, next)
          /\ pc' = CASE next \in BuildSteps -> next
                     [] next = "done" /\ patched' = "valid" -> "client"
                     [] OTHER -> "failed"
  BY DEF Build
<1>3. /\ pc' \in BuildSteps \cup {"client", "failed"}
      /\ pc' = "client" => patched' = "valid"
  BY <1>2 DEF BuildSteps
<1>4. TypeOK'
  <2>1. /\ built' \in [source : {"absent", "bad", "good"}, objects : {"absent", "bad", "good"}]
        /\ patched' \in {"absent", "invalid", "valid"}
    BY <1>1, <1>2, BuildStepIs
  <2> QED BY <1>1, <1>3, <2>1 DEF TypeOK, Steps, Ended
<1>5. MadeSoFar'
  BY <1>1, <1>3 DEF MadeSoFar, BuildSteps, InPrefix, InApp
<1>6. PlanIsTrue' /\ ExtractionWhere' /\ BackupGoesWhere' /\ AppOrBackup'
  BY <1>1, <1>3 DEF PlanIsTrue, ExtractionWhere, BackupGoesWhere, AppOrBackup, BuildSteps
<1> QED BY <1>4, <1>5, <1>6

LEMMA OrphansKeep == IInv /\ OrphanBuilds => IInv'
<1> SUFFICES ASSUME IInv, OrphanBuilds PROVE IInv'
  OBVIOUS
<1> USE DEF IInv
<1>1. UNCHANGED <<cache, binary, base, prefix, client, app, backup, wrapper, pc, plan, faults>>
  BY DEF OrphanBuilds, userData, appFiles
<1>2. PICK at \in orphans, next \in BuildSteps \cup {"stop", "done"} :
          /\ BuildStep(at, next)
          /\ orphans' = (orphans \ {at}) \cup ({next} \cap BuildSteps)
  BY DEF OrphanBuilds
<1>3. /\ built' \in [source : {"absent", "bad", "good"}, objects : {"absent", "bad", "good"}]
      /\ patched' \in {"absent", "invalid", "valid"}
      /\ patched # "absent" => patched' = patched
  BY <1>2, BuildStepIs DEF TypeOK
<1>4. orphans' \subseteq BuildSteps
  BY <1>2 DEF TypeOK
<1>5. TypeOK'
  BY <1>1, <1>3, <1>4 DEF TypeOK
<1> QED BY <1>1, <1>3, <1>5
    DEF MadeSoFar, PlanIsTrue, ExtractionWhere, BackupGoesWhere, AppOrBackup

LEMMA RuntimesKeep ==
    ASSUME IInv, InstallBinary \/ CheckBase \/ Extract \/ Stamp \/ Prepare
    PROVE  IInv'
<1> USE DEF IInv
<1>0. UNCHANGED <<cache, patched, built, orphans, prefix, client, app, backup, wrapper,
                  plan, faults>>
  BY DEF InstallBinary, CheckBase, Extract, Stamp, Prepare, userData, appFiles, runtimes
<1>1. PlanIsTrue' /\ AppOrBackup' /\ BackupGoesWhere'
  <2>1. pc' \notin {"idle", "clear"}
    BY DEF InstallBinary, CheckBase, Extract, Stamp, Prepare, Move, TypeOK
  <2> QED BY <1>0, <2>1 DEF PlanIsTrue, AppOrBackup, BackupGoesWhere
<1>2. CASE InstallBinary
  BY <1>0, <1>1, <1>2 DEF InstallBinary, Move, TypeOK, Steps, MadeSoFar, ExtractionWhere,
                          InPrefix, InApp, BuildSteps
<1>3. CASE CheckBase
  BY <1>0, <1>1, <1>3 DEF CheckBase, Move, TypeOK, Steps, MadeSoFar, ExtractionWhere,
                          ExtractionValid, NoBase, InPrefix, InApp, BuildSteps
<1>4. CASE Extract
  BY <1>0, <1>1, <1>4 DEF Extract, Move, TypeOK, Steps, MadeSoFar, ExtractionWhere,
                          InPrefix, InApp, BuildSteps
<1>5. CASE Stamp
  BY <1>0, <1>1, <1>5 DEF Stamp, Move, TypeOK, Steps, MadeSoFar, ExtractionWhere,
                          InPrefix, InApp, BuildSteps
<1>6. CASE Prepare
  BY <1>0, <1>1, <1>6 DEF Prepare, runtimes, Move, TypeOK, Steps, Ended, MadeSoFar,
                          ExtractionWhere, InPrefix, InApp, BuildSteps
<1> QED BY <1>2, <1>3, <1>4, <1>5, <1>6

LEMMA PrefixKeeps ==
    ASSUME IInv, ClientStep \/ Wineboot \/ Regedit \/ Ngs
    PROVE  IInv'
<1> USE DEF IInv
<1>0. UNCHANGED <<cache, binary, base, patched, built, orphans, app, backup, wrapper, plan>>
  BY DEF ClientStep, Wineboot, Regedit, Ngs, userData, appFiles, runtimes
<1>1. CASE ClientStep
  BY <1>0, <1>1 DEF ClientStep, Move, TypeOK, Steps, MadeSoFar, PlanIsTrue, ExtractionWhere,
                    BackupGoesWhere, AppOrBackup, InPrefix, InApp
<1>2. CASE Wineboot
  <2>1. /\ pc = "wineboot" /\ client' = client
        /\ prefix' = prefix \/ prefix' = [prefix EXCEPT !.services = TRUE]
        /\ \/ pc' = "regedit" /\ prefix'.services /\ faults' = faults
           \/ pc' = "failed" /\ Fault
    <3>1. PICK works \in BOOLEAN :
              /\ prefix' = [prefix EXCEPT !.services = @ \/ works]
              /\ Checked("wineboot", "regedit", prefix'.services)
      BY <1>2 DEF Wineboot
    <3>2. CASE works
      BY <1>2, <3>1, <3>2 DEF Wineboot, Checked, Move, TypeOK
    <3>3. CASE ~works
      BY <1>2, <3>1, <3>3 DEF Wineboot, Checked, Move, TypeOK
    <3> QED BY <3>2, <3>3
  <2>2. TypeOK'
    <3>1. prefix' \in [services : BOOLEAN, ngs : BOOLEAN]
      BY <2>1 DEF TypeOK
    <3>2. faults' \in 0..MaxFaults
      BY <2>1, FaultBound DEF TypeOK, Fault
    <3> QED BY <1>0, <2>1, <3>1, <3>2 DEF TypeOK, Steps, Ended
  <2> QED BY <1>0, <2>1, <2>2
      DEF MadeSoFar, PlanIsTrue, ExtractionWhere, BackupGoesWhere, AppOrBackup, InPrefix, InApp
<1>3. CASE Regedit
  BY <1>0, <1>3 DEF Regedit, Move, userData, TypeOK, Steps, MadeSoFar, PlanIsTrue,
                    ExtractionWhere, BackupGoesWhere, AppOrBackup,
                    InPrefix, InApp
<1>4. CASE Ngs
  <2>1. /\ pc = "ngs" /\ client' = client
        /\ prefix' = prefix \/ prefix' = [prefix EXCEPT !.ngs = TRUE]
        /\ \/ pc' = "app" /\ prefix'.ngs /\ faults' = faults
           \/ pc' = "failed" /\ Fault
    <3>1. PICK works \in BOOLEAN :
              /\ prefix' = [prefix EXCEPT !.ngs = @ \/ works]
              /\ Checked("ngs", "app", prefix'.ngs)
      BY <1>4 DEF Ngs
    <3>2. CASE works
      BY <1>4, <3>1, <3>2 DEF Ngs, Checked, Move, TypeOK
    <3>3. CASE ~works
      BY <1>4, <3>1, <3>3 DEF Ngs, Checked, Move, TypeOK
    <3> QED BY <3>2, <3>3
  <2>2. TypeOK'
    <3>1. prefix' \in [services : BOOLEAN, ngs : BOOLEAN]
      BY <2>1 DEF TypeOK
    <3>2. faults' \in 0..MaxFaults
      BY <2>1, FaultBound DEF TypeOK, Fault
    <3> QED BY <1>0, <2>1, <3>1, <3>2 DEF TypeOK, Steps, Ended
  <2>3. prefix'.services
    BY <2>1 DEF MadeSoFar, TypeOK
  <2> QED BY <1>0, <2>1, <2>2, <2>3
      DEF MadeSoFar, PlanIsTrue, ExtractionWhere, BackupGoesWhere, AppOrBackup, InPrefix, InApp
<1> QED BY <1>1, <1>2, <1>3, <1>4

LEMMA ApplicationKeeps ==
    ASSUME IInv, StageApp \/ ClearBackup \/ RetireApp \/ SwapApp \/ Wrap
    PROVE  IInv'
<1> USE DEF IInv
<1>0. UNCHANGED <<cache, binary, base, patched, built, orphans, prefix, client, plan, faults>>
  BY DEF StageApp, ClearBackup, RetireApp, SwapApp, Wrap, userData, runtimes
<1>1. PlanIsTrue' /\ ExtractionWhere'
  <2>1. pc' \notin {"idle", "extract", "stamp"}
    BY DEF StageApp, ClearBackup, RetireApp, SwapApp, Wrap, Move
  <2> QED BY <1>0, <2>1 DEF PlanIsTrue, ExtractionWhere
<1>2. CASE StageApp
  <2>1. TypeOK'
    BY <1>0, <1>2 DEF StageApp, Move, appFiles, TypeOK, Steps, Ended
  <2> QED BY <1>0, <1>1, <1>2, <2>1
      DEF StageApp, Move, appFiles, MadeSoFar, AppOrBackup, BackupGoesWhere, InPrefix, InApp
<1>3. CASE ClearBackup
  <2>1. TypeOK'
    <3>1. pc' \in Steps /\ app' \in BOOLEAN /\ backup' \in BOOLEAN /\ wrapper' \in BOOLEAN
      BY <1>3 DEF ClearBackup, Move, appFiles, TypeOK, Steps
    <3> QED BY <1>0, <3>1 DEF TypeOK
  <2> QED BY <1>0, <1>1, <1>3, <2>1
      DEF ClearBackup, Move, appFiles, MadeSoFar, AppOrBackup, BackupGoesWhere, InPrefix, InApp
<1>4. CASE RetireApp
  <2>1. TypeOK'
    <3>1. pc' \in Steps /\ app' \in BOOLEAN /\ backup' \in BOOLEAN /\ wrapper' \in BOOLEAN
      BY <1>4 DEF RetireApp, Move, appFiles, TypeOK, Steps
    <3> QED BY <1>0, <3>1 DEF TypeOK
  <2> QED BY <1>0, <1>1, <1>4, <2>1
      DEF RetireApp, Move, appFiles, MadeSoFar, AppOrBackup, BackupGoesWhere, InPrefix, InApp
<1>5. CASE SwapApp
  <2>1. TypeOK'
    BY <1>0, <1>5 DEF SwapApp, Move, appFiles, TypeOK, Steps, Ended
  <2> QED BY <1>0, <1>1, <1>5, <2>1
      DEF SwapApp, Move, appFiles, MadeSoFar, AppOrBackup, BackupGoesWhere, InPrefix, InApp
<1>6. CASE Wrap
  <2>1. TypeOK'
    BY <1>0, <1>6 DEF Wrap, Move, appFiles, TypeOK, Steps, Ended
  <2> QED BY <1>0, <1>1, <1>6, <2>1
      DEF Wrap, Move, appFiles, MadeSoFar, AppOrBackup, BackupGoesWhere, InPrefix, InApp
<1> QED BY <1>2, <1>3, <1>4, <1>5, <1>6

LEMMA FailKeeps == IInv /\ Fail => IInv'
<1> SUFFICES ASSUME IInv, Fail PROVE IInv'
  OBVIOUS
<1> USE DEF IInv
<1>1. /\ pc' = "failed" /\ Fault
      /\ UNCHANGED <<cache, binary, base, patched, app, wrapper, plan>>
  BY DEF Fail
<1>2. orphans' \subseteq BuildSteps
  BY DEF Fail, TypeOK
<1>3. /\ prefix' \in [services : BOOLEAN, ngs : BOOLEAN]
      /\ built' \in [source : {"absent", "bad", "good"}, objects : {"absent", "bad", "good"}]
      /\ client' \in {"absent", "bad", "good"}
  BY DEF Fail, TypeOK
<1>4. backup' \in BOOLEAN /\ (backup' = backup \/ pc = "clear")
  BY DEF Fail, TypeOK
<1>5. TypeOK'
  BY <1>1, <1>2, <1>3, <1>4, FaultBound DEF TypeOK, Ended, Fault
<1>6. AppOrBackup'
  BY <1>1, <1>4 DEF AppOrBackup, BackupGoesWhere
<1> QED BY <1>1, <1>5, <1>6
    DEF MadeSoFar, PlanIsTrue, ExtractionWhere, BackupGoesWhere, InPrefix, InApp, BuildSteps

LEMMA EndKeeps == IInv /\ End => IInv'
BY DEF End, IInv, TypeOK, MadeSoFar, PlanIsTrue, ExtractionWhere, BackupGoesWhere,
       AppOrBackup, runtimes, userData, appFiles, InPrefix, InApp, BuildSteps

LEMMA DamageKeeps == IInv /\ Damage => IInv'
<1> SUFFICES ASSUME IInv, Damage PROVE IInv'
  OBVIOUS
<1> USE DEF IInv
<1>1. /\ pc = "idle" /\ Fault
      /\ UNCHANGED <<orphans, app, backup, wrapper, pc, plan>>
  BY DEF Damage, appFiles
<1>2. PICK k \in Kinds : GoesBad(k)
  BY KnownKinds DEF Damage
<1>3. /\ cache' \in [Artifacts -> {"absent", "bad", "good"}]
      /\ \A a \in Artifacts : cache[a] = "bad" => cache'[a] = "bad"
  BY <1>2 DEF GoesBad, TypeOK
<1>4. /\ base' \in [there : BOOLEAN, whole : BOOLEAN, stamp : BOOLEAN]
      /\ base'.stamp => base'.there
  BY <1>2 DEF GoesBad, TypeOK, ExtractionWhere
<1>5. built' \in [source : {"absent", "bad", "good"}, objects : {"absent", "bad", "good"}]
  BY <1>2 DEF GoesBad, TypeOK
<1>6. /\ patched' \in {"absent", "invalid", "valid"}
      /\ binary' \in {"absent", "bad", "good"}
      /\ client' \in {"absent", "bad", "good"}
  BY <1>2 DEF GoesBad, TypeOK
<1>7. prefix' \in [services : BOOLEAN, ngs : BOOLEAN]
  <2>1. prefix' = prefix \/ prefix' = NoPrefix
    BY <1>2 DEF GoesBad
  <2>2. NoPrefix \in [services : BOOLEAN, ngs : BOOLEAN]
    BY DEF NoPrefix
  <2> QED BY <2>1, <2>2 DEF TypeOK
<1>8. TypeOK'
  BY <1>1, <1>3, <1>4, <1>5, <1>6, <1>7, FaultBound DEF TypeOK, Fault
<1> QED BY <1>1, <1>3, <1>4, <1>8
    DEF MadeSoFar, PlanIsTrue, ExtractionWhere, BackupGoesWhere, AppOrBackup, InPrefix, InApp,
        BuildSteps

-----------------------------------------------------------------------------

(***************************************************************************)
(* Whatever fails, is killed or goes bad: what an installation relies on   *)
(* has been made, and is still there.                                      *)
(***************************************************************************)
THEOREM Invariance == Spec => []IInv
<1>1. ASSUME IInv, [Next]_vars PROVE IInv'
  <2>1. CASE Step
    BY <1>1, <2>1, CacheKeeps, RuntimesKeep, BuildKeeps, PrefixKeeps, ApplicationKeeps DEF Step
  <2>2. CASE Begin \/ OrphanBuilds \/ End \/ Fail \/ Damage
    BY <1>1, <2>2, BeginKeeps, OrphansKeep, EndKeeps, FailKeeps, DamageKeeps
  <2>3. CASE UNCHANGED vars
    BY <1>1, <2>3 DEF vars, IInv, TypeOK, MadeSoFar, PlanIsTrue, ExtractionWhere,
                      BackupGoesWhere, AppOrBackup
  <2> QED BY <1>1, <2>1, <2>2, <2>3 DEF Next
<1> QED BY InitialState, <1>1, PTL DEF Spec

(***************************************************************************)
(* Every variable keeps its type.                                          *)
(***************************************************************************)
THEOREM TypeCorrect == Spec => []TypeOK
BY Invariance, PTL DEF IInv

(***************************************************************************)
(* An installation that reports success has left everything a website      *)
(* launch looks for.                                                       *)
(***************************************************************************)
THEOREM SuccessIsPlayable == Spec => []InstalledMeansPlayable
<1>1. IInv => InstalledMeansPlayable
  BY DEF IInv, MadeSoFar, InstalledMeansPlayable, InPrefix, InApp
<1> QED BY Invariance, <1>1, PTL

(***************************************************************************)
(* A base runtime gets its stamp only when it is whole.                    *)
(***************************************************************************)
THEOREM StampsAreTrue == Spec => StampsOnlyWhole
<1> DEFINE Earned == ~base.stamp /\ base'.stamp => base'.there /\ base'.whole
<1>1. ASSUME IInv, Next PROVE Earned
  <2> USE <1>1 DEF IInv
  <2>1. CASE CheckBase \/ Extract \/ Stamp
    BY <2>1 DEF CheckBase, Extract, Stamp, Move, NoBase, ExtractionWhere, TypeOK
  <2>2. CASE Damage
    <3>1. PICK k \in Kinds : GoesBad(k)
      BY <2>2, KnownKinds DEF Damage
    <3> QED BY <3>1 DEF GoesBad, TypeOK
  <2>3. CASE ~(CheckBase \/ Extract \/ Stamp \/ Damage)
    <3>1. base' = base
      BY <1>1, <2>3 DEF Next, Step, Begin, Quarantine, Download, InstallBinary, Prepare, Build,
             OrphanBuilds, ClientStep, Wineboot, Regedit, Ngs, StageApp, ClearBackup, RetireApp,
             SwapApp, Wrap, End, Fail, runtimes
    <3> QED BY <3>1
  <2> QED BY <2>1, <2>2, <2>3
<1>2. IInv /\ [Next]_vars => [Earned]_vars
  BY <1>1
<1> QED BY Invariance, <1>2, PTL DEF Spec, StampsOnlyWhole

(***************************************************************************)
(* Once the application has been installed, its directory or its backup is *)
(* whole at every moment.                                                  *)
(***************************************************************************)
THEOREM ApplicationSurvives == Spec => []AppOrBackup
BY Invariance, PTL DEF IInv

(***************************************************************************)
(* An installation replaces only what is not valid.                        *)
(***************************************************************************)
THEOREM WorkIsKept == Spec => ValidIsKept
<1> DEFINE Kept ==
        pc # "idle" =>
            /\ \A a \in Artifacts : cache[a] = "good" => cache'[a] = "good"
            /\ base.stamp => base' = base
            /\ patched = "valid" => patched' = "valid"
<1>1. ASSUME IInv, Next, pc # "idle" PROVE Kept
  <2> USE <1>1 DEF IInv
  <2>1. CASE \E a \in Artifacts : Quarantine(a) \/ Download(a)
    <3>1. UNCHANGED <<base, patched>>
      BY <2>1 DEF Quarantine, Download, runtimes
    <3>2. \A a \in Artifacts : cache[a] = "good" => cache'[a] = "good"
      BY <2>1 DEF Quarantine, Download, PlanIsTrue, TypeOK
    <3> QED BY <3>1, <3>2
  <2>2. CASE InstallBinary \/ CheckBase \/ Extract \/ Stamp \/ Prepare
    <3>1. UNCHANGED <<cache, patched>>
      BY <2>2 DEF InstallBinary, CheckBase, Extract, Stamp, Prepare, runtimes
    <3>2. base.stamp => base' = base
      BY <2>2 DEF InstallBinary, CheckBase, Extract, Stamp, Prepare, runtimes, Move,
                  ExtractionValid, ExtractionWhere, TypeOK
    <3> QED BY <3>1, <3>2
  <2>3. CASE Build \/ OrphanBuilds
    <3>1. UNCHANGED <<cache, base>>
      BY <2>3 DEF Build, OrphanBuilds
    <3>2. PICK at \in BuildSteps, next \in BuildSteps \cup {"stop", "done"} :
              BuildStep(at, next)
      BY <2>3 DEF Build, OrphanBuilds, TypeOK
    <3>3. patched = "valid" => patched' = "valid"
      BY <3>2, BuildStepIs
    <3> QED BY <3>1, <3>3
  <2>4. CASE ~ \/ \E a \in Artifacts : Quarantine(a) \/ Download(a)
               \/ InstallBinary \/ CheckBase \/ Extract \/ Stamp \/ Prepare
               \/ Build \/ OrphanBuilds
    <3>1. UNCHANGED <<cache, base, patched>>
      BY <1>1, <2>4 DEF Next, Step, Begin, ClientStep, Wineboot, Regedit, Ngs, StageApp,
             ClearBackup, RetireApp, SwapApp, Wrap, End, Fail, Damage, Move, runtimes
    <3> QED BY <3>1
  <2> QED BY <2>1, <2>2, <2>3, <2>4
<1>2. IInv /\ [Next]_vars => [Kept]_vars
  BY <1>1
<1> QED BY Invariance, <1>2, PTL DEF Spec, ValidIsKept

=============================================================================
