------------------------------ MODULE Installer ------------------------------
(***************************************************************************)
(* "install", from the plan to the wrapper: the download cache, the base   *)
(* and the patched Wine runtime, nxdl, the Wine prefix with the NGS        *)
(* service, and the installed copy of the application.                     *)
(*                                                                         *)
(* An installation takes hours and may fail or be killed at every step;    *)
(* what it has left behind is what the next one finds.  A runtime build    *)
(* that was running when its installer was killed goes on by itself.       *)
(* Between installations files may go bad, each in a way that some check   *)
(* of the installer or of the build script sees.  One installation runs    *)
(* at a time; Client models two at a time for what they share outside      *)
(* this module, Approval the graphics gate, DesktopHandler what follows.   *)
(***************************************************************************)
EXTENDS Integers

CONSTANTS
    Damageable,  \* which kinds of files may go bad
    MaxFaults    \* bound: failures, kills and damages in a behaviour

(* "base": its stamp or one of the four programs that are looked for;      *)
(* "library": its NTDLL, which the build script alone looks at.            *)
Kinds == {"cache", "base", "library", "source", "objects", "patched",
          "binary", "client", "prefix"}

ASSUME KnownKinds == Damageable \subseteq Kinds
ASSUME FaultBound == MaxFaults \in Nat

VARIABLES
    cache,    \* the cached download of each artifact: absent, bad or good
    binary,   \* tools/nxdl-VERSION/nxdl: absent, bad or good
    base,     \* tools/VERSION: is it there, whole, stamped
    patched,  \* the patched runtime: absent, invalid or valid
    built,    \* the build cache: the Wine source and the object files
    prefix,   \* the Wine prefix: its services, the NGS service
    client,   \* the client: absent, bad or good
    app,      \* the installed copy of the application is there
    backup,   \* .app.previous is there and whole
    wrapper,  \* ~/.local/bin/msclassic is there
    pc,       \* where the installation is
    plan,     \* what it does about each artifact
    orphans,  \* the steps of runtime builds whose installer was killed
    faults    \* how much has gone wrong

vars == <<cache, binary, base, patched, built, prefix, client, app, backup, wrapper,
          pc, plan, orphans, faults>>

-----------------------------------------------------------------------------

Artifacts == {"nxdl", "wine"}

BuildSteps == {"check", "fetch", "make"}
Steps == {"nxdl", "wine", "extract", "stamp", "prepare", "client", "wineboot",
          "regedit", "ngs", "app", "clear", "retire", "swap", "wrap"} \cup BuildSteps
Ended == {"installed", "failed", "conflict"}

NoBase == [there |-> FALSE, whole |-> FALSE, stamp |-> FALSE]
NoPrefix == [services |-> FALSE, ngs |-> FALSE]

TypeOK ==
    /\ cache \in [Artifacts -> {"absent", "bad", "good"}]
    /\ binary \in {"absent", "bad", "good"}
    /\ base \in [there : BOOLEAN, whole : BOOLEAN, stamp : BOOLEAN]
    /\ patched \in {"absent", "invalid", "valid"}
    /\ built \in [source : {"absent", "bad", "good"}, objects : {"absent", "bad", "good"}]
    /\ prefix \in [services : BOOLEAN, ngs : BOOLEAN]
    /\ client \in {"absent", "bad", "good"}
    /\ app \in BOOLEAN
    /\ backup \in BOOLEAN
    /\ wrapper \in BOOLEAN
    /\ pc \in {"idle"} \cup Steps \cup Ended
    /\ plan \in [Artifacts -> {"none", "reuse", "replace", "download"}]
    /\ orphans \subseteq BuildSteps
    /\ faults \in 0..MaxFaults

(* A fresh machine. *)
Init ==
    /\ cache = [a \in Artifacts |-> "absent"]
    /\ binary = "absent"
    /\ base = NoBase
    /\ patched = "absent"
    /\ built = [source |-> "absent", objects |-> "absent"]
    /\ prefix = NoPrefix
    /\ client = "absent"
    /\ app = FALSE
    /\ backup = FALSE
    /\ wrapper = FALSE
    /\ pc = "idle"
    /\ plan = [a \in Artifacts |-> "none"]
    /\ orphans = {}
    /\ faults = 0

-----------------------------------------------------------------------------
(* Helpers *)

Move(from, to) == pc = from /\ pc' = to

Fault == faults < MaxFaults /\ faults' = faults + 1

(* A tool that may not do its work: either it does, or the check that       *)
(* follows finds that what it should have made is not there.                *)
Checked(from, to, made) ==
    IF made THEN Move(from, to) /\ UNCHANGED faults
            ELSE Move(from, "failed") /\ Fault

runtimes == <<binary, base, patched, built, orphans>>
appFiles == <<app, backup, wrapper>>
userData == <<prefix, client>>

-----------------------------------------------------------------------------
(* The plan and the locked artifacts *)

(* Mutant: a bad file is planned for an action that nothing executes. *)
PlannedAside(a) ==
    CASE cache[a] = "good"   -> "reuse"
      [] cache[a] = "bad"    -> "aside"
      [] cache[a] = "absent" -> "download"

(* build_install_plan: the cached files are verified now, the actions are *)
(* executed later.                                                        *)
Planned(a) ==
    CASE cache[a] = "good"   -> "reuse"
      [] cache[a] = "bad"    -> "replace"
      [] cache[a] = "absent" -> "download"

(* With --download-client a bad client is never replaced. *)
Begin ==
    /\ \/ /\ Move("idle", "nxdl")
          /\ plan' = [a \in Artifacts |-> Planned(a)]
       \/ /\ client = "bad"
          /\ Move("idle", "failed")
          /\ UNCHANGED plan
    /\ UNCHANGED <<cache, runtimes, userData, appFiles, faults>>

Quarantine(a) ==
    /\ pc = a /\ plan[a] = "replace"
    /\ cache' = [cache EXCEPT ![a] = "absent"]
    /\ plan' = [plan EXCEPT ![a] = "download"]
    /\ UNCHANGED <<pc, runtimes, userData, appFiles, faults>>

(* A verified temporary file is renamed into the cache. *)
Download(a) ==
    /\ pc = a /\ plan[a] = "download"
    /\ cache' = [cache EXCEPT ![a] = "good"]
    /\ plan' = [plan EXCEPT ![a] = "reuse"]
    /\ UNCHANGED <<pc, runtimes, userData, appFiles, faults>>

(* The copy is verified too before it replaces the old one. *)
InstallBinary ==
    /\ plan["nxdl"] = "reuse" /\ cache["nxdl"] = "good"
    /\ Move("nxdl", "wine")
    /\ binary' = "good"
    /\ UNCHANGED <<cache, base, patched, built, orphans, userData, appFiles, plan, faults>>

-----------------------------------------------------------------------------
(* The base runtime and the patched one *)

(* _extraction_valid looks at the stamp and at four files. *)
ExtractionValid == base.there /\ base.stamp


ReplaceAlways ==
    /\ plan["wine"] = "reuse" /\ cache["wine"] = "good"
    /\ Move("wine", "extract")
    /\ base' = NoBase
    /\ UNCHANGED <<cache, binary, patched, built, orphans, userData, appFiles, plan, faults>>

(* What is there without a good stamp is moved aside. *)
CheckBase ==
    /\ plan["wine"] = "reuse" /\ cache["wine"] = "good"
    /\ Move("wine", IF ExtractionValid THEN "prepare" ELSE "extract")
    /\ base' = IF ExtractionValid THEN base ELSE NoBase
    /\ UNCHANGED <<cache, binary, patched, built, orphans, userData, appFiles, plan, faults>>

(* Mutant: the stamped destination is filled in place. *)
ExtractInPlace ==
    \E whole \in BOOLEAN :
        /\ Checked("extract", "stamp", whole)
        /\ base' = [there |-> TRUE, whole |-> whole, stamp |-> TRUE]
        /\ UNCHANGED <<cache, binary, patched, built, orphans, userData, appFiles, plan>>

(* The archive is unpacked in a temporary directory that is then renamed. *)
Extract ==
    /\ Move("extract", "stamp")
    /\ base' = [there |-> TRUE, whole |-> TRUE, stamp |-> FALSE]
    /\ UNCHANGED <<cache, binary, patched, built, orphans, userData, appFiles, plan, faults>>

Stamp ==
    /\ Move("stamp", "prepare")
    /\ base' = [base EXCEPT !.stamp = TRUE]
    /\ UNCHANGED <<cache, binary, patched, built, orphans, userData, appFiles, plan, faults>>

(* A valid runtime is kept, another one is refused, and without any the  *)
(* build starts.                                                         *)
Prepare ==
    /\ Move("prepare", CASE patched = "valid"   -> "client"
                         [] patched = "invalid" -> "conflict"
                         [] patched = "absent"  -> "check")
    /\ UNCHANGED <<cache, runtimes, userData, appFiles, plan, faults>>

(* build-patched-wine.sh: the base runtime and the place of the result are *)
(* looked at; the source is fetched unless there is one, and looked at;    *)
(* NTDLL is made, and looked at.  What an earlier build has left in the    *)
(* cache is used again, good or bad, and two builds that make at the same  *)
(* time may spoil each other's object files.  "stop" is an exit with an    *)
(* error.                                                                  *)
CheckInputs(next) ==
    /\ next = IF base.there /\ base.whole /\ patched = "absent" THEN "fetch" ELSE "stop"
    /\ UNCHANGED <<built, patched>>

FetchSource(next) ==
    /\ built' = [built EXCEPT !.source = IF @ = "absent" THEN "good" ELSE @]
    /\ next = IF built'.source = "good" THEN "make" ELSE "stop"
    /\ UNCHANGED patched

(* The copy of the base runtime is moved into place at the end, or into a *)
(* runtime that another build has put there.                              *)
MakeRuntime(next) ==
    /\ \E o \in {"good"} \cup (IF pc = "make" /\ "make" \in orphans THEN {"bad"} ELSE {}) :
          built' = [built EXCEPT !.objects = IF @ = "bad" THEN @ ELSE o]
    /\ IF built'.objects = "bad" \/ ~base.there
       THEN next = "stop" /\ UNCHANGED patched
       ELSE /\ next = "done"
            /\ patched' = IF patched # "absent" THEN patched
                          ELSE IF base.stamp THEN "valid" ELSE "invalid"

BuildStep(at, next) ==
    \/ at = "check" /\ CheckInputs(next)
    \/ at = "fetch" /\ FetchSource(next)
    \/ at = "make"  /\ MakeRuntime(next)

(* The installer looks at the exit status, and at the runtime once more. *)
Build ==
    /\ pc \in BuildSteps
    /\ \E next \in BuildSteps \cup {"stop", "done"} :
        /\ BuildStep(pc, next)
        /\ pc' = CASE next \in BuildSteps -> next
                   [] next = "done" /\ patched' = "valid" -> "client"
                   [] OTHER -> "failed"
    /\ UNCHANGED <<cache, binary, base, orphans, userData, appFiles, plan, faults>>

(* Two builds without an installer at the same step count as one. *)
OrphanBuilds ==
    /\ \E at \in orphans, next \in BuildSteps \cup {"stop", "done"} :
        /\ BuildStep(at, next)
        /\ orphans' = (orphans \ {at}) \cup ({next} \cap BuildSteps)
    /\ UNCHANGED <<cache, binary, base, userData, appFiles, pc, plan, faults>>

-----------------------------------------------------------------------------
(* The client, the prefix and the NGS service *)

(* A good client is kept, a bad one is moved aside, and without any one is  *)
(* imported or downloaded.                                                  *)
ClientStep ==
    /\ Move("client", "wineboot")
    /\ client' = "good"
    /\ UNCHANGED <<cache, runtimes, prefix, appFiles, plan, faults>>

(* wineboot exits or reaches its time limit, the prefix is stopped, and its *)
(* registry is looked at in both cases.                                     *)
Wineboot ==
    /\ patched = "valid"
    /\ \E works \in BOOLEAN :
        /\ prefix' = [prefix EXCEPT !.services = @ \/ works]
        /\ Checked("wineboot", "regedit", prefix'.services)
    /\ UNCHANGED <<cache, runtimes, client, appFiles, plan>>

Regedit ==
    /\ patched = "valid"
    /\ Move("regedit", "ngs")
    /\ UNCHANGED <<cache, runtimes, userData, appFiles, plan, faults>>

(* Mutant: the exit status of the NGS installer is all there is to see. *)
NgsUnchecked ==
    /\ client = "good" /\ prefix.services /\ patched = "valid"
    /\ Move("ngs", "app")
    /\ \E works \in BOOLEAN : prefix' = [prefix EXCEPT !.ngs = @ \/ works]
    /\ UNCHANGED <<cache, runtimes, client, appFiles, plan, faults>>

(* The vendor's installer runs, the prefix is stopped, and the service is *)
(* looked for in the registry and on the disk.                            *)
Ngs ==
    /\ client = "good" /\ prefix.services /\ patched = "valid"
    /\ \E works \in BOOLEAN :
        /\ prefix' = [prefix EXCEPT !.ngs = @ \/ works]
        /\ Checked("ngs", "app", prefix'.ngs)
    /\ UNCHANGED <<cache, runtimes, client, appFiles, plan>>

-----------------------------------------------------------------------------
(* _install_application *)

(* Mutant: the last backup is removed, and the application not kept as one. *)
StageWithoutBackup ==
    /\ Move("app", "swap")
    /\ app' = FALSE
    /\ backup' = FALSE
    /\ UNCHANGED <<cache, runtimes, userData, wrapper, plan, faults>>

(* .app.tmp is complete; the backup goes only if a new one can be made. *)
StageApp ==
    /\ Move("app", IF app THEN "clear" ELSE "swap")
    /\ UNCHANGED <<cache, runtimes, userData, appFiles, plan, faults>>

ClearBackup ==
    /\ Move("clear", "retire")
    /\ backup' = FALSE
    /\ UNCHANGED <<cache, runtimes, userData, app, wrapper, plan, faults>>

RetireApp ==
    /\ Move("retire", "swap")
    /\ app' = FALSE
    /\ backup' = TRUE
    /\ UNCHANGED <<cache, runtimes, userData, wrapper, plan, faults>>

SwapApp ==
    /\ Move("swap", "wrap")
    /\ app' = TRUE
    /\ UNCHANGED <<cache, runtimes, userData, backup, wrapper, plan, faults>>

Wrap ==
    /\ Move("wrap", "installed")
    /\ wrapper' = TRUE
    /\ UNCHANGED <<cache, runtimes, userData, app, backup, plan, faults>>

-----------------------------------------------------------------------------
(* What goes wrong *)

(* An error, a time limit or a kill ends the installation in the middle of *)
(* a step.  By then a Wine tool may have done its work, a bad client may    *)
(* have been moved aside and a part of the application's backup removed; a *)
(* compiler may leave half an object file, and a build may outlive its     *)
(* installer.  What other steps have begun is in temporary files that      *)
(* nobody looks at again.                                                  *)
Fail ==
    /\ pc \in Steps
    /\ pc' = "failed"
    /\ Fault
    /\ orphans' \in {orphans, orphans \cup ({pc} \cap BuildSteps)}
    /\ built' \in {built} \cup IF pc = "make" THEN {[built EXCEPT !.objects = "bad"]} ELSE {}
    /\ prefix' \in CASE pc = "wineboot" -> {prefix, [prefix EXCEPT !.services = TRUE]}
                     [] pc = "ngs"      -> {prefix, [prefix EXCEPT !.ngs = TRUE]}
                     [] OTHER           -> {prefix}
    /\ client' \in {client} \cup IF pc = "client" /\ client = "bad" THEN {"absent"} ELSE {}
    /\ backup' \in {backup} \cup IF pc = "clear" THEN {FALSE} ELSE {}
    /\ UNCHANGED <<cache, binary, base, patched, app, wrapper, plan>>

End ==
    /\ pc \in Ended
    /\ pc' = "idle"
    /\ plan' = [a \in Artifacts |-> "none"]
    /\ UNCHANGED <<cache, runtimes, userData, appFiles, faults>>

(* Between installations something goes bad that was good. *)
GoesBad(k) ==
    /\ \/ k = "cache"   /\ \E a \in Artifacts :
                               cache[a] = "good" /\ cache' = [cache EXCEPT ![a] = "bad"]
       \/ k # "cache"   /\ UNCHANGED cache
    /\ \/ k = "base"    /\ base.stamp /\ base' = [base EXCEPT !.stamp = FALSE, !.whole = FALSE]
       \/ k = "library" /\ base.whole /\ base' = [base EXCEPT !.whole = FALSE]
       \/ k \notin {"base", "library"} /\ UNCHANGED base
    /\ \/ k = "source"  /\ built.source = "good" /\ built' = [built EXCEPT !.source = "bad"]
       \/ k = "objects" /\ built.objects = "good" /\ built' = [built EXCEPT !.objects = "bad"]
       \/ k \notin {"source", "objects"} /\ UNCHANGED built
    /\ \/ k = "patched" /\ patched = "valid" /\ patched' = "invalid"
       \/ k # "patched" /\ UNCHANGED patched
    /\ \/ k = "binary"  /\ binary = "good" /\ binary' = "bad"
       \/ k # "binary"  /\ UNCHANGED binary
    /\ \/ k = "client"  /\ client = "good" /\ client' = "bad"
       \/ k # "client"  /\ UNCHANGED client
    /\ \/ k = "prefix"  /\ prefix # NoPrefix /\ prefix' = NoPrefix
       \/ k # "prefix"  /\ UNCHANGED prefix

Damage ==
    /\ pc = "idle"
    /\ Fault
    /\ \E k \in Damageable : GoesBad(k)
    /\ UNCHANGED <<orphans, appFiles, pc, plan>>

Step ==
    \/ \E a \in Artifacts : Quarantine(a) \/ Download(a)
    \/ InstallBinary \/ CheckBase \/ Extract \/ Stamp \/ Prepare \/ Build
    \/ ClientStep \/ Wineboot \/ Regedit \/ Ngs
    \/ StageApp \/ ClearBackup \/ RetireApp \/ SwapApp \/ Wrap

Next == Begin \/ Step \/ OrphanBuilds \/ End \/ Fail \/ Damage

(* The user runs an ended installation again, and every step has an end: *)
(* each program the installer starts runs under a time limit.            *)
Fairness == WF_vars(Begin) /\ WF_vars(Step) /\ WF_vars(End)

Spec == Init /\ [][Next]_vars
FairSpec == Spec /\ Fairness

-----------------------------------------------------------------------------
(* Properties *)

(***************************************************************************)
(* An installation that reports success has left everything a website      *)
(* launch looks for, whatever failed, was killed or went bad before: the   *)
(* patched runtime, the prefix with its services, NGS, the client, nxdl,   *)
(* the application and its wrapper (runner.py:98-103).                     *)
(***************************************************************************)
InstalledMeansPlayable ==
    pc = "installed" =>
        /\ patched = "valid" /\ binary = "good"
        /\ prefix.services /\ prefix.ngs /\ client = "good"
        /\ app /\ wrapper

(***************************************************************************)
(* A base runtime gets its stamp only when it is whole: no kill during the *)
(* extraction leaves a part that a later installation would take over, or  *)
(* finish by stamping it.                                                  *)
(***************************************************************************)
StampsOnlyWhole == [][~base.stamp /\ base'.stamp => base'.there /\ base'.whole]_vars

(***************************************************************************)
(* Once the application has been installed, its directory or its backup is *)
(* whole, at every moment of every later installation.                     *)
(***************************************************************************)
AppOrBackup == wrapper => app \/ backup

(***************************************************************************)
(* An installation replaces only what is not valid: a verified download, a *)
(* stamped base and a valid patched runtime are taken over as they are,    *)
(* also by the run after a failed one, and by the builds left behind.      *)
(***************************************************************************)
ValidIsKept ==
    [][ pc # "idle" =>
        /\ \A a \in Artifacts : cache[a] = "good" => cache'[a] = "good"
        /\ base.stamp => base' = base
        /\ patched = "valid" => patched' = "valid" ]_vars

(* What stands in the way of every installation until the user removes it: *)
(* a patched runtime that is not valid, and while there is none to be      *)
(* valid a base with a stamp and a bad NTDLL, or a bad source or object    *)
(* file in the build cache; and with --download-client a bad client.       *)
NeedsTheUser ==
    \/ patched = "invalid"
    \/ /\ patched = "absent"
       /\ (base.stamp /\ ~base.whole) \/ built.source = "bad" \/ built.objects = "bad"
    \/ client = "bad"


(***************************************************************************)
(* clean-project-design.md:184: a conflicting runtime directory is moved   *)
(* aside, so that no installation is refused because of it.                *)
(***************************************************************************)
ConflictIsMovedAside == pc # "conflict"

=============================================================================
