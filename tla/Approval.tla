------------------------------ MODULE Approval ------------------------------
(***************************************************************************)
(* The boot-scoped graphics approval: graphics-ok.json and every command   *)
(* that reads, writes or removes it.                                       *)
(*                                                                         *)
(* A website launch ("handle-url") reuses the approval of the current boot *)
(* or collects a graphics report itself; "doctor" collects one and writes  *)
(* or removes the approval; "doctor --preflight" only ever removes it;     *)
(* "install" collects a report, works for hours, and writes the approval   *)
(* from the report it collected at the start.  No lock orders these        *)
(* commands against each other: each process below takes its steps at any  *)
(* time, may be killed between two of them, and a reboot kills them all.   *)
(*                                                                         *)
(* A graphics report is abstracted to whether it passes the launch gate    *)
(* and to the boot id in it.                                               *)
(***************************************************************************)

CONSTANTS
    Procs,        \* the commands that may run at the same time
    Boots,        \* the boot ids the kernel hands out
    NoStamp,      \* graphics-ok.json is absent or unreadable
    Unavailable   \* the boot id of a report whose boot id could not be read

ASSUME SentinelsDiffer ==
    /\ NoStamp \notin Boots
    /\ Unavailable \notin Boots
    /\ NoStamp # Unavailable

VARIABLES
    boot,      \* /proc/sys/kernel/random/boot_id
    usedBoots, \* the boot ids of this boot and of the earlier ones
    gpu,       \* a report collected now would pass the launch gate
    io,        \* no access to the state directory or to /proc can fail
    stamp,     \* the boot id in graphics-ok.json, or NoStamp
    cmd,       \* the command a process runs
    pc,        \* where that process is
    report     \* the report it holds: [passed, boot]

(***************************************************************************)
(* History variables: no guard reads them.                                 *)
(***************************************************************************)
VARIABLES
    passedIn,   \* the boots in which a collected report passed the gate
    failedBy,   \* {p} if the newest report of this boot failed and p has
                \* collected it, {} if it passed or there is none
    stale,      \* stale[p]: a report collected after the one of p has failed
    cutShort,   \* p was killed, or could not write, before it had removed
                \* the approval for that report
    overtaken   \* a report older than that one was written after it

vars == <<boot, usedBoots, gpu, io, stamp, cmd, pc, report,
          passedIn, failedBy, stale, cutShort, overtaken>>

-----------------------------------------------------------------------------

Commands == {"handle-url", "doctor", "preflight", "install"}

(* Where a running command is, and how it ends. *)
Running == {"check", "drop", "collect", "installing", "write", "revoke"}
Ended   == {"approved", "ok", "failed", "killed"}

NoReport == [passed |-> FALSE, boot |-> Unavailable]

TypeOK ==
    /\ boot \in usedBoots
    /\ usedBoots \subseteq Boots
    /\ gpu \in BOOLEAN
    /\ io \in BOOLEAN
    /\ stamp \in Boots \cup {NoStamp, Unavailable}
    /\ cmd \in [Procs -> Commands \cup {"none"}]
    /\ pc \in [Procs -> {"idle"} \cup Running \cup Ended]
    /\ report \in [Procs -> [passed : BOOLEAN, boot : Boots \cup {Unavailable}]]
    /\ passedIn \subseteq usedBoots
    /\ failedBy \subseteq Procs
    /\ stale \in [Procs -> BOOLEAN]
    /\ cutShort \in BOOLEAN
    /\ overtaken \in BOOLEAN

Init ==
    /\ boot \in Boots
    /\ usedBoots = {boot}
    /\ gpu \in BOOLEAN
    /\ io = TRUE
    /\ stamp = NoStamp
    /\ cmd = [p \in Procs |-> "none"]
    /\ pc = [p \in Procs |-> "idle"]
    /\ report = [p \in Procs |-> NoReport]
    /\ passedIn = {}
    /\ failedBy = {}
    /\ stale = [p \in Procs |-> FALSE]
    /\ cutShort = FALSE
    /\ overtaken = FALSE

-----------------------------------------------------------------------------
(* Helpers *)

Move(p, from, to) ==
    /\ pc[p] = from
    /\ pc' = [pc EXCEPT ![p] = to]

(* Mutant: any stamp is taken for an approval, whatever boot it names. *)
AnyStampMatches == stamp # NoStamp

(* _stamp_matches: the payload must be the one this boot would write. *)
StampMatches == stamp = boot

(* Mutant: a rechecking launch waits for a report of the boot in the old stamp. *)
AcceptedForOldStamp(c, r) == r.passed /\ (c = "handle-url" => r.boot = stamp)

(* Mutant: an installation does not ask for the verdict of its report. *)
AcceptedAtInstall(c, r) ==
    (r.passed \/ c = "install") /\ (c = "handle-url" => r.passed /\ r.boot = boot)

(* Mutant: a failed preflight ends without touching the approval. *)
PreflightLeaves(c) == IF c = "preflight" THEN "failed" ELSE "revoke"

(* Where a check that has failed leads, in cli.py and in approval.py. *)
AfterFailure(c) == "revoke"

(* The condition on which a fresh report lets command c go on.  The launch *)
(* also refuses a report whose boot id is not the one it read first.       *)
Accepted(c, r) == r.passed /\ (c = "handle-url" => r.boot = boot)

AfterPass(c) ==
    CASE c = "preflight" -> "ok"
      [] c = "install"   -> "installing"
      [] OTHER           -> "write"

unchangedEnv == UNCHANGED <<boot, usedBoots, gpu, io>>

verdict == <<failedBy, cutShort, overtaken>>

-----------------------------------------------------------------------------
(* The commands *)

(* A command starts: only the launch looks at the stamp first. *)
Start(p, c) ==
    /\ Move(p, "idle", IF c = "handle-url" THEN "check" ELSE "collect")
    /\ cmd' = [cmd EXCEPT ![p] = c]
    /\ UNCHANGED <<stamp, report, passedIn, stale, verdict>>
    /\ unchangedEnv

(* ensure_current_boot_approval up to the reuse of a current stamp; a stamp *)
(* that cannot be read is none.                                             *)
CheckStamp(p) ==
    /\ \/ ~io /\ Move(p, "check", "failed")
       \/ StampMatches /\ Move(p, "check", "approved")
       \/ (~StampMatches \/ ~io) /\ Move(p, "check", "drop")
    /\ UNCHANGED <<stamp, cmd, report, passedIn, stale, verdict>>
    /\ unchangedEnv

(* A stamp of another boot is removed before the graphics are rechecked. *)
DropStamp(p) ==
    /\ Move(p, "drop", "collect")
    /\ stamp' = NoStamp
    /\ UNCHANGED <<cmd, report, passedIn, stale, verdict>>
    /\ unchangedEnv

(* collect_graphics_report and the evaluation of the report; a process that *)
(* cannot read /proc still gets a report, with an unavailable boot id.      *)
Collect(p) ==
    /\ \E b \in IF io THEN {boot} ELSE {boot, Unavailable} :
        LET r == [passed |-> gpu, boot |-> b] IN
        /\ Move(p, "collect",
                IF Accepted(cmd[p], r) THEN AfterPass(cmd[p])
                ELSE AfterFailure(cmd[p]))
        /\ report' = [report EXCEPT ![p] = r]
    /\ passedIn' = IF gpu THEN passedIn \cup {boot} ELSE passedIn
    /\ failedBy' = IF gpu THEN {} ELSE {p}
    /\ stale' = [q \in Procs |-> q # p /\ (stale[q] \/ (report[q].passed /\ ~gpu))]
    /\ cutShort' = FALSE
    /\ overtaken' = FALSE
    /\ UNCHANGED <<stamp, cmd>>
    /\ unchangedEnv

(* No report comes back: a probe cannot be started, or its output cannot be *)
(* read.  The launch removes what it finds, the other commands just end.    *)
CollectFails(p) ==
    /\ ~io
    /\ Move(p, "collect", IF cmd[p] = "handle-url" THEN "revoke" ELSE "failed")
    /\ UNCHANGED <<stamp, cmd, report, passedIn, stale, verdict>>
    /\ unchangedEnv

(* perform_install and what precedes it: done, or an installer error that *)
(* ends the command and leaves the stamp as it is.                        *)
Install(p) ==
    /\ Move(p, "installing", "write") \/ Move(p, "installing", "failed")
    /\ UNCHANGED <<stamp, cmd, report, passedIn, stale, verdict>>
    /\ unchangedEnv

(* write_graphics_approval: a temporary file renamed over the stamp. *)
Put(p) ==
    /\ stamp' = report[p].boot
    /\ overtaken' = (overtaken \/ stale[p])

WriteStamp(p) ==
    /\ Move(p, "write", IF cmd[p] = "handle-url" THEN "approved" ELSE "ok")
    /\ Put(p)
    /\ UNCHANGED <<cmd, report, passedIn, failedBy, stale, cutShort>>
    /\ unchangedEnv

(* The file cannot be written, or its mode not be set once it is in place:  *)
(* the launch removes it and fails, the other commands end and leave there  *)
(* what there is.                                                           *)
WriteFails(p) ==
    /\ ~io
    /\ Move(p, "write", IF cmd[p] = "handle-url" THEN "revoke" ELSE "failed")
    /\ Put(p) \/ UNCHANGED <<stamp, overtaken>>
    /\ UNCHANGED <<cmd, report, passedIn, failedBy, stale, cutShort>>
    /\ unchangedEnv

(* Mutant: the removal writes an empty report over the stamp. *)
Emptied == NoReport

(* The removal after a failed check, in the launch, doctor and install. *)
Removed == NoStamp

Revoke(p) ==
    /\ Move(p, "revoke", "failed")
    /\ stamp' = Removed
    /\ UNCHANGED <<cmd, report, passedIn, stale, verdict>>
    /\ unchangedEnv

(* The removal that the newest failing report calls for does not happen. *)
CutShort(p) == cutShort' = (cutShort \/ (p \in failedBy /\ pc[p] = "revoke"))

(* A stamp that cannot be removed stays: the launch tries once more, and   *)
(* every command ends with an error.                                       *)
RemovalFails(p) ==
    /\ ~io
    /\ Move(p, "drop", "revoke") \/ Move(p, "revoke", "failed")
    /\ CutShort(p)
    /\ UNCHANGED <<stamp, cmd, report, passedIn, failedBy, stale, overtaken>>
    /\ unchangedEnv

(* The slot of an ended command becomes free. *)
End(p) ==
    /\ pc[p] \in Ended
    /\ pc' = [pc EXCEPT ![p] = "idle"]
    /\ cmd' = [cmd EXCEPT ![p] = "none"]
    /\ report' = [report EXCEPT ![p] = NoReport]
    /\ stale' = [stale EXCEPT ![p] = FALSE]
    /\ UNCHANGED <<stamp, passedIn, verdict>>
    /\ unchangedEnv

-----------------------------------------------------------------------------
(* What happens to the commands *)

(* A command is killed between two steps; its report is gone with it. *)
Kill(p) ==
    /\ pc[p] \in Running
    /\ pc' = [pc EXCEPT ![p] = "killed"]
    /\ report' = [report EXCEPT ![p] = NoReport]
    /\ stale' = [stale EXCEPT ![p] = FALSE]
    /\ CutShort(p)
    /\ UNCHANGED <<stamp, cmd, passedIn, failedBy, overtaken>>
    /\ unchangedEnv

(* The graphics stack changes: another renderer, resolution or session. *)
GraphicsChange ==
    /\ gpu' = ~gpu
    /\ UNCHANGED <<boot, usedBoots, io, stamp, cmd, pc, report,
                   passedIn, stale, verdict>>

(* Disk full or /proc hidden, and back. *)
IoChange ==
    /\ io' = ~io
    /\ UNCHANGED <<boot, usedBoots, gpu, stamp, cmd, pc, report,
                   passedIn, stale, verdict>>

(* A reboot: a boot id never seen before; the stamp file survives. *)
Reboot ==
    /\ \E b \in Boots \ usedBoots :
        /\ boot' = b
        /\ usedBoots' = usedBoots \cup {b}
    /\ gpu' \in BOOLEAN
    /\ pc' = [p \in Procs |-> IF pc[p] = "idle" THEN "idle" ELSE "killed"]
    /\ report' = [p \in Procs |-> NoReport]
    /\ stale' = [p \in Procs |-> FALSE]
    /\ failedBy' = {}
    /\ cutShort' = FALSE
    /\ overtaken' = FALSE
    /\ UNCHANGED <<io, stamp, cmd, passedIn>>

Step(p) ==
    \/ CheckStamp(p)
    \/ DropStamp(p)
    \/ Collect(p)
    \/ CollectFails(p)
    \/ Install(p)
    \/ WriteStamp(p)
    \/ WriteFails(p)
    \/ Revoke(p)
    \/ RemovalFails(p)

Next ==
    \/ \E p \in Procs, c \in Commands : Start(p, c)
    \/ \E p \in Procs : Step(p) \/ End(p) \/ Kill(p)
    \/ GraphicsChange
    \/ IoChange
    \/ Reboot

(* A command that is not killed takes its next step: every probe of the    *)
(* report, the installer's subprocesses included, runs under a timeout.    *)
Fairness == \A p \in Procs : WF_vars(Step(p))

Spec == Init /\ [][Next]_vars
FairSpec == Spec /\ Fairness

-----------------------------------------------------------------------------
(* Properties *)

(***************************************************************************)
(* A launch that was let through runs in a boot whose graphics a collected *)
(* report has passed: an approval never outlives its boot, whichever       *)
(* command wrote it and however the commands, kills and reboots interleave.*)
(***************************************************************************)
ApprovedBootPassed ==
    \A p \in Procs :
        (pc[p] = "approved" /\ cmd[p] = "handle-url") => boot \in passedIn

(***************************************************************************)
(* An approval of this boot is not in force against the newest report: if  *)
(* that report, collected by a launch, a doctor, a preflight or an install *)
(* in this boot, has failed, then the approval is about to be removed, or  *)
(* its removal has been cut short by a kill or an error, or a slower       *)
(* command has written the approval since, from a passing report that is   *)
(* older than the failing one.                                             *)
(***************************************************************************)
FailedCheckRevokes ==
    (failedBy # {} /\ stamp = boot) =>
        \/ \E p \in failedBy : pc[p] = "revoke"
        \/ cutShort
        \/ overtaken

(***************************************************************************)
(* The commands, the kills and a stamp file that survives reboots together *)
(* behave like one approval that is granted only after a check of the same *)
(* boot, and that a reboot takes away.                                     *)
(***************************************************************************)
Approved == {p \in Procs : pc[p] = "approved" /\ cmd[p] = "handle-url"}

Gate == INSTANCE GraphicsGate WITH
            Launches <- Procs, BootIds <- Boots,
            now <- boot, passed <- passedIn,
            inForce <- stamp = boot, through <- Approved

ImplementsGate == Gate!Spec

(***************************************************************************)
(* No manual doctor is needed after a reboot: while the graphics stay good *)
(* and no I/O fails, a website launch that starts its check is approved,   *)
(* unless it is killed, whatever the other commands do to the stamp.       *)
(***************************************************************************)
GoodGraphicsApprove ==
    \A p \in Procs :
        [](pc[p] = "check" /\ [](gpu /\ io) => <>(pc[p] \in {"approved", "killed"}))

=============================================================================
