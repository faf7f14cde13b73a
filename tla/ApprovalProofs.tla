--------------------------- MODULE ApprovalProofs ---------------------------
(***************************************************************************)
(* Proofs about Approval, for any set of commands and any set of boot ids. *)
(*                                                                         *)
(* The inductive invariant says where a stamp can have come from: a report *)
(* is evidence for the boot it names, only evidence is written, and the    *)
(* launch writes evidence for the boot it runs in.                         *)
(***************************************************************************)
EXTENDS Approval, Naturals, TLAPS

-----------------------------------------------------------------------------

StampEarned == stamp \in Boots => stamp \in passedIn

ReportsEarned ==
    \A p \in Procs :
        (report[p].passed /\ report[p].boot \in Boots) => report[p].boot \in passedIn

WritersPassed ==
    \A p \in Procs : pc[p] \in {"installing", "write"} => report[p].passed

(* A launch never installs: its report is written at once or not at all. *)
InstallersInstall ==
    \A p \in Procs : pc[p] = "installing" => cmd[p] = "install"

LaunchReportsThisBoot ==
    \A p \in Procs :
        (pc[p] = "write" /\ cmd[p] = "handle-url") => report[p].boot = boot

IInv ==
    /\ TypeOK
    /\ StampEarned
    /\ ReportsEarned
    /\ WritersPassed
    /\ InstallersInstall
    /\ LaunchReportsThisBoot
    /\ ApprovedBootPassed

-----------------------------------------------------------------------------

LEMMA InitTypeOK == Init => TypeOK
<1> USE SentinelsDiffer
<1> SUFFICES ASSUME Init PROVE TypeOK
  OBVIOUS
<1>1. NoReport \in [passed : BOOLEAN, boot : Boots \cup {Unavailable}]
  BY DEF NoReport
<1>2. report \in [Procs -> [passed : BOOLEAN, boot : Boots \cup {Unavailable}]]
  BY <1>1 DEF Init
<1>3. /\ cmd \in [Procs -> Commands \cup {"none"}]
      /\ pc \in [Procs -> {"idle"} \cup Running \cup Ended]
      /\ stale \in [Procs -> BOOLEAN]
  BY DEF Init
<1>4. /\ boot \in usedBoots
      /\ usedBoots \subseteq Boots
      /\ gpu \in BOOLEAN
      /\ stamp \in Boots \cup {NoStamp, Unavailable}
      /\ passedIn \subseteq usedBoots
  BY DEF Init
<1>5. /\ io \in BOOLEAN /\ failedBy \subseteq Procs
      /\ cutShort \in BOOLEAN /\ overtaken \in BOOLEAN
  BY DEF Init
<1> QED BY <1>2, <1>3, <1>4, <1>5 DEF TypeOK

(* Every variable keeps its type: the stamp only ever holds a boot id or    *)
(* the marker of an unreadable one, and no report passes in an unused boot. *)
THEOREM TypeCorrect == Spec => []TypeOK
<1> USE SentinelsDiffer
<1>1. Init => TypeOK
  BY InitTypeOK
<1>2. ASSUME TypeOK, [Next]_vars PROVE TypeOK'
  <2> USE <1>2 DEF TypeOK, Running, Ended, unchangedEnv, verdict
  <2>1. ASSUME NEW p \in Procs, NEW c \in Commands, Start(p, c) PROVE TypeOK'
    BY <2>1 DEF Start, Move, Commands
  <2>2. ASSUME NEW p \in Procs, CheckStamp(p) PROVE TypeOK'
    BY <2>2 DEF CheckStamp, Move
  <2>3. ASSUME NEW p \in Procs, DropStamp(p) PROVE TypeOK'
    BY <2>3 DEF DropStamp, Move
  <2>4. ASSUME NEW p \in Procs, Collect(p) PROVE TypeOK'
    <3>1. PICK b \in {boot, Unavailable} :
            /\ Move(p, "collect",
                    IF Accepted(cmd[p], [passed |-> gpu, boot |-> b])
                    THEN AfterPass(cmd[p]) ELSE AfterFailure(cmd[p]))
            /\ report' = [report EXCEPT ![p] = [passed |-> gpu, boot |-> b]]
      BY <2>4 DEF Collect
    <3>2. AfterPass(cmd[p]) \in {"ok", "installing", "write"}
      BY DEF AfterPass
    <3>3. pc' \in [Procs -> {"idle"} \cup Running \cup Ended]
      BY <3>1, <3>2 DEF Move, AfterFailure
    <3>4. report' \in [Procs -> [passed : BOOLEAN, boot : Boots \cup {Unavailable}]]
      BY <3>1
    <3>5. /\ passedIn' \subseteq usedBoots'
          /\ failedBy' \subseteq Procs
          /\ stale' \in [Procs -> BOOLEAN]
      BY <2>4 DEF Collect
    <3> QED BY <2>4, <3>3, <3>4, <3>5 DEF Collect
  <2>5. ASSUME NEW p \in Procs, Install(p) PROVE TypeOK'
    BY <2>5 DEF Install, Move
  <2>6. ASSUME NEW p \in Procs, WriteStamp(p) PROVE TypeOK'
    BY <2>6 DEF WriteStamp, Put, Move
  <2>7. ASSUME NEW p \in Procs, WriteFails(p) PROVE TypeOK'
    BY <2>7 DEF WriteFails, Put, Move
  <2>8. ASSUME NEW p \in Procs, Revoke(p) PROVE TypeOK'
    BY <2>8 DEF Revoke, Removed, Move
  <2>9. ASSUME NEW p \in Procs, End(p) PROVE TypeOK'
    BY <2>9 DEF End, NoReport
  <2>10. ASSUME NEW p \in Procs, Kill(p) PROVE TypeOK'
    BY <2>10 DEF Kill, CutShort, NoReport
  <2>11. CASE GraphicsChange
    BY <2>11 DEF GraphicsChange
  <2>12. CASE IoChange
    BY <2>12 DEF IoChange
  <2>13. CASE Reboot
    BY <2>13 DEF Reboot, NoReport
  <2>14. CASE UNCHANGED vars
    BY <2>14 DEF vars
  <2>15. ASSUME NEW p \in Procs, RemovalFails(p) PROVE TypeOK'
    BY <2>15 DEF RemovalFails, CutShort, Move
  <2>16. ASSUME NEW p \in Procs, CollectFails(p) PROVE TypeOK'
    BY <2>16 DEF CollectFails, Move
  <2> QED
    BY <2>1, <2>2, <2>3, <2>4, <2>5, <2>6, <2>7, <2>8, <2>9, <2>10, <2>11,
       <2>12, <2>13, <2>14, <2>15, <2>16 DEF Next, Step
<1> QED
  BY <1>1, <1>2, PTL DEF Spec

-----------------------------------------------------------------------------

(* The steps that leave the evidence alone: nothing that IInv reads besides *)
(* pc changes, and pc moves only out of the states it speaks about.         *)
LEMMA QuietSteps ==
    ASSUME IInv, TypeOK', NEW p \in Procs,
           CheckStamp(p) \/ CollectFails(p) \/ Install(p) \/ RemovalFails(p) \/ Kill(p)
    PROVE  IInv'
<1> USE DEF IInv, TypeOK, Move, unchangedEnv, StampEarned, ReportsEarned,
            WritersPassed, LaunchReportsThisBoot, ApprovedBootPassed,
            InstallersInstall
<1>1. CASE CheckStamp(p)
  <2>1. pc'[p] = "approved" => boot \in passedIn
    BY <1>1 DEF CheckStamp, StampMatches
  <2>2. \A q \in Procs : q # p => pc'[q] = pc[q]
    BY <1>1 DEF CheckStamp
  <2>3. pc'[p] \in {"failed", "approved", "drop"}
    BY <1>1 DEF CheckStamp
  <2> QED BY <1>1, <2>1, <2>2, <2>3 DEF CheckStamp
<1>2. CASE Install(p)
  <2>1. /\ pc[p] = "installing"
        /\ pc'[p] \in {"write", "failed"}
        /\ \A q \in Procs : q # p => pc'[q] = pc[q]
    BY <1>2 DEF Install
  <2>2. cmd[p] # "handle-url"
    BY <2>1
  <2> QED BY <1>2, <2>1, <2>2 DEF Install
<1>3. CASE CollectFails(p)
  BY <1>3 DEF CollectFails
<1>4. CASE Kill(p)
  BY <1>4 DEF Kill, NoReport, Running
<1>5. CASE RemovalFails(p)
  BY <1>5 DEF RemovalFails
<1> QED BY <1>1, <1>2, <1>3, <1>4, <1>5


(* Writing and removing the stamp. *)
LEMMA StampSteps ==
    ASSUME IInv, TypeOK', NEW p \in Procs,
           DropStamp(p) \/ WriteStamp(p) \/ WriteFails(p) \/ Revoke(p)
    PROVE  IInv'
<1> USE SentinelsDiffer
    DEF IInv, TypeOK, Move, unchangedEnv, StampEarned, ReportsEarned,
        WritersPassed, InstallersInstall, LaunchReportsThisBoot, ApprovedBootPassed
<1>1. CASE DropStamp(p)
  BY <1>1 DEF DropStamp
<1>2. CASE WriteStamp(p)
  <2>1. /\ pc[p] = "write"
        /\ pc'[p] \in {"approved", "ok"}
        /\ pc'[p] = "approved" => cmd[p] = "handle-url"
        /\ \A q \in Procs : q # p => pc'[q] = pc[q]
    BY <1>2 DEF WriteStamp
  <2>2. stamp' \in Boots => stamp' \in passedIn
    BY <2>1, <1>2 DEF WriteStamp, Put
  <2>3. pc'[p] = "approved" => boot \in passedIn
    BY <2>1
  <2> QED BY <1>2, <2>1, <2>2, <2>3 DEF WriteStamp
<1>3. CASE WriteFails(p)
  <2>1. /\ pc[p] = "write"
        /\ pc'[p] \in {"revoke", "failed"}
        /\ \A q \in Procs : q # p => pc'[q] = pc[q]
    BY <1>3 DEF WriteFails
  <2>2. stamp' \in Boots => stamp' \in passedIn
    BY <2>1, <1>3 DEF WriteFails, Put
  <2> QED BY <1>3, <2>1, <2>2 DEF WriteFails
<1>4. CASE Revoke(p)
  BY <1>4 DEF Revoke, Removed
<1> QED BY <1>1, <1>2, <1>3, <1>4

(* A new report is evidence for the boot it names. *)
LEMMA CollectStep ==
    ASSUME IInv, TypeOK', NEW p \in Procs, Collect(p)
    PROVE  IInv'
<1> USE SentinelsDiffer
    DEF IInv, TypeOK, unchangedEnv, StampEarned, ReportsEarned, WritersPassed,
        InstallersInstall, LaunchReportsThisBoot, ApprovedBootPassed
<1>1. PICK b \in {boot, Unavailable} :
        /\ Move(p, "collect",
                IF Accepted(cmd[p], [passed |-> gpu, boot |-> b])
                THEN AfterPass(cmd[p]) ELSE AfterFailure(cmd[p]))
        /\ report' = [report EXCEPT ![p] = [passed |-> gpu, boot |-> b]]
  BY DEF Collect
<1>2. /\ pc'[p] = IF Accepted(cmd[p], [passed |-> gpu, boot |-> b])
                   THEN AfterPass(cmd[p]) ELSE AfterFailure(cmd[p])
      /\ \A q \in Procs : q # p => pc'[q] = pc[q] /\ report'[q] = report[q]
      /\ report'[p] = [passed |-> gpu, boot |-> b]
  BY <1>1 DEF Move
<1>3. passedIn \subseteq passedIn' /\ (gpu => boot \in passedIn')
  BY DEF Collect
<1>4. /\ pc'[p] \in {"revoke", "ok", "installing", "write"}
      /\ pc'[p] \in {"installing", "write"} =>
            Accepted(cmd[p], [passed |-> gpu, boot |-> b])
      /\ pc'[p] = "installing" => cmd[p] = "install"
  BY <1>2 DEF AfterPass, AfterFailure
<1>5. /\ boot' = boot
      /\ stamp' = stamp
      /\ cmd' = cmd
  BY DEF Collect
<1>6. StampEarned' /\ ReportsEarned'
  BY <1>2, <1>3, <1>5
<1>7. WritersPassed' /\ InstallersInstall'
  BY <1>2, <1>4, <1>5 DEF Accepted
<1>8. LaunchReportsThisBoot'
  BY <1>2, <1>4, <1>5 DEF Accepted
<1>9. ApprovedBootPassed'
  BY <1>2, <1>3, <1>4, <1>5
<1> QED BY <1>6, <1>7, <1>8, <1>9

(* Where stamps and reports come from, in every reachable state. *)
LEMMA Invariance == Spec => []IInv
<1> USE SentinelsDiffer
<1>1. Init => IInv
  BY InitTypeOK DEF Init, IInv, StampEarned, ReportsEarned, WritersPassed, NoReport,
          InstallersInstall, LaunchReportsThisBoot, ApprovedBootPassed
<1>2. ASSUME IInv, TypeOK', [Next]_vars PROVE IInv'
  <2> USE <1>2
      DEF IInv, TypeOK, unchangedEnv, StampEarned, ReportsEarned, WritersPassed,
          InstallersInstall, LaunchReportsThisBoot, ApprovedBootPassed
  <2>1. ASSUME NEW p \in Procs, NEW c \in Commands, Start(p, c) PROVE IInv'
    BY <2>1 DEF Start, Move
  <2>2. ASSUME NEW p \in Procs, Step(p) PROVE IInv'
    BY <2>2, QuietSteps, StampSteps, CollectStep DEF Step
  <2>3. ASSUME NEW p \in Procs, End(p) PROVE IInv'
    BY <2>3 DEF End, NoReport, Ended
  <2>4. ASSUME NEW p \in Procs, Kill(p) PROVE IInv'
    BY <2>4, QuietSteps
  <2>5. CASE GraphicsChange
    BY <2>5 DEF GraphicsChange
  <2>6. CASE IoChange
    BY <2>6 DEF IoChange
  <2>7. CASE Reboot
    BY <2>7 DEF Reboot, NoReport
  <2>8. CASE UNCHANGED vars
    BY <2>8 DEF vars
  <2> QED BY <2>1, <2>2, <2>3, <2>4, <2>5, <2>6, <2>7, <2>8 DEF Next
<1> QED BY <1>1, <1>2, TypeCorrect, PTL DEF Spec

(* No launch is let through in a boot whose graphics have not passed. *)
THEOREM LaunchesAreApproved == Spec => []ApprovedBootPassed
<1>1. IInv => ApprovedBootPassed
  BY DEF IInv
<1> QED BY <1>1, Invariance, PTL

-----------------------------------------------------------------------------

(* While the newest report is one that failed, every report that passed is *)
(* known to be older, and so is whatever a command may still write.        *)
PassedAreStale ==
    failedBy # {} => \A p \in Procs : report[p].passed => stale[p]

LEMMA OlderReportsAreStale == Spec => []PassedAreStale
<1>1. Init => PassedAreStale
  BY DEF Init, PassedAreStale
<1>2. ASSUME TypeOK, PassedAreStale, [Next]_vars PROVE PassedAreStale'
  <2> USE <1>2 DEF TypeOK, PassedAreStale, verdict
  <2>1. ASSUME NEW p \in Procs, NEW c \in Commands, Start(p, c) PROVE PassedAreStale'
    BY <2>1 DEF Start
  <2>2. ASSUME NEW p \in Procs, Collect(p) PROVE PassedAreStale'
    <3>1. PICK r : r.passed = gpu /\ report' = [report EXCEPT ![p] = r]
      BY <2>2 DEF Collect
    <3> QED BY <2>2, <3>1 DEF Collect
  <2>3. ASSUME NEW p \in Procs, Step(p), ~Collect(p) PROVE PassedAreStale'
    BY <2>3 DEF Step, CheckStamp, DropStamp, CollectFails, Install, WriteStamp, WriteFails,
                Revoke, RemovalFails
  <2>4. ASSUME NEW p \in Procs, End(p) \/ Kill(p) PROVE PassedAreStale'
    BY <2>4 DEF End, Kill, NoReport
  <2>5. CASE GraphicsChange \/ IoChange \/ Reboot \/ UNCHANGED vars
    BY <2>5 DEF GraphicsChange, IoChange, Reboot, vars
  <2> QED BY <2>1, <2>2, <2>3, <2>4, <2>5 DEF Next
<1> QED BY <1>1, <1>2, TypeCorrect, PTL DEF Spec

(***************************************************************************)
(* A failed check of any command leads to the removal of the approval; it  *)
(* stays only where the removal was cut short, and comes back only by a    *)
(* report that is older than the failing one.                              *)
(***************************************************************************)
THEOREM RevocationHolds == Spec => []FailedCheckRevokes
<1> USE SentinelsDiffer
<1>1. Init => FailedCheckRevokes
  BY DEF Init, FailedCheckRevokes
<1>2. ASSUME IInv, PassedAreStale, FailedCheckRevokes, [Next]_vars
      PROVE  FailedCheckRevokes'
  <2> USE <1>2 DEF IInv, TypeOK, FailedCheckRevokes, Move, unchangedEnv, verdict
  <2>1. ASSUME NEW p \in Procs, NEW c \in Commands, Start(p, c)
        PROVE  FailedCheckRevokes'
    BY <2>1 DEF Start
  <2>2. ASSUME NEW p \in Procs, CheckStamp(p) \/ CollectFails(p) \/ Install(p)
        PROVE  FailedCheckRevokes'
    BY <2>2 DEF CheckStamp, CollectFails, Install
  <2>3. ASSUME NEW p \in Procs, Collect(p) PROVE FailedCheckRevokes'
    <3>1. CASE gpu
      BY <2>3, <3>1 DEF Collect
    <3>2. CASE ~gpu
      <4>1. PICK r : ~r.passed /\ Move(p, "collect",
                        IF Accepted(cmd[p], r) THEN AfterPass(cmd[p])
                        ELSE AfterFailure(cmd[p]))
        BY <2>3, <3>2 DEF Collect
      <4>2. pc'[p] = "revoke" /\ failedBy' = {p}
        BY <2>3, <3>2, <4>1 DEF Collect, Accepted, AfterFailure
      <4> QED BY <4>2
    <3> QED BY <3>1, <3>2
  <2>4. ASSUME NEW p \in Procs, DropStamp(p) \/ Revoke(p)
        PROVE  FailedCheckRevokes'
    <3>1. stamp' = NoStamp /\ boot' = boot /\ boot \in Boots
      BY <2>4 DEF DropStamp, Revoke, Removed
    <3> QED BY <3>1
  <2>5. ASSUME NEW p \in Procs, WriteStamp(p) \/ WriteFails(p)
        PROVE  FailedCheckRevokes'
    <3>1. /\ pc[p] = "write" /\ UNCHANGED <<boot, failedBy, cutShort>>
          /\ \A q \in Procs : q # p => pc'[q] = pc[q]
      BY <2>5 DEF WriteStamp, WriteFails
    <3>2. failedBy # {} => stale[p]
      BY <3>1 DEF WritersPassed, PassedAreStale
    <3>3. CASE Put(p)
      BY <3>1, <3>2, <3>3 DEF Put
    <3>4. CASE UNCHANGED <<stamp, overtaken>>
      BY <3>1, <3>4
    <3> QED BY <2>5, <3>3, <3>4 DEF WriteStamp, WriteFails
  <2>6. ASSUME NEW p \in Procs, RemovalFails(p) \/ Kill(p) PROVE FailedCheckRevokes'
    <3>1. /\ UNCHANGED <<boot, stamp, failedBy, overtaken>> /\ CutShort(p)
          /\ \A q \in Procs : q # p => pc'[q] = pc[q]
      BY <2>6 DEF RemovalFails, Kill
    <3> QED BY <3>1 DEF CutShort
  <2>7. ASSUME NEW p \in Procs, End(p) PROVE FailedCheckRevokes'
    BY <2>7 DEF End, Ended
  <2>8. CASE GraphicsChange \/ IoChange
    BY <2>8 DEF GraphicsChange, IoChange
  <2>9. CASE Reboot
    BY <2>9 DEF Reboot
  <2>10. CASE UNCHANGED vars
    BY <2>10 DEF vars
  <2> QED BY <2>1, <2>2, <2>3, <2>4, <2>5, <2>6, <2>7, <2>8, <2>9, <2>10 DEF Next, Step
<1> QED BY <1>1, <1>2, Invariance, OlderReportsAreStale, PTL DEF Spec

-----------------------------------------------------------------------------
(* The way of a launch to its approval *)

(* Only a launch looks at the stamp. *)
LaunchesCheck == \A p \in Procs : pc[p] \in {"check", "drop"} => cmd[p] = "handle-url"

Launching(p) == cmd[p] = "handle-url" /\ pc[p] \in {"check", "drop", "collect", "write"}

(* How many steps a launch has left at most before it is let through. *)
StepsLeft(at) ==
    CASE at = "check"    -> 4
      [] at = "drop"     -> 3
      [] at = "collect"  -> 2
      [] at = "write"    -> 1
      [] at = "approved" -> 0

(* A launch is nearer to its approval, or where it was if the step was not  *)
(* its own, or it was killed.                                              *)
Onwards(p) ==
    \/ pc'[p] = "killed"
    \/ pc'[p] = pc[p] /\ cmd'[p] = cmd[p] /\ ~Step(p)
    \/ /\ Launching(p)' \/ pc'[p] = "approved"
       /\ StepsLeft(pc'[p]) < StepsLeft(pc[p])

LEMMA CheckersLaunch == Spec => []LaunchesCheck
<1>1. Init => LaunchesCheck
  BY DEF Init, LaunchesCheck
<1>2. ASSUME TypeOK, LaunchesCheck, [Next]_vars PROVE LaunchesCheck'
  <2> USE <1>2 DEF TypeOK, LaunchesCheck, Move
  <2>1. ASSUME NEW p \in Procs, NEW c \in Commands, Start(p, c) PROVE LaunchesCheck'
    BY <2>1 DEF Start
  <2>2. ASSUME NEW p \in Procs, CheckStamp(p) PROVE LaunchesCheck'
    BY <2>2 DEF CheckStamp
  <2>3. ASSUME NEW p \in Procs, Collect(p) PROVE LaunchesCheck'
    <3>1. PICK to \in {"ok", "installing", "write", "revoke"} : Move(p, "collect", to)
      BY <2>3 DEF Collect, AfterPass, AfterFailure
    <3> QED BY <2>3, <3>1 DEF Collect
  <2>4. ASSUME NEW p \in Procs, Step(p), ~CheckStamp(p), ~Collect(p) PROVE LaunchesCheck'
    BY <2>4 DEF Step, DropStamp, CollectFails, Install, WriteStamp, WriteFails, Revoke,
                RemovalFails
  <2>5. ASSUME NEW p \in Procs, End(p) \/ Kill(p) PROVE LaunchesCheck'
    BY <2>5 DEF End, Kill
  <2>6. CASE GraphicsChange \/ IoChange \/ Reboot \/ UNCHANGED vars
    BY <2>6 DEF GraphicsChange, IoChange, Reboot, vars
  <2> QED BY <2>1, <2>2, <2>3, <2>4, <2>5, <2>6 DEF Next
<1> QED BY <1>1, <1>2, TypeCorrect, PTL DEF Spec

(***************************************************************************)
(* While the graphics are good and the disk can be written, four steps of  *)
(* its own bring a launch from its first look at the stamp to its          *)
(* approval, and nothing but its death leads it off that way, whatever the *)
(* other commands remove or write: what GoodGraphicsApprove rests on       *)
(* besides fairness.                                                       *)
(***************************************************************************)
THEOREM GoodGraphicsLeadOn ==
    Spec => /\ []LaunchesCheck
            /\ [][\A p \in Procs : Launching(p) /\ gpu /\ io => Onwards(p)]_vars
<1>1. ASSUME TypeOK, Next, NEW p \in Procs, Launching(p), gpu, io PROVE Onwards(p)
  <2> USE <1>1 DEF TypeOK, Move
  <2>1. CASE Step(p)
    <3> USE <2>1 DEF Onwards, Launching, StepsLeft
    <3>1. CASE CheckStamp(p)
      BY <3>1 DEF CheckStamp
    <3>2. CASE DropStamp(p)
      BY <3>2 DEF DropStamp
    <3>3. CASE Collect(p)
      <4>1. PICK r : r.boot = boot /\ r.passed /\
                     Move(p, "collect",
                          IF Accepted(cmd[p], r) THEN AfterPass(cmd[p])
                          ELSE AfterFailure(cmd[p]))
        BY <3>3 DEF Collect
      <4>2. Move(p, "collect", "write") /\ cmd' = cmd
        BY <3>3, <4>1 DEF Accepted, AfterPass, Collect
      <4> QED BY <4>2
    <3>4. CASE WriteStamp(p)
      BY <3>4 DEF WriteStamp
    <3>5. ~(CollectFails(p) \/ Install(p) \/ WriteFails(p) \/ Revoke(p) \/ RemovalFails(p))
      BY DEF CollectFails, Install, WriteFails, Revoke, RemovalFails
    <3> QED BY <3>1, <3>2, <3>3, <3>4, <3>5 DEF Step
  <2>2. CASE ~Step(p) /\ pc'[p] = pc[p] /\ cmd'[p] = cmd[p]
    BY <2>2 DEF Onwards
  <2>3. CASE pc'[p] = "killed"
    BY <2>3 DEF Onwards
  <2>4. ASSUME NEW q \in Procs, q # p, Step(q) PROVE pc'[p] = pc[p] /\ cmd'[p] = cmd[p]
    BY <2>4 DEF Step, CheckStamp, DropStamp, Collect, CollectFails, Install, WriteStamp,
                WriteFails, Revoke, RemovalFails
  <2>5. ASSUME NEW q \in Procs, NEW c \in Commands, Start(q, c)
        PROVE  pc'[p] = pc[p] /\ cmd'[p] = cmd[p]
    BY <2>5 DEF Start, Launching
  <2>6. ASSUME NEW q \in Procs, End(q) PROVE pc'[p] = pc[p] /\ cmd'[p] = cmd[p]
    BY <2>6 DEF End, Ended, Launching
  <2>7. ASSUME NEW q \in Procs, Kill(q)
        PROVE  pc'[p] = "killed" \/ (pc'[p] = pc[p] /\ cmd'[p] = cmd[p])
    BY <2>7 DEF Kill
  <2>8. CASE GraphicsChange \/ IoChange
    BY <2>2, <2>1, <2>8 DEF GraphicsChange, IoChange
  <2>9. CASE Reboot
    BY <2>3, <2>9 DEF Reboot, Launching
  <2> QED BY <2>1, <2>2, <2>3, <2>4, <2>5, <2>6, <2>7, <2>8, <2>9 DEF Next
<1>2. TypeOK /\ [Next]_vars
        => [\A p \in Procs : Launching(p) /\ gpu /\ io => Onwards(p)]_vars
  BY <1>1
<1> QED BY <1>2, TypeCorrect, CheckersLaunch, PTL DEF Spec

-----------------------------------------------------------------------------

(* Every step of the commands and of the machine is a step of the abstract *)
(* gate, or leaves the boot, the checks, the approval and the launches     *)
(* that were let through as they are.                                      *)
LEMMA StepRefines ==
    ASSUME IInv, TypeOK', [Next]_vars
    PROVE  [Gate!Next]_(Gate!gateVars)
<1> USE SentinelsDiffer
    DEF IInv, TypeOK, Move, unchangedEnv, Gate!gateVars, Approved
<1>1. ASSUME NEW p \in Procs, NEW c \in Commands, Start(p, c)
      PROVE  UNCHANGED Gate!gateVars
  BY <1>1 DEF Start
<1>2. ASSUME NEW p \in Procs,
             CollectFails(p) \/ Install(p) \/ RemovalFails(p) \/ Kill(p)
      PROVE  UNCHANGED Gate!gateVars
  BY <1>2 DEF CollectFails, Install, RemovalFails, Kill, Running
<1>3. ASSUME NEW p \in Procs, CheckStamp(p)
      PROVE  Gate!LetThrough(p) \/ UNCHANGED Gate!gateVars
  BY <1>3 DEF CheckStamp, StampMatches, Gate!LetThrough
<1>4. ASSUME NEW p \in Procs, DropStamp(p) \/ Revoke(p)
      PROVE  Gate!Withdraw
  BY <1>4 DEF DropStamp, Revoke, Removed, Gate!Withdraw
<1>5. ASSUME NEW p \in Procs, Collect(p)
      PROVE  Gate!CheckPasses \/ UNCHANGED Gate!gateVars
  <2>1. pc[p] = "collect" /\ pc'[p] # "approved"
    BY <1>5 DEF Collect, AfterPass, AfterFailure
  <2>2. Approved' = Approved
    BY <1>5, <2>1 DEF Collect
  <2> QED BY <1>5, <2>2 DEF Collect, Gate!CheckPasses
<1>6. ASSUME NEW p \in Procs, WriteStamp(p)
      PROVE  Gate!LetThrough(p) \/ Gate!Grant \/ Gate!Withdraw
  <2> USE <1>6 DEF WriteStamp, Put
  <2>1. report[p].boot = boot => boot \in passedIn
    BY DEF WritersPassed, ReportsEarned
  <2>2. CASE cmd[p] = "handle-url"
    <3>1. stamp' = boot /\ boot \in passedIn
      BY <2>1, <2>2 DEF LaunchReportsThisBoot
    <3>2. Approved' = Approved \cup {p}
      BY <2>2
    <3> QED BY <3>1, <3>2 DEF Gate!LetThrough
  <2>3. CASE cmd[p] # "handle-url"
    <3>1. Approved' = Approved
      BY <2>3
    <3> QED BY <2>1, <3>1 DEF Gate!Grant, Gate!Withdraw
  <2> QED BY <2>2, <2>3
<1>7. ASSUME NEW p \in Procs, WriteFails(p)
       PROVE  Gate!Grant \/ Gate!Withdraw \/ UNCHANGED Gate!gateVars
  <2> USE <1>7 DEF WriteFails
  <2>1. Approved' = Approved /\ UNCHANGED <<boot, passedIn>>
    OBVIOUS
  <2>2. CASE Put(p)
    <3>1. report[p].boot = boot => boot \in passedIn
      BY DEF WritersPassed, ReportsEarned
    <3> QED BY <2>1, <2>2, <3>1 DEF Put, Gate!Grant, Gate!Withdraw
  <2>3. CASE UNCHANGED stamp
    BY <2>1, <2>3
  <2> QED BY <2>2, <2>3
<1>8. ASSUME NEW p \in Procs, End(p)
      PROVE  Gate!Leave(p)
  BY <1>8 DEF End, Ended, Gate!Leave
<1>9. ASSUME Reboot PROVE Gate!Reboot
  <2>1. PICK b \in Boots \ usedBoots : boot' = b
    BY <1>9 DEF Reboot
  <2>2. b \notin passedIn /\ stamp # b
    BY <2>1 DEF StampEarned
  <2>3. Approved' = {}
    BY <1>9 DEF Reboot
  <2> QED BY <1>9, <2>1, <2>2, <2>3 DEF Reboot, Gate!Reboot
<1>10. ASSUME GraphicsChange \/ IoChange \/ UNCHANGED vars
      PROVE  UNCHANGED Gate!gateVars
  BY <1>10 DEF GraphicsChange, IoChange, vars
<1> QED
  BY <1>1, <1>2, <1>3, <1>4, <1>5, <1>6, <1>7, <1>8, <1>9, <1>10
  DEF Next, Step, Gate!Next

(* The stamp file and the commands around it implement one approval that a *)
(* passed check of the same boot grants and a reboot takes away.           *)
THEOREM Refinement == Spec => ImplementsGate
<1>1. Init => Gate!Init
  BY SentinelsDiffer DEF Init, Gate!Init, Approved
<1>2. IInv /\ TypeOK' /\ [Next]_vars => [Gate!Next]_(Gate!gateVars)
  BY StepRefines
<1> QED
  BY <1>1, <1>2, Invariance, TypeCorrect, PTL DEF Spec, ImplementsGate, Gate!Spec

=============================================================================
