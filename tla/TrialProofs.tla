----------------------------- MODULE TrialProofs -----------------------------
(***************************************************************************)
(* Proofs about Trial, for any sets of processes, trials, notes and run    *)
(* directories, and any capacity.                                          *)
(*                                                                         *)
(* Three layers.  Structure holds whoever overlaps: what a process has in  *)
(* hand where, and whose run directory is whose.  Exports says which       *)
(* process makes which candidate.  Alone holds until two writers overlap:  *)
(* the one writer there is knows what the active file is.                  *)
(***************************************************************************)
EXTENDS Trial, TLAPS

-----------------------------------------------------------------------------

Writing   == {"open", "write", "rename", "chmod"}
Recording == {"mkdir", "manifest", "report", "unlink"}

(* Which commands can be where. *)
CommandsInPlace ==
    \A p \in Procs :
        /\ pc[p] = "idle" <=> cmd[p] = "none"
        /\ pc[p] = "exists" => cmd[p] = "begin"
        /\ pc[p] = "collect" => cmd[p] \in {"begin", "reproduce"}
        /\ pc[p] = "read" => cmd[p] \in {"observe", "finish"}
        /\ pc[p] \in Writing => cmd[p] \in {"begin", "observe"}
        /\ pc[p] \in Recording => cmd[p] \in {"finish", "reproduce"}
        /\ pc[p] = "unlink" => cmd[p] = "finish"
        /\ pc[p] \in {"load", "candidate", "copyManifest", "copyReport"} => cmd[p] = "export"

(* What a process that writes or records has in hand. *)
HandsFull ==
    \A p \in Procs :
        /\ pc[p] \in Writing \cup Recording =>
            /\ hold[p] \in Payload
            /\ hold[p].trial \in IF cmd[p] = "reproduce" THEN {Repro} ELSE begun
        /\ (pc[p] \in Writing /\ cmd[p] = "observe") =>
            note[p] \in Notes /\ note[p] \in hold[p].notes
        /\ pc[p] \in {"manifest", "report", "unlink", "candidate", "copyManifest", "copyReport"} =>
            dir[p] \in RunDirs

(* The trials in the files were begun. *)
FilesAreTrials ==
    /\ active \in Payload => active.trial \in begun
    /\ temp \in Payload => temp.trial \in begun
    /\ \A d \in RunDirs : run[d] # NoFile => run[d].trial \in begun \cup {Repro}

(* The directory of p holds what p has in hand, as far as it is. *)
Made(p, s) ==
    /\ run[dir[p]] \in Run
    /\ run[dir[p]].trial = hold[p].trial
    /\ run[dir[p]].notes = hold[p].notes
    /\ run[dir[p]].stage = s

(* A run directory is what its maker has made, and two processes do not     *)
(* make the same.                                                           *)
RunsInProgress ==
    /\ \A p \in Procs :
        /\ pc[p] = "manifest" => Made(p, "empty")
        /\ pc[p] = "report" => Made(p, "manifest")
        /\ pc[p] = "unlink" => Made(p, "whole")
    /\ \A p, q \in Procs :
        (p # q /\ pc[p] \in {"manifest", "report"} /\ pc[q] \in {"manifest", "report"})
        => dir[p] # dir[q]

ExportsAreWhole ==
    \A p \in Procs : pc[p] \in {"candidate", "copyManifest", "copyReport"} => Whole(dir[p])

OnlyWholeRuns == \A d \in RunDirs : candidate[d] # "none" => Whole(d)

Structure ==
    /\ TypeOK
    /\ CommandsInPlace
    /\ HandsFull
    /\ FilesAreTrials
    /\ RunsInProgress
    /\ ExportsAreWhole
    /\ OnlyWholeRuns

-----------------------------------------------------------------------------

LEMMA InitialStructure == Init => Structure
<1> SUFFICES ASSUME Init PROVE Structure
  OBVIOUS
<1> USE SentinelsDiffer DEF Init
<1>1. TypeOK
  BY DEF TypeOK, States
<1>2. CommandsInPlace /\ HandsFull
  BY DEF CommandsInPlace, HandsFull, Writing, Recording
<1>3. FilesAreTrials
  BY DEF FilesAreTrials
<1>4. RunsInProgress /\ ExportsAreWhole /\ OnlyWholeRuns
  BY DEF RunsInProgress, ExportsAreWhole, OnlyWholeRuns
<1> QED BY <1>1, <1>2, <1>3, <1>4 DEF Structure

(* A step that changes no run, and brings no process to where a run is in  *)
(* the making or exported, leaves what is said of the runs true.           *)
LEMMA RunsFramed ==
    ASSUME RunsInProgress, ExportsAreWhole, OnlyWholeRuns,
           UNCHANGED <<run, candidate>>,
           \A q \in Procs :
               \/ pc'[q] = pc[q] /\ hold'[q] = hold[q] /\ dir'[q] = dir[q]
               \/ pc'[q] \notin {"manifest", "report", "unlink", "candidate", "copyManifest",
                                "copyReport"}
    PROVE  RunsInProgress' /\ ExportsAreWhole' /\ OnlyWholeRuns'
<1>1. RunsInProgress'
  BY DEF RunsInProgress, Made
<1>2. ExportsAreWhole' /\ OnlyWholeRuns'
  BY DEF ExportsAreWhole, OnlyWholeRuns, Whole
<1> QED BY <1>1, <1>2

(* Steps that look at the active trial, or start and stop a command: they  *)
(* leave the files alone.                                                  *)
LEMMA LookSteps ==
    ASSUME Structure, NEW p \in Procs,
           \/ \E c \in Commands : Start(p, c)
           \/ Exists(p) \/ Collect(p) \/ Reproduce(p) \/ Read(p) \/ Kill(p)
    PROVE  Structure'
<1> USE SentinelsDiffer DEF Structure, Go, Stop, Keep, Quiet, files, history
<1>1. RunsInProgress' /\ ExportsAreWhole' /\ OnlyWholeRuns'
  <2>1. UNCHANGED <<run, candidate>>
    BY DEF Start, Exists, Collect, Reproduce, Read, Kill
  <2>2. \A q \in Procs :
          \/ pc'[q] = pc[q] /\ hold'[q] = hold[q] /\ dir'[q] = dir[q]
          \/ pc'[q] \notin {"manifest", "report", "unlink", "candidate", "copyManifest",
                           "copyReport"}
    BY DEF TypeOK, Start, FirstState, Commands, Writers, Exists, Collect, Reproduce, Read, Kill
  <2> QED BY <2>1, <2>2, RunsFramed
<1>2. ASSUME NEW c \in Commands, Start(p, c) PROVE Structure'
  <2>1. TypeOK'
    BY <1>2 DEF TypeOK, Start, FirstState, Commands, Writers, States
  <2>2. CommandsInPlace' /\ HandsFull' /\ FilesAreTrials'
    BY <1>2 DEF TypeOK, CommandsInPlace, HandsFull, FilesAreTrials, Start, FirstState,
         Commands, Writers, Writing, Recording
  <2> QED BY <1>1, <2>1, <2>2
<1>3. CASE Read(p)
  <2>1. TypeOK'
    BY <1>3 DEF TypeOK, Read, Readable, States, Payload
  <2>2. CommandsInPlace' /\ FilesAreTrials'
    BY <1>3 DEF TypeOK, CommandsInPlace, FilesAreTrials, Read, Writing, Recording
  <2>3. HandsFull'
    BY <1>3 DEF TypeOK, HandsFull, FilesAreTrials, Read, Readable, Payload, Writing, Recording
  <2> QED BY <1>1, <2>1, <2>2, <2>3
<1> USE <1>1 DEF TypeOK, States, CommandsInPlace, HandsFull, FilesAreTrials, Writing, Recording
<1>4. CASE Exists(p)
  BY <1>4 DEF Exists
<1>5. CASE Collect(p)
  BY <1>5 DEF Collect, Payload
<1>6. CASE Reproduce(p)
  BY <1>6 DEF Reproduce, Payload
<1>7. CASE Kill(p)
  <2>1. temp' \in {temp, Torn} /\ active' \in {active, Torn} /\ UNCHANGED <<run, begun>>
    BY <1>7 DEF Kill
  <2>2. FilesAreTrials'
    BY <2>1
  <2>3. halfway' \subseteq Trials
    BY <1>7 DEF Kill, Payload
  <2>4. cut' \subseteq RunDirs
    BY <1>7 DEF Kill, Copying
  <2>5. TypeOK'
    BY <1>7, <2>1, <2>3, <2>4 DEF Kill
  <2>6. CommandsInPlace' /\ HandsFull'
    BY <1>7 DEF Kill
  <2> QED BY <1>1, <2>2, <2>5, <2>6
<1> QED BY <1>2, <1>3, <1>4, <1>5, <1>6, <1>7

(* _write_private_json: the active file and its temporary name change. *)
LEMMA WriteSteps ==
    ASSUME Structure, NEW p \in Procs,
           Open(p) \/ Write(p) \/ WriteFails(p) \/ Rename(p) \/ Chmod(p)
    PROVE  Structure'
<1> USE SentinelsDiffer DEF Structure, Go, Stop, Keep, Quiet, history
<1>1. RunsInProgress' /\ ExportsAreWhole' /\ OnlyWholeRuns'
  <2>1. UNCHANGED <<run, candidate>>
    BY DEF Open, Write, WriteFails, Rename, Chmod
  <2>2. \A q \in Procs :
          \/ pc'[q] = pc[q] /\ hold'[q] = hold[q] /\ dir'[q] = dir[q]
          \/ pc'[q] \notin {"manifest", "report", "unlink", "candidate", "copyManifest",
                           "copyReport"}
    BY DEF TypeOK, Open, Write, WriteFails, Rename, Chmod
  <2> QED BY <2>1, <2>2, RunsFramed
<1>2. \A m \in {TempUnlinked, [temp |-> "active", active |-> "lost"]} :
        Relinked(fd, m) \in [Procs -> {"none", "temp", "active", "lost"}]
  BY DEF TypeOK, Relinked, TempUnlinked
<1> USE <1>1, <1>2
    DEF TypeOK, States, CommandsInPlace, HandsFull, FilesAreTrials, Writing, Recording
<1>3. CASE Open(p)
  BY <1>3 DEF Open
<1>4. CASE Write(p)
  BY <1>4 DEF Write, Overwritten
<1>5. CASE WriteFails(p)
  BY <1>5 DEF WriteFails
<1>6. CASE Rename(p)
  <2>1. CASE temp # NoFile
    BY <1>6, <2>1 DEF Rename
  <2>2. CASE temp = NoFile
    BY <1>6, <2>2 DEF Rename
  <2> QED BY <2>1, <2>2
<1>7. CASE Chmod(p)
  <2>1. recorded' \subseteq Trials \X Notes
    BY <1>7 DEF Chmod
  <2> QED BY <1>7, <2>1 DEF Chmod
<1> QED BY <1>3, <1>4, <1>5, <1>6, <1>7

(* TrialRecorder.finish and the removal of the active trial. *)
LEMMA RecordSteps ==
    ASSUME Structure, NEW p \in Procs,
           MakeRun(p) \/ WriteManifest(p) \/ WriteReport(p) \/ Unlink(p)
    PROVE  Structure'
<1> USE SentinelsDiffer DEF Structure, Go, Stop, Keep, Quiet, history
<1>1. CASE MakeRun(p)
  <2>1. PICK d \in RunDirs :
          \/ /\ run[d] = NoFile
             /\ Go(p, "mkdir", "manifest")
             /\ run' = [run EXCEPT ![d] = NewRun(p)]
             /\ dir' = [dir EXCEPT ![p] = d]
             /\ UNCHANGED <<hold, note>>
          \/ pc[p] = "mkdir" /\ Stop(p) /\ UNCHANGED run
    BY <1>1 DEF MakeRun
  <2>2. NewRun(p) \in Run /\ NewRun(p).trial \in begun \cup {Repro}
    <3>1. pc[p] = "mkdir"
      BY <1>1 DEF MakeRun
    <3>2. hold[p] \in Payload /\ hold[p].trial \in begun \cup {Repro}
      BY <3>1 DEF HandsFull, Recording
    <3> QED BY <3>2 DEF NewRun, Payload, Run
  <2>3. TypeOK'
    BY <1>1, <2>1, <2>2 DEF TypeOK, MakeRun, States
  <2>4. CommandsInPlace' /\ HandsFull'
    BY <1>1, <2>1 DEF TypeOK, CommandsInPlace, HandsFull, MakeRun, Writing, Recording
  <2>5. FilesAreTrials'
    BY <1>1, <2>1, <2>2 DEF TypeOK, FilesAreTrials, MakeRun
  <2>6. RunsInProgress'
    <3>1. CASE pc'[p] = "idle"
      BY <2>1, <3>1 DEF TypeOK, RunsInProgress, Made
    <3>2. CASE pc'[p] # "idle"
      <4>1. /\ run[d] = NoFile /\ run' = [run EXCEPT ![d] = NewRun(p)]
            /\ pc[p] = "mkdir" /\ pc' = [pc EXCEPT ![p] = "manifest"]
            /\ dir' = [dir EXCEPT ![p] = d] /\ UNCHANGED hold
        BY <2>1, <3>2 DEF TypeOK
      <4>2. ASSUME NEW q \in Procs, q # p, pc[q] \in {"manifest", "report", "unlink"}
            PROVE  dir[q] \in RunDirs /\ dir[q] # d
        BY <4>1, <4>2 DEF HandsFull, RunsInProgress, Made
      <4>3. run'[d] = NewRun(p) /\ Made(p, "empty")'
        BY <4>1, <2>2 DEF TypeOK, Made, NewRun
      <4>4. \A q \in Procs : q # p =>
              /\ pc'[q] = pc[q] /\ dir'[q] = dir[q]
              /\ pc[q] \in {"manifest", "report", "unlink"} => run'[dir[q]] = run[dir[q]]
        BY <4>1, <4>2 DEF TypeOK
      <4> QED BY <4>1, <4>2, <4>3, <4>4 DEF TypeOK, RunsInProgress, Made
    <3> QED BY <3>1, <3>2
  <2>7. ExportsAreWhole' /\ OnlyWholeRuns'
    BY <1>1, <2>1 DEF TypeOK, HandsFull, ExportsAreWhole, OnlyWholeRuns, Whole, MakeRun
  <2> QED BY <2>3, <2>4, <2>5, <2>6, <2>7
<1>2. ASSUME NEW to \in {"manifest", "whole"}, dir[p] \in RunDirs, ~Whole(dir[p]),
             run[dir[p]] \in Run,
             run' = [run EXCEPT ![dir[p]].stage = to],
             UNCHANGED candidate
      PROVE  /\ run' \in [RunDirs -> Run \cup {NoFile}]
             /\ run'[dir[p]] = [run[dir[p]] EXCEPT !.stage = to]
             /\ \A d \in RunDirs : d # dir[p] => run'[d] = run[d]
             /\ \A d \in RunDirs : (run'[d] # NoFile <=> run[d] # NoFile)
                                  /\ (run[d] # NoFile => run'[d].trial = run[d].trial)
             /\ \A d \in RunDirs : Whole(d) => Whole(d)'
             /\ OnlyWholeRuns'
  BY <1>2 DEF TypeOK, Run, Whole, OnlyWholeRuns
<1>3. CASE WriteManifest(p)
  <2>1. dir[p] \in RunDirs /\ run[dir[p]] \in Run /\ ~Whole(dir[p])
    BY <1>3 DEF WriteManifest, HandsFull, RunsInProgress, Made, Whole
  <2>2. /\ run' \in [RunDirs -> Run \cup {NoFile}]
        /\ run'[dir[p]] = [run[dir[p]] EXCEPT !.stage = "manifest"]
        /\ \A d \in RunDirs : d # dir[p] => run'[d] = run[d]
        /\ \A d \in RunDirs : (run'[d] # NoFile <=> run[d] # NoFile)
                             /\ (run[d] # NoFile => run'[d].trial = run[d].trial)
        /\ \A d \in RunDirs : Whole(d) => Whole(d)'
        /\ OnlyWholeRuns'
    BY <1>2, <1>3, <2>1 DEF WriteManifest
  <2>3. TypeOK'
    BY <1>3, <2>2 DEF TypeOK, WriteManifest, States
  <2>4. CommandsInPlace' /\ HandsFull'
    BY <1>3 DEF TypeOK, CommandsInPlace, HandsFull, WriteManifest, Writing, Recording
  <2>5. FilesAreTrials' /\ ExportsAreWhole'
    BY <1>3, <2>2 DEF TypeOK, HandsFull, FilesAreTrials, ExportsAreWhole, WriteManifest
  <2>6. RunsInProgress'
    BY <1>3, <2>1, <2>2 DEF TypeOK, HandsFull, RunsInProgress, Made, WriteManifest, Run,
         Whole
  <2> QED BY <2>2, <2>3, <2>4, <2>5, <2>6
<1>4. CASE WriteReport(p)
  <2>1. dir[p] \in RunDirs /\ run[dir[p]] \in Run /\ ~Whole(dir[p])
    BY <1>4 DEF WriteReport, HandsFull, RunsInProgress, Made, Whole
  <2>2. /\ run' \in [RunDirs -> Run \cup {NoFile}]
        /\ run'[dir[p]] = [run[dir[p]] EXCEPT !.stage = "whole"]
        /\ \A d \in RunDirs : d # dir[p] => run'[d] = run[d]
        /\ \A d \in RunDirs : (run'[d] # NoFile <=> run[d] # NoFile)
                             /\ (run[d] # NoFile => run'[d].trial = run[d].trial)
        /\ \A d \in RunDirs : Whole(d) => Whole(d)'
        /\ OnlyWholeRuns'
    BY <1>2, <1>4, <2>1 DEF WriteReport
  <2>3. TypeOK'
    BY <1>4, <2>2 DEF TypeOK, WriteReport, States
  <2>4. CommandsInPlace' /\ HandsFull'
    BY <1>4 DEF TypeOK, CommandsInPlace, HandsFull, WriteReport, Writing, Recording
  <2>5. FilesAreTrials' /\ ExportsAreWhole'
    BY <1>4, <2>2 DEF TypeOK, HandsFull, FilesAreTrials, ExportsAreWhole, WriteReport
  <2>6. RunsInProgress'
    BY <1>4, <2>1, <2>2 DEF TypeOK, HandsFull, RunsInProgress, Made, WriteReport, Run,
         Whole
  <2> QED BY <2>2, <2>3, <2>4, <2>5, <2>6
<1>5. CASE Unlink(p)
  BY <1>5 DEF TypeOK, States, CommandsInPlace, HandsFull, FilesAreTrials, RunsInProgress,
       Made, ExportsAreWhole, OnlyWholeRuns, Whole, Writing, Recording, Unlink, Relinked
<1> QED BY <1>1, <1>3, <1>4, <1>5

(* _export_trial. *)
LEMMA ExportSteps ==
    ASSUME Structure, NEW p \in Procs,
           Load(p) \/ MakeCandidate(p) \/ CopyManifest(p) \/ CopyReport(p)
    PROVE  Structure'
<1> USE SentinelsDiffer DEF Structure, Go, Stop, Keep, Quiet, history
<1>1. RunsInProgress'
  <2>1. UNCHANGED run
    BY DEF Load, MakeCandidate, CopyManifest, CopyReport, files
  <2>2. \A q \in Procs :
          \/ pc'[q] = pc[q] /\ hold'[q] = hold[q] /\ dir'[q] = dir[q]
          \/ pc'[q] \notin {"manifest", "report", "unlink"}
    BY DEF TypeOK, Load, MakeCandidate, CopyManifest, CopyReport
  <2> QED BY <2>1, <2>2 DEF RunsInProgress, Made
<1> USE <1>1 DEF TypeOK, States, CommandsInPlace, HandsFull, FilesAreTrials, ExportsAreWhole,
        OnlyWholeRuns, Whole, Writing, Recording
<1>2. CASE Load(p)
  <2>1. PICK d \in RunDirs :
          \/ Whole(d) /\ Go(p, "load", "candidate") /\ dir' = [dir EXCEPT ![p] = d]
             /\ UNCHANGED <<hold, note>>
          \/ pc[p] = "load" /\ Stop(p)
    BY <1>2 DEF Load, Exportable
  <2>2. UNCHANGED <<active, temp, run, candidate, fd, history>>
    BY <1>2 DEF Load, files
  <2> QED BY <2>1, <2>2
<1>3. CASE MakeCandidate(p)
  <2>1. candidate' \in [RunDirs -> {"none", "begun", "manifest", "whole"}]
    BY <1>3 DEF MakeCandidate
  <2>2. OnlyWholeRuns'
    BY <1>3 DEF MakeCandidate
  <2> QED BY <1>3, <2>1, <2>2 DEF MakeCandidate
<1>4. CASE CopyManifest(p)
  BY <1>4 DEF CopyManifest
<1>5. CASE CopyReport(p)
  BY <1>5 DEF CopyReport
<1> QED BY <1>2, <1>3, <1>4, <1>5

-----------------------------------------------------------------------------

LEMMA StructureHolds == Structure /\ [Next]_vars => Structure'
<1> SUFFICES ASSUME Structure, [Next]_vars PROVE Structure'
  OBVIOUS
<1>1. CASE UNCHANGED vars
  BY <1>1 DEF vars, files, history, Structure, TypeOK, CommandsInPlace, HandsFull,
       FilesAreTrials, RunsInProgress, Made, ExportsAreWhole, OnlyWholeRuns, Whole
<1>2. CASE Next
  BY <1>2, LookSteps, WriteSteps, RecordSteps, ExportSteps DEF Next
<1> QED BY <1>1, <1>2

(***************************************************************************)
(* What holds of processes, files and run directories whoever overlaps.    *)
(***************************************************************************)
THEOREM StructureIsInvariant == Spec => []Structure
BY InitialStructure, StructureHolds, PTL DEF Spec

(* The variables of Trial keep their types. *)
THEOREM TypeCorrect == Spec => []TypeOK
<1>1. Structure => TypeOK
  BY DEF Structure
<1> QED BY <1>1, StructureIsInvariant, PTL

(* No step changes a complete run. *)
LEMMA FinalStep ==
    ASSUME Structure, [Next]_vars, NEW d \in RunDirs, Whole(d)
    PROVE  run'[d] = run[d]
<1> USE DEF Structure
<1>1. ASSUME NEW p \in Procs, MakeRun(p) PROVE run'[d] = run[d]
  BY <1>1 DEF MakeRun, Go, Whole, TypeOK
<1>2. ASSUME NEW p \in Procs, WriteManifest(p) \/ WriteReport(p) PROVE run'[d] = run[d]
  <2>1. dir[p] # d
    BY <1>2 DEF WriteManifest, WriteReport, Go, RunsInProgress, Made, Whole
  <2> QED BY <1>2, <2>1 DEF WriteManifest, WriteReport, TypeOK
<1>3. ASSUME NEW p \in Procs,
             \/ \E c \in Commands : Start(p, c)
             \/ Exists(p) \/ Collect(p) \/ Reproduce(p) \/ Read(p) \/ Open(p) \/ Write(p)
             \/ WriteFails(p) \/ Rename(p) \/ Chmod(p) \/ Unlink(p) \/ Load(p)
             \/ MakeCandidate(p) \/ CopyManifest(p) \/ CopyReport(p) \/ Kill(p)
      PROVE  run'[d] = run[d]
  BY <1>3 DEF Start, Exists, Collect, Reproduce, Read, Open, Write, WriteFails, Rename, Chmod,
       Unlink, Load, MakeCandidate, CopyManifest, CopyReport, Kill, files
<1>4. CASE UNCHANGED vars
  BY <1>4 DEF vars, files
<1> QED BY <1>1, <1>2, <1>3, <1>4 DEF Next

(***************************************************************************)
(* A complete run is never written again, by however many commands.        *)
(***************************************************************************)
THEOREM CompleteRunsStay == Spec => RunsAreFinal
<1>1. Structure /\ [Next]_vars => [\A d \in RunDirs : Whole(d) => run'[d] = run[d]]_vars
  BY FinalStep
<1> QED BY <1>1, StructureIsInvariant, PTL DEF Spec, RunsAreFinal

-----------------------------------------------------------------------------
(* Exports *)

(* A candidate is as far as the one export at work on it, which is the      *)
(* first of that run.                                                       *)
InHand(p) ==
    /\ pc[p] = "copyManifest" => candidate[dir[p]] = "begun"
    /\ pc[p] = "copyReport" => candidate[dir[p]] = "manifest"
    /\ Copying(p) => dir[p] \notin cut \cup exported

OneExporter ==
    \A p, q \in Procs : (p # q /\ Copying(p) /\ Copying(q)) => dir[p] # dir[q]

(* What became of the export of d. *)
Outcome(d) ==
    /\ candidate[d] \in {"begun", "manifest"} => InExport(d) \/ d \in cut
    /\ d \in cut => candidate[d] \in {"begun", "manifest"}
    /\ d \in exported => candidate[d] = "whole"

Exports ==
    /\ \A p \in Procs : InHand(p)
    /\ OneExporter
    /\ \A d \in RunDirs : Outcome(d)

(* Steps that leave the candidates and those who make them alone. *)
LEMMA ExportsFramed ==
    ASSUME Exports, UNCHANGED <<candidate, exported, cut>>,
           \A q \in Procs :
               \/ pc'[q] = pc[q] /\ dir'[q] = dir[q]
               \/ ~Copying(q) /\ ~Copying(q)'
    PROVE  Exports'
<1>1. \A q \in Procs : (Copying(q) <=> Copying(q)') /\ (Copying(q) => dir'[q] = dir[q])
  BY DEF Copying
<1>2. \A q \in Procs : InHand(q)'
  BY <1>1 DEF Exports, InHand, Copying
<1>3. OneExporter'
  BY <1>1 DEF Exports, OneExporter
<1>4. \A d \in RunDirs : Outcome(d)'
  BY <1>1 DEF Exports, Outcome, InExport
<1> QED BY <1>2, <1>3, <1>4 DEF Exports

(* The steps of an export, and its end by a kill. *)
LEMMA CopySteps ==
    ASSUME Structure, Exports, NEW p \in Procs,
           \/ MakeCandidate(p) /\ candidate[dir[p]] = "none"
           \/ CopyManifest(p) \/ CopyReport(p)
           \/ Kill(p) /\ Copying(p)
    PROVE  Exports'
<1> USE DEF Structure, TypeOK, Exports, Copying
<1>. PICK d \in RunDirs : d = dir[p]
  BY DEF HandsFull, MakeCandidate, CopyManifest, CopyReport, Go
<1>1. InHand(p) /\ Outcome(d)
  OBVIOUS
<1>2. \A q \in Procs : q # p => pc'[q] = pc[q] /\ dir'[q] = dir[q]
  BY DEF MakeCandidate, CopyManifest, CopyReport, Kill, Go, Stop, Keep
<1>3. \A e \in RunDirs : e # d =>
        candidate'[e] = candidate[e] /\ (e \in cut' <=> e \in cut)
        /\ (e \in exported' <=> e \in exported)
  BY DEF MakeCandidate, CopyManifest, CopyReport, Kill, Quiet, history
<1>4. ASSUME NEW q \in Procs, q # p, Copying(q) PROVE dir[q] # d /\ dir[q] \in RunDirs
  <2>1. dir[q] \in RunDirs
    BY <1>4 DEF HandsFull
  <2>2. CASE Copying(p)
    BY <1>4, <2>1, <2>2 DEF OneExporter
  <2>3. CASE ~Copying(p)
    BY <1>4, <2>1, <2>3 DEF InHand, CopyManifest, CopyReport, Go
  <2> QED BY <2>2, <2>3
<1>5. \A q \in Procs : q # p => InHand(q)'
  BY <1>2, <1>3, <1>4 DEF InHand
<1>6. OneExporter'
  <2>1. Copying(p)' => dir'[p] = d
    BY DEF MakeCandidate, CopyManifest, CopyReport, Kill, Go, Stop, Keep
  <2> QED BY <1>2, <1>4, <2>1 DEF OneExporter
<1>7. ASSUME NEW e \in RunDirs, e # d PROVE Outcome(e)'
  <2>1. InExport(e) => InExport(e)'
    BY <1>2, <1>7 DEF InExport
  <2> QED BY <1>3, <1>7, <2>1 DEF Outcome
<1>8. InHand(p)' /\ Outcome(d)'
  <2>1. CASE MakeCandidate(p) /\ candidate[d] = "none"
    <3>1. /\ pc'[p] = "copyManifest" /\ dir' = dir /\ candidate'[d] = "begun"
          /\ UNCHANGED <<cut, exported>>
      BY <1>1, <2>1 DEF MakeCandidate, Go, Keep, Quiet, history
    <3> QED BY <1>1, <2>1, <3>1 DEF InHand, Outcome, InExport
  <2>2. CASE CopyManifest(p)
    <3>1. /\ pc[p] = "copyManifest" /\ pc'[p] = "copyReport" /\ dir' = dir
          /\ candidate'[d] = "manifest" /\ UNCHANGED <<cut, exported>>
      BY <1>1, <2>2 DEF CopyManifest, Go, Keep, Quiet, history
    <3> QED BY <1>1, <3>1 DEF InHand, Outcome, InExport
  <2>3. CASE CopyReport(p)
    <3>1. /\ pc[p] = "copyReport" /\ pc'[p] = "idle" /\ candidate'[d] = "whole"
          /\ UNCHANGED cut
      BY <1>1, <2>3 DEF CopyReport, Stop
    <3> QED BY <1>1, <3>1 DEF InHand, Outcome
  <2>4. CASE Kill(p) /\ Copying(p)
    <3>1. /\ pc'[p] = "idle" /\ UNCHANGED <<candidate, exported>> /\ cut' = cut \cup {d}
      BY <2>4 DEF Kill, Stop
    <3> QED BY <1>1, <2>4, <3>1 DEF InHand, Outcome
  <2> QED BY <2>1, <2>2, <2>3, <2>4
<1> QED BY <1>5, <1>6, <1>7, <1>8

LEMMA ExportsHold == Structure /\ Exports /\ [Next]_vars => Exports'
<1> SUFFICES ASSUME Structure, Exports, [Next]_vars PROVE Exports'
  OBVIOUS
<1>1. CASE UNCHANGED vars
  BY <1>1, ExportsFramed DEF vars, files, history
<1>2. ASSUME NEW p \in Procs,
             \/ \E c \in Commands : Start(p, c)
             \/ Exists(p) \/ Collect(p) \/ Reproduce(p) \/ Read(p)
             \/ Open(p) \/ Write(p) \/ WriteFails(p) \/ Rename(p) \/ Chmod(p)
             \/ MakeRun(p) \/ WriteManifest(p) \/ WriteReport(p) \/ Unlink(p) \/ Load(p)
             \/ MakeCandidate(p) /\ candidate[dir[p]] # "none"
             \/ Kill(p) /\ ~Copying(p)
      PROVE  Exports'
  <2>1. UNCHANGED <<candidate, exported, cut>>
    BY <1>2 DEF Start, Exists, Collect, Reproduce, Read, Open, Write, WriteFails, Rename, Chmod,
         MakeRun, WriteManifest, WriteReport, Unlink, Load, MakeCandidate, Kill, files, Quiet,
         history
  <2>2. \A q \in Procs :
          \/ pc'[q] = pc[q] /\ dir'[q] = dir[q]
          \/ ~Copying(q) /\ ~Copying(q)'
    BY <1>2 DEF Structure, TypeOK, Copying, Start, FirstState, Commands, Writers, Exists, Collect,
         Reproduce, Read, Open, Write, WriteFails, Rename, Chmod, MakeRun, WriteManifest,
         WriteReport, Unlink, Load, MakeCandidate, Kill, Go, Stop, Keep
  <2> QED BY <2>1, <2>2, ExportsFramed
<1>3. ASSUME NEW p \in Procs,
             MakeCandidate(p) \/ CopyManifest(p) \/ CopyReport(p) \/ Kill(p)
      PROVE  Exports'
  BY <1>2, <1>3, CopySteps
<1> QED BY <1>1, <1>2, <1>3 DEF Next

(***************************************************************************)
(* However exports of a run race each other, a finish or a kill, only      *)
(* complete runs are exported, a candidate that lacks a file is in the     *)
(* making or had its export cut short for good, and one that was exported  *)
(* keeps both of its files.                                                *)
(***************************************************************************)
THEOREM ExportsShowWholeRuns == Spec => []CandidatesAreWhole
<1>1. Init => Exports
  BY SentinelsDiffer DEF Init, Exports, InHand, OneExporter, Outcome, Copying
<1>2. Structure /\ Exports => CandidatesAreWhole
  BY DEF Structure, OnlyWholeRuns, Exports, Outcome, CandidatesAreWhole
<1> QED BY <1>1, <1>2, StructureIsInvariant, ExportsHold, PTL DEF Spec

-----------------------------------------------------------------------------
(* Until two writers overlap *)

OneWriter ==
    \A p, q \in Procs :
        (p # q /\ cmd[p] \in Writers /\ cmd[q] \in Writers) => overlap

(* What the one writer there is knows of the active file: that there is     *)
(* none, or what it read, or what it wrote.                                 *)
Knows(p) ==
    /\ (cmd[p] = "begin" /\ pc[p] \in {"collect", "open", "write", "rename"}) =>
        active = NoFile
    /\ (cmd[p] = "observe" /\ pc[p] \in {"open", "write", "rename"}) =>
        /\ Readable
        /\ active.trial = hold[p].trial
        /\ active.notes \subseteq hold[p].notes
    /\ pc[p] = "write" => fd[p] = "temp" /\ temp = Empty
    /\ pc[p] = "rename" => temp = hold[p]
    /\ pc[p] = "chmod" => active = hold[p]
    /\ (cmd[p] = "finish" /\ pc[p] \in Recording) => Readable /\ active = hold[p]

WritersKnow == ~overlap => \A p \in Procs : Knows(p)

(* A trial that has a complete run is not recorded again, unless its finish *)
(* was killed: nobody begins it, and it is the active one only as long as   *)
(* its finish is about to remove it.                                        *)
Finished(d) == Whole(d) /\ run[d].trial \notin halfway \cup {Repro}

RecordedOnce(d) ==
    /\ \A e \in RunDirs : (Whole(e) /\ run[e].trial = run[d].trial) => e = d
    /\ \A p \in Procs :
        (cmd[p] = "begin" /\ pc[p] \in {"open", "write", "rename"}) =>
        hold[p].trial # run[d].trial
    /\ (active \in Payload /\ active.trial = run[d].trial) =>
        \E p \in Procs : pc[p] = "unlink"

FinishedOnce == ~overlap => \A d \in RunDirs : Finished(d) => RecordedOnce(d)

Alone ==
    /\ OneWriter
    /\ WritersKnow
    /\ ReadableAlone
    /\ NothingLostAlone
    /\ FinishedOnce

(* Steps that touch neither the active trial nor what its writer knows.     *)
LEMMA AloneFramed ==
    ASSUME Structure, Alone, [Next]_vars, OneWriter',
           overlap => overlap', halfway \subseteq halfway',
           UNCHANGED <<active, temp, recorded>>,
           \A d \in RunDirs : Whole(d)' => Whole(d) \/ run'[d].trial = Repro,
           \A q \in Procs :
               \/ cmd'[q] = cmd[q] /\ pc'[q] = pc[q] /\ hold'[q] = hold[q] /\ fd'[q] = fd[q]
               \/ /\ cmd'[q] = cmd[q] /\ hold'[q] = hold[q]
                  /\ pc[q] \in Recording /\ pc'[q] \in Recording /\ pc[q] # "unlink"
               \/ /\ cmd'[q] \notin Writers \/ pc'[q] \in {"exists", "read"}
                  /\ pc'[q] \notin Writing \cup {"unlink"} /\ pc[q] # "unlink"
    PROVE  Alone'
<1>1. \A d \in RunDirs : Whole(d) => Whole(d)' /\ run'[d] = run[d]
  BY FinalStep DEF Whole
<1>2. WritersKnow'
  BY DEF Alone, WritersKnow, Knows, Readable, Writing, Recording, Writers
<1>3. ReadableAlone'
  BY DEF Alone, ReadableAlone
<1>4. NothingLostAlone'
  BY <1>1 DEF Alone, NothingLostAlone, InActive, InRun
<1>5. FinishedOnce'
  <2>1. SUFFICES ASSUME ~overlap', NEW d \in RunDirs, Finished(d)'
                 PROVE  RecordedOnce(d)'
    BY DEF FinishedOnce
  <2>2. Finished(d) /\ run'[d] = run[d]
    BY <1>1, <2>1 DEF Finished
  <2>3. RecordedOnce(d)
    BY <2>1, <2>2 DEF Alone, FinishedOnce
  <2>4. run[d].trial # Repro
    BY <2>2 DEF Finished
  <2> QED BY <1>1, <2>2, <2>3, <2>4 DEF RecordedOnce, Writing, Recording, Writers
<1> QED BY <1>2, <1>3, <1>4, <1>5 DEF Alone
(* A step of p may only end its command. *)
LEMMA OneWriterStep ==
    ASSUME Structure, Alone, [Next]_vars
    PROVE  OneWriter' /\ (overlap => overlap') /\ halfway \subseteq halfway'
<1> USE DEF Structure, TypeOK, Alone, OneWriter
<1>1. ASSUME NEW p \in Procs, NEW c \in Commands, Start(p, c)
      PROVE  OneWriter' /\ (overlap => overlap') /\ halfway \subseteq halfway'
  <2>1. UNCHANGED halfway /\ cmd' = [cmd EXCEPT ![p] = c]
    BY <1>1 DEF Start
  <2>2. overlap' <=> (overlap \/ (c \in Writers /\ \E q \in Procs : cmd[q] \in Writers))
    BY <1>1 DEF Start
  <2>3. ASSUME NEW q \in Procs, NEW r \in Procs, q # r,
               cmd'[q] \in Writers, cmd'[r] \in Writers
        PROVE  overlap \/ (c \in Writers /\ \E s \in Procs : cmd[s] \in Writers)
    BY <2>1, <2>3
  <2> QED BY <2>1, <2>2, <2>3, Zenon
<1>2. ASSUME NEW p \in Procs,
             \/ Exists(p) \/ Collect(p) \/ Reproduce(p) \/ Read(p) \/ Open(p) \/ Write(p)
             \/ WriteFails(p) \/ Rename(p) \/ Chmod(p) \/ MakeRun(p) \/ WriteManifest(p)
             \/ WriteReport(p) \/ Unlink(p) \/ Load(p)
             \/ MakeCandidate(p) \/ CopyManifest(p) \/ CopyReport(p) \/ Kill(p)
      PROVE  OneWriter' /\ (overlap => overlap') /\ halfway \subseteq halfway'
  <2>1. UNCHANGED overlap /\ halfway \subseteq halfway'
    BY <1>2 DEF Exists, Collect, Reproduce, Read, Open, Write, WriteFails, Rename, Chmod,
         MakeRun, WriteManifest, WriteReport, Unlink, Load, MakeCandidate, CopyManifest,
         CopyReport, Kill, Quiet, history
  <2>2. cmd' = cmd \/ cmd' = [cmd EXCEPT ![p] = "none"]
    BY <1>2 DEF Exists, Collect, Reproduce, Read, Open, Write, WriteFails, Rename, Chmod,
         MakeRun, WriteManifest, WriteReport, Unlink, Load, MakeCandidate, CopyManifest,
         CopyReport, Kill, Go, Stop
  <2> QED BY <2>1, <2>2 DEF Writers
<1>3. CASE UNCHANGED vars
  BY <1>3 DEF vars, history
<1> QED BY <1>1, <1>2, <1>3 DEF Next

(* Starting, stopping, exporting, and making a run. *)
LEMMA FramedSteps ==
    ASSUME Structure, Alone, [Next]_vars, NEW p \in Procs,
           \/ \E c \in Commands : Start(p, c)
           \/ Exists(p) /\ active # NoFile
           \/ Read(p) /\ ~Readable
           \/ Reproduce(p) \/ MakeRun(p) \/ WriteManifest(p)
           \/ WriteReport(p) /\ cmd[p] = "reproduce"
           \/ Load(p) \/ MakeCandidate(p) \/ CopyManifest(p) \/ CopyReport(p)
           \/ Kill(p) /\ pc[p] \notin {"unlink", "write"}
    PROVE  Alone'
<1> USE DEF Structure, Go, Stop, Keep, Quiet, files, history
<1>1. OneWriter' /\ (overlap => overlap') /\ halfway \subseteq halfway'
  BY OneWriterStep
<1>2. UNCHANGED <<active, temp, recorded>>
  BY DEF Start, Exists, Read, Reproduce, MakeRun, WriteManifest, WriteReport, Load,
     MakeCandidate, CopyManifest, CopyReport, Kill
<1>3. ASSUME NEW d \in RunDirs, Whole(d)' PROVE Whole(d) \/ run'[d].trial = Repro
  <2>1. CASE MakeRun(p)
    BY <1>3, <2>1 DEF MakeRun, NewRun, TypeOK, Whole
  <2>2. CASE WriteManifest(p)
    BY <1>3, <2>2 DEF WriteManifest, TypeOK, Whole, HandsFull, RunsInProgress, Made, Run
  <2>3. CASE WriteReport(p) /\ cmd[p] = "reproduce"
    <3>1. run[dir[p]] \in Run /\ run[dir[p]].trial = Repro /\ dir[p] \in RunDirs
      BY <2>3 DEF WriteReport, HandsFull, RunsInProgress, Made, Recording
    <3>2. run' = [run EXCEPT ![dir[p]].stage = "whole"]
      BY <2>3 DEF WriteReport
    <3> QED BY <1>3, <3>1, <3>2 DEF TypeOK, Run, Whole
  <2>4. CASE UNCHANGED run
    BY <1>3, <2>4 DEF Whole
  <2> QED
    BY <2>1, <2>2, <2>3, <2>4
    DEF Start, Exists, Read, Reproduce, Load, MakeCandidate, CopyManifest, CopyReport, Kill
<1>4. ASSUME NEW q \in Procs
      PROVE
        \/ cmd'[q] = cmd[q] /\ pc'[q] = pc[q] /\ hold'[q] = hold[q] /\ fd'[q] = fd[q]
        \/ /\ cmd'[q] = cmd[q] /\ hold'[q] = hold[q]
           /\ pc[q] \in Recording /\ pc'[q] \in Recording /\ pc[q] # "unlink"
        \/ /\ cmd'[q] \notin Writers \/ pc'[q] \in {"exists", "read"}
           /\ pc'[q] \notin Writing \cup {"unlink"} /\ pc[q] # "unlink"
  <2> USE DEF TypeOK, Writing, Recording, Writers
  <2>1. ASSUME NEW c \in Commands, Start(p, c)
        PROVE  \/ q # p /\ cmd'[q] = cmd[q] /\ pc'[q] = pc[q] /\ hold'[q] = hold[q]
               \/ /\ cmd'[q] \notin Writers \/ pc'[q] \in {"exists", "read"}
                  /\ pc'[q] \notin Writing \cup {"unlink"} /\ pc[q] # "unlink"
    BY <2>1 DEF Start, FirstState, Commands
  <2>2. CASE \E c \in Commands : Start(p, c)
    BY <2>1, <2>2 DEF Start
  <2>3. CASE (Exists(p) /\ active # NoFile) \/ (Read(p) /\ ~Readable)
    BY <2>3 DEF Exists, Read
  <2>4. CASE Reproduce(p)
    BY <2>4 DEF Reproduce
  <2>5. CASE MakeRun(p) \/ WriteManifest(p)
    BY <2>5 DEF MakeRun, WriteManifest
  <2>6. CASE WriteReport(p) /\ cmd[p] = "reproduce"
    BY <2>6 DEF WriteReport
  <2>7. CASE Load(p) \/ MakeCandidate(p) \/ CopyManifest(p) \/ CopyReport(p)
    BY <2>7 DEF Load, MakeCandidate, CopyManifest, CopyReport, CommandsInPlace
  <2>8. CASE Kill(p) /\ pc[p] \notin {"unlink", "write"}
    BY <2>8 DEF Kill
  <2> HIDE DEF Structure, TypeOK, Go, Stop, Keep, Quiet, files, history, Writing, Recording, Writers
  <2> QED BY <2>2, <2>3, <2>4, <2>5, <2>6, <2>7, <2>8
<1> QED BY <1>1, <1>2, <1>3, <1>4, AloneFramed
(* The steps of a writer that change the active trial or what it knows of   *)
(* it.  As long as writers do not overlap, nobody else knows anything.      *)
LEMMA SoleWriterSteps ==
    ASSUME Structure, Alone, [Next]_vars, Structure', NEW p \in Procs, cmd[p] \in Writers,
           \/ Exists(p) /\ active = NoFile
           \/ Read(p) /\ Readable
           \/ Collect(p)
           \/ Open(p) \/ Write(p) \/ WriteFails(p) \/ Rename(p) \/ Chmod(p)
           \/ WriteReport(p) \/ Unlink(p)
           \/ Kill(p) /\ pc[p] \in {"unlink", "write"}
    PROVE  Alone'
<1>1. OneWriter' /\ (overlap => overlap') /\ halfway \subseteq halfway'
  BY OneWriterStep
<1>2. \A q \in Procs : q # p =>
        /\ cmd'[q] = cmd[q] /\ pc'[q] = pc[q] /\ hold'[q] = hold[q]
  BY DEF Structure, TypeOK, Go, Stop, Keep, Exists, Read, Collect, Open, Write, WriteFails,
         Rename, Chmod, WriteReport, Unlink, Kill
<1>3. SUFFICES ASSUME ~overlap'
               PROVE  /\ Knows(p)' /\ ReadableAlone' /\ NothingLostAlone'
                      /\ \A d \in RunDirs : Finished(d)' => RecordedOnce(d)'
  <2>1. CASE overlap'
    BY <1>1, <2>1 DEF Alone, WritersKnow, ReadableAlone, NothingLostAlone, FinishedOnce
  <2>2. ASSUME ~overlap', NEW q \in Procs, q # p PROVE Knows(q)'
    <3>1. cmd'[q] \notin Writers
      BY <1>1, <1>2, <2>2 DEF Alone, OneWriter
    <3> QED BY <3>1 DEF Knows, Structure, CommandsInPlace, Writing, Writers
  <2> QED BY <1>1, <2>1, <2>2 DEF Alone, WritersKnow, FinishedOnce
<1>4. ~overlap /\ Knows(p)
  BY <1>1, <1>3 DEF Alone, WritersKnow
<1>5. \A q \in Procs : q # p => cmd[q] \notin Writers /\ pc[q] \notin {"unlink"} \cup Writing
  BY <1>4 DEF Alone, OneWriter, Structure, CommandsInPlace, Writing, Writers
<1>6. /\ \A r \in recorded : InActive(r[1], r[2]) \/ InRun(r[1], r[2])
      /\ \A d \in RunDirs : Finished(d) => RecordedOnce(d)
      /\ active \notin {Empty, Torn}
  BY <1>4 DEF Alone, NothingLostAlone, FinishedOnce, ReadableAlone
<1>7. ASSUME NEW d \in RunDirs, Finished(d), pc[p] # "unlink"
      PROVE  ~(active \in Payload /\ active.trial = run[d].trial)
  BY <1>5, <1>6, <1>7 DEF RecordedOnce
<1>8. ASSUME UNCHANGED run, NEW d \in RunDirs, Finished(d)'
      PROVE  Finished(d) /\ RecordedOnce(d) /\ \A e \in RunDirs : Whole(e)' <=> Whole(e)
  BY <1>1, <1>6, <1>8 DEF Finished, Whole
<1>9. ASSUME UNCHANGED <<active, run, recorded>> PROVE ReadableAlone' /\ NothingLostAlone'
  BY <1>6, <1>9 DEF ReadableAlone, NothingLostAlone, InActive, InRun, Whole
<1> USE DEF Structure, TypeOK, Go, Stop, Keep, Quiet, history
<1>10. CASE Exists(p) /\ active = NoFile
  <2>1. UNCHANGED <<files, recorded>> /\ pc[p] = "exists" /\ pc'[p] = "collect" /\ cmd[p] = "begin"
    BY <1>10 DEF Exists, CommandsInPlace
  <2>2. Knows(p)'
    BY <1>10, <2>1 DEF Exists, Knows, Recording, files
  <2>3. \A d \in RunDirs : Finished(d)' => RecordedOnce(d)'
    BY <1>2, <1>5, <1>7, <1>8, <2>1 DEF RecordedOnce, Writing, files
  <2> QED BY <1>9, <2>1, <2>2, <2>3 DEF files
<1>11. CASE Collect(p)
  <2>1. PICK t \in Trials \ begun : hold' = [hold EXCEPT ![p] = [trial |-> t, notes |-> {}]]
    BY <1>11 DEF Collect
  <2>2. /\ UNCHANGED <<active, run, recorded>> /\ pc[p] = "collect" /\ pc'[p] = "open"
        /\ cmd[p] = "begin" /\ UNCHANGED cmd /\ hold'[p].trial = t
    BY <1>11, <2>1 DEF Collect, files
  <2>3. Knows(p)'
    BY <1>4, <2>2 DEF Knows, Recording
  <2>4. ASSUME NEW d \in RunDirs, Finished(d)' PROVE RecordedOnce(d)'
    <3>1. Finished(d) /\ RecordedOnce(d) /\ \A e \in RunDirs : Whole(e)' <=> Whole(e)
      BY <1>8, <2>2, <2>4
    <3>2. run[d].trial # t
      BY <2>1, <3>1, SentinelsDiffer DEF FilesAreTrials, Finished, Whole
    <3> QED BY <1>2, <1>5, <1>7, <2>2, <3>1, <3>2 DEF RecordedOnce, Writing
  <2> QED BY <1>9, <2>2, <2>3, <2>4
<1>12. CASE Read(p) /\ Readable
  <2>1. /\ UNCHANGED <<active, run, recorded>> /\ pc[p] = "read" /\ UNCHANGED cmd
        /\ cmd[p] \in {"observe", "finish"} /\ pc'[p] \in {"open", "mkdir"}
    BY <1>12 DEF Read, files
  <2>2. Knows(p)'
    BY <1>12 DEF Read, Readable, Payload, Knows, Recording, files
  <2>3. \A d \in RunDirs : Finished(d)' => RecordedOnce(d)'
    BY <1>2, <1>5, <1>7, <1>8, <2>1 DEF RecordedOnce, Writing
  <2> QED BY <1>9, <2>1, <2>2, <2>3
<1>13. CASE Open(p) \/ Write(p) \/ WriteFails(p) \/ (Kill(p) /\ pc[p] = "write")
  <2>1. pc[p] = "write" => fd[p] = "temp" /\ temp = Empty
    BY <1>4 DEF Knows
  <2>2. /\ UNCHANGED <<active, run, recorded>> /\ (UNCHANGED hold \/ cmd'[p] = "none")
        /\ pc[p] \in {"open", "write"} /\ pc'[p] # "unlink"
        /\ cmd'[p] # "none" => cmd' = cmd
    BY <1>13, <2>1 DEF Open, Write, WriteFails, Kill
  <2>3. Knows(p)'
    BY <1>4, <1>13, <2>1
    DEF Knows, Open, Write, WriteFails, Kill, Overwritten, Readable, Recording
  <2>4. \A d \in RunDirs : Finished(d)' => RecordedOnce(d)'
    BY <1>2, <1>5, <1>7, <1>8, <2>2 DEF RecordedOnce, Writing
  <2> QED BY <1>9, <2>2, <2>3, <2>4
<1>14. CASE Rename(p)
  <2>1. /\ pc[p] = "rename" /\ temp = hold[p] /\ hold[p] \in Payload /\ temp # NoFile
        /\ cmd[p] \in {"begin", "observe"}
    BY <1>4, <1>14, SentinelsDiffer DEF Rename, Knows, HandsFull, CommandsInPlace, Writing
  <2>2. /\ active' = hold[p] /\ UNCHANGED <<run, recorded, hold, cmd>> /\ pc'[p] = "chmod"
    BY <1>14, <2>1 DEF Rename
  <2>3. Knows(p)'
    BY <2>1, <2>2 DEF Knows, Recording
  <2>4. ReadableAlone'
    BY <2>1, <2>2, SentinelsDiffer DEF ReadableAlone
  <2>5. NothingLostAlone'
    <3>1. ASSUME NEW r \in recorded PROVE InActive(r[1], r[2])' \/ InRun(r[1], r[2])'
      <4>1. CASE InRun(r[1], r[2])
        BY <2>2, <4>1 DEF InRun, Whole
      <4>2. CASE InActive(r[1], r[2])
        BY <1>4, <2>1, <2>2, <4>2, SentinelsDiffer DEF InActive, Knows
      <4> QED BY <1>6, <4>1, <4>2
    <3> QED BY <2>2, <3>1 DEF NothingLostAlone
  <2>6. ASSUME NEW d \in RunDirs, Finished(d)' PROVE RecordedOnce(d)'
    <3>1. Finished(d) /\ RecordedOnce(d) /\ \A e \in RunDirs : Whole(e)' <=> Whole(e)
      BY <1>8, <2>2, <2>6
    <3>2. hold[p].trial # run[d].trial
      <4>1. CASE cmd[p] = "begin"
        BY <2>1, <3>1, <4>1 DEF RecordedOnce
      <4>2. CASE cmd[p] = "observe"
        BY <1>4, <1>7, <2>1, <3>1, <4>2 DEF Knows, Readable
      <4> QED BY <2>1, <4>1, <4>2
    <3> QED BY <1>2, <1>5, <2>2, <3>1, <3>2 DEF RecordedOnce, Writing
  <2> QED BY <2>3, <2>4, <2>5, <2>6
<1>15. CASE Chmod(p)
  <2>1. /\ pc[p] = "chmod" /\ active = hold[p] /\ hold[p] \in Payload /\ active # NoFile
        /\ cmd[p] = "observe" => note[p] \in hold[p].notes
    BY <1>4, <1>15, SentinelsDiffer DEF Chmod, Knows, HandsFull, Writing
  <2>2. /\ UNCHANGED <<active, run>> /\ pc'[p] = "idle" /\ cmd'[p] = "none"
        /\ recorded' \subseteq recorded
                \cup (IF cmd[p] = "observe" THEN {<<hold[p].trial, note[p]>>} ELSE {})
    BY <1>15, <2>1 DEF Chmod
  <2>3. Knows(p)' /\ ReadableAlone'
    BY <1>6, <2>2 DEF Knows, ReadableAlone, Recording
  <2>4. NothingLostAlone'
    <3>1. cmd[p] = "observe" => InActive(hold[p].trial, note[p])
      BY <2>1 DEF InActive
    <3>2. \A t, n : (InActive(t, n)' <=> InActive(t, n)) /\ (InRun(t, n)' <=> InRun(t, n))
      BY <2>2 DEF InActive, InRun, Whole
    <3> QED BY <1>6, <2>2, <3>1, <3>2 DEF NothingLostAlone
  <2>5. \A d \in RunDirs : Finished(d)' => RecordedOnce(d)'
    BY <1>2, <1>5, <1>7, <1>8, <2>1, <2>2 DEF RecordedOnce, Writing
  <2> QED BY <2>3, <2>4, <2>5
<1>16. CASE WriteReport(p)
  <2>1. /\ cmd[p] = "finish" /\ pc[p] = "report" /\ pc'[p] = "unlink" /\ UNCHANGED <<cmd, hold>>
        /\ dir[p] \in RunDirs /\ Made(p, "manifest") /\ active = hold[p] /\ hold[p] \in Payload
    BY <1>4, <1>16 DEF WriteReport, Writers, HandsFull, RunsInProgress, Knows, Recording
  <2>2. /\ UNCHANGED <<active, recorded, halfway>>
        /\ run' = [run EXCEPT ![dir[p]].stage = "whole"]
    BY <1>16 DEF WriteReport
  <2>3. Knows(p)'
    BY <1>4, <2>1, <2>2 DEF Knows, Recording, Readable
  <2>4. \A d \in RunDirs : Whole(d) => Whole(d)' /\ run'[d] = run[d]
    BY FinalStep DEF Whole
  <2>5. ReadableAlone' /\ NothingLostAlone'
    BY <1>6, <2>2, <2>4 DEF ReadableAlone, NothingLostAlone, InActive, InRun
  <2>6. \A d \in RunDirs : /\ Whole(d)' => Whole(d) \/ d = dir[p]
                           /\ run[d] # NoFile => run'[d].trial = run[d].trial
    BY <2>1, <2>2 DEF Whole, Made, Run
  <2>7. run[dir[p]] # NoFile /\ run[dir[p]].trial = active.trial
    BY <2>1, SentinelsDiffer DEF Made
  <2>8. ASSUME NEW d \in RunDirs, Finished(d)' PROVE RecordedOnce(d)'
    <3>1. ASSUME NEW e \in RunDirs, Whole(e)', run'[e].trial = run'[d].trial PROVE e = d
      <4>1. ASSUME NEW x \in RunDirs, Whole(x), run[x].trial \notin halfway \cup {Repro}
            PROVE  run[x].trial # active.trial
        BY <1>7, <2>1, <4>1 DEF Finished
      <4>2. run'[d].trial \notin halfway \cup {Repro}
        BY <2>2, <2>8 DEF Finished
      <4>3. CASE Whole(e) /\ Whole(d)
        BY <1>6, <2>4, <3>1, <4>2, <4>3 DEF RecordedOnce, Finished
      <4>4. CASE Whole(e) /\ d = dir[p]
        BY <2>4, <2>6, <2>7, <3>1, <4>1, <4>2, <4>4
      <4>5. CASE Whole(d) /\ e = dir[p]
        BY <2>4, <2>6, <2>7, <3>1, <4>1, <4>2, <4>5
      <4> QED BY <2>6, <2>8, <3>1, <4>3, <4>4, <4>5 DEF Finished
    <3>2. \A q \in Procs : ~(cmd'[q] = "begin" /\ pc'[q] \in {"open", "write", "rename"})
      BY <1>2, <1>5, <2>1 DEF Writing
    <3> QED BY <2>1, <3>1, <3>2 DEF RecordedOnce
  <2> QED BY <2>3, <2>5, <2>8
<1>17. CASE Unlink(p)
  <2>1. /\ pc[p] = "unlink" /\ dir[p] \in RunDirs /\ Made(p, "whole")
        /\ active = hold[p] /\ hold[p] \in Payload
    BY <1>4, <1>17 DEF Unlink, HandsFull, RunsInProgress, Knows, Recording, CommandsInPlace
  <2>2. /\ active' = NoFile /\ UNCHANGED <<run, recorded>> /\ pc'[p] = "idle"
        /\ cmd'[p] = "none"
    BY <1>17 DEF Unlink
  <2>3. Knows(p)' /\ ReadableAlone'
    BY <2>2, SentinelsDiffer DEF Knows, ReadableAlone, Recording
  <2>4. NothingLostAlone'
    <3>1. ASSUME NEW r \in recorded PROVE InRun(r[1], r[2])'
      <4>1. CASE InRun(r[1], r[2])
        BY <2>2, <4>1 DEF InRun, Whole
      <4>2. CASE InActive(r[1], r[2])
        BY <2>1, <2>2, <4>2, SentinelsDiffer DEF InActive, InRun, Whole, Made
      <4> QED BY <1>6, <4>1, <4>2
    <3> QED BY <2>2, <3>1 DEF NothingLostAlone
  <2>5. \A d \in RunDirs : Finished(d)' => RecordedOnce(d)'
    BY <1>2, <1>5, <1>8, <2>2, SentinelsDiffer DEF RecordedOnce, Writing
  <2> QED BY <2>3, <2>4, <2>5
<1>18. CASE Kill(p) /\ pc[p] = "unlink"
  <2>1. active = hold[p]
    BY <1>4, <1>18 DEF Knows, Recording, CommandsInPlace
  <2>2. /\ UNCHANGED <<active, run, recorded>> /\ pc'[p] = "idle" /\ cmd'[p] = "none"
        /\ active.trial \in halfway'
    BY <1>18, <2>1 DEF Kill, files
  <2>3. Knows(p)'
    BY <2>2 DEF Knows, Recording
  <2>4. \A d \in RunDirs : Finished(d)' => RecordedOnce(d)'
    BY <1>2, <1>5, <1>8, <2>2 DEF RecordedOnce, Finished, Writing
  <2> QED BY <1>9, <2>2, <2>3, <2>4
<1> HIDE DEF Structure, TypeOK, Go, Stop, Keep, Quiet, history
<1> QED BY <1>10, <1>11, <1>12, <1>13, <1>14, <1>15, <1>16, <1>17, <1>18

LEMMA AloneHolds == Structure /\ Alone /\ [Next]_vars => Alone'
<1> SUFFICES ASSUME Structure, Alone, [Next]_vars PROVE Alone'
  OBVIOUS
<1>1. Structure'
  BY StructureHolds
<1>2. CASE UNCHANGED vars
  BY <1>2 DEF vars, files, history, Alone, OneWriter, WritersKnow, Knows, Readable, ReadableAlone,
       NothingLostAlone, InActive, InRun, FinishedOnce, Finished, RecordedOnce, Whole
<1>3. ASSUME NEW p \in Procs, cmd[p] \notin Writers,
             \/ Exists(p) \/ Collect(p) \/ Read(p) \/ Open(p) \/ Write(p) \/ WriteFails(p)
             \/ Rename(p) \/ Chmod(p) \/ Unlink(p) \/ WriteReport(p) \/ Kill(p)
      PROVE  \/ WriteReport(p) /\ cmd[p] = "reproduce"
             \/ Kill(p) /\ pc[p] \notin {"unlink", "write"}
  BY <1>3 DEF Structure, CommandsInPlace, Writers, Writing, Go, Exists, Collect, Read, Open,
       Write, WriteFails, Rename, Chmod, Unlink, WriteReport, Kill
<1>4. ASSUME NEW p \in Procs,
             \/ \E c \in Commands : Start(p, c)
             \/ Exists(p) \/ Collect(p) \/ Reproduce(p) \/ Read(p)
             \/ Open(p) \/ Write(p) \/ WriteFails(p) \/ Rename(p) \/ Chmod(p)
             \/ MakeRun(p) \/ WriteManifest(p) \/ WriteReport(p) \/ Unlink(p)
             \/ Load(p) \/ MakeCandidate(p) \/ CopyManifest(p) \/ CopyReport(p)
             \/ Kill(p)
      PROVE  Alone'
  <2>1. \/ Exists(p) /\ active # NoFile
        \/ Exists(p) /\ active = NoFile
        \/ Read(p) /\ ~Readable
        \/ Read(p) /\ Readable
        \/ ~Exists(p) /\ ~Read(p)
    OBVIOUS
  <2>2. CASE cmd[p] \in Writers
    BY <1>1, <1>4, <2>1, <2>2, FramedSteps, SoleWriterSteps
  <2>3. CASE cmd[p] \notin Writers
    BY <1>3, <1>4, <2>3, FramedSteps
  <2> QED BY <2>2, <2>3
<1> QED BY <1>2, <1>4 DEF Next

LEMMA AloneIsInvariant == Spec => [](Structure /\ Alone)
<1>1. Init => Structure /\ Alone
  <2>1. Init => Alone
    BY SentinelsDiffer
    DEF Init, Alone, OneWriter, WritersKnow, Knows, ReadableAlone, NothingLostAlone, InActive,
        InRun, FinishedOnce, Finished, RecordedOnce, Whole, Recording, Writers
  <2> QED BY <2>1, InitialStructure
<1> QED BY <1>1, StructureHolds, AloneHolds, PTL DEF Spec

(***************************************************************************)
(* Used one at a time, begin, observe and finish lose no acknowledged      *)
(* note, wherever they are killed or run out of disk space.                *)
(***************************************************************************)
THEOREM NoNoteIsLost == Spec => []NothingLostAlone
<1>1. Alone => NothingLostAlone
  BY DEF Alone
<1> QED BY <1>1, AloneIsInvariant, PTL

(***************************************************************************)
(* Used one at a time, they never leave a torn active trial behind.        *)
(***************************************************************************)
THEOREM ActiveStaysReadable == Spec => []ReadableAlone
<1>1. Alone => ReadableAlone
  BY DEF Alone
<1> QED BY <1>1, AloneIsInvariant, PTL

(***************************************************************************)
(* Two complete runs of one trial take a finish that was killed between    *)
(* its last two steps, or writers that overlap.                            *)
(***************************************************************************)
THEOREM RecordedTwiceOnlyAfterTrouble == Spec => []TwiceOnlyAfterTrouble
<1>1. Alone => TwiceOnlyAfterTrouble
  BY DEF Alone, FinishedOnce, Finished, RecordedOnce, TwiceOnlyAfterTrouble
<1> QED BY <1>1, AloneIsInvariant, PTL

(***************************************************************************)
(* A trial that has grown too long to be read stays as it is until the     *)
(* user or two overlapping writers touch it.                               *)
(***************************************************************************)
THEOREM LongTrialsStay == Spec => TooLongIsKept
<1>1. ASSUME Structure, Alone, [Next]_vars PROVE [TooLong /\ ~overlap' => active' = active]_vars
  <2>1. SUFFICES ASSUME TooLong, ~overlap', active' # active PROVE FALSE
    OBVIOUS
  <2>2. ~overlap
    BY <1>1, <2>1, OneWriterStep
  <2>3. \A p \in Procs : Knows(p)
    BY <1>1, <2>2 DEF Alone, WritersKnow
  <2>4. ~Readable /\ active # NoFile
    BY <2>1, SentinelsDiffer DEF TooLong, Readable
  <2>5. PICK p \in Procs :
          Open(p) \/ Write(p) \/ WriteFails(p) \/ Rename(p) \/ Unlink(p) \/ Kill(p)
    BY <1>1, <2>1
    DEF Next, vars, files, Start, Exists, Collect, Reproduce, Read, Chmod, MakeRun, WriteManifest,
        WriteReport, Load, MakeCandidate, CopyManifest, CopyReport
  <2>6. ~Write(p) /\ ~WriteFails(p) /\ ~Open(p) /\ ~Kill(p)
    BY <2>1, <2>3 DEF Knows, Open, Write, WriteFails, Kill, Go
  <2>7. ~Rename(p)
    BY <1>1, <2>3, <2>4 DEF Rename, Go, Stop, Knows, Structure, CommandsInPlace, Writing
  <2>8. ~Unlink(p)
    BY <1>1, <2>3, <2>4 DEF Unlink, Knows, Recording, Structure, CommandsInPlace
  <2> QED BY <2>5, <2>6, <2>7, <2>8
<1>2. Structure /\ Alone /\ [Next]_vars => [TooLong /\ ~overlap' => active' = active]_vars
  BY <1>1
<1> QED BY <1>2, AloneIsInvariant, PTL DEF Spec, TooLongIsKept

=============================================================================
