-------------------------------- MODULE Trial --------------------------------
(***************************************************************************)
(* The trial diary: active-trial.json, the runs made from it and the       *)
(* candidates exported from those.                                         *)
(*                                                                         *)
(* "trial begin" looks for an active trial, collects a graphics report and *)
(* creates the file; "observe" reads it, adds a note and writes it back;   *)
(* "finish" reads it, makes a run directory with a manifest and a report   *)
(* and removes it.  "reproduce" makes a run without an active trial, and   *)
(* "export" copies a run.  No lock orders them: each process takes its     *)
(* steps at any time and may be killed between two of them.                *)
(*                                                                         *)
(* All writers of the active file go through one temporary name that they  *)
(* open for truncation, so two of them may share an inode; fd says where   *)
(* the inode a process has open is linked by now.                          *)
(***************************************************************************)
EXTENDS Naturals, FiniteSets

CONSTANTS
    Procs,     \* the commands that may run at the same time
    Trials,    \* the trials a user may begin
    Notes,     \* the notes a user may hand to "observe", each once
    RunDirs,   \* the names of run directories: a second and a trial's name
    Capacity,  \* the notes that fit in the 65,536 bytes a reader accepts
    Repro,     \* the trial that "reproduce" records
    NoFile,    \* no file of that name, no run, nothing in hand
    Empty,     \* a file that was truncated and not written yet
    Torn       \* a file that is no JSON document

ASSUME CapacityIsNat == Capacity \in Nat

Payload == [trial : Trials \cup {Repro}, notes : SUBSET Notes]
Run     == [trial : Trials \cup {Repro}, notes : SUBSET Notes,
            stage : {"empty", "manifest", "whole"}]

ASSUME SentinelsDiffer ==
    /\ Repro \notin Trials
    /\ NoFile \notin RunDirs \cup Notes \cup Payload \cup Run
    /\ Empty \notin Payload \cup {NoFile}
    /\ Torn \notin Payload \cup {NoFile, Empty}

VARIABLES
    active,    \* active-trial.json
    temp,      \* active-trial.json.tmp
    run,       \* the run directories
    candidate, \* how much of a run was exported
    cmd,       \* the command a process runs
    pc,        \* where that process is
    fd,        \* where the temporary file it has open is linked
    hold,      \* the trial it has read or made up
    note,      \* the note it adds
    dir        \* the run directory it makes or exports

(***************************************************************************)
(* History variables: no action reads them, but to name fresh trials and   *)
(* notes.                                                                  *)
(***************************************************************************)
VARIABLES
    begun,     \* the trials begun so far
    submitted, \* the notes handed in so far
    recorded,  \* the notes acknowledged with "Observation recorded.", by trial
    overlap,   \* begin, observe or finish once ran beside another of them
    halfway,   \* the trials of which a finish was killed between its last two
               \* steps: the run is complete and the trial still active
    exported,  \* the runs of which an export has made both copies
    cut        \* the runs of which an export was killed, or failed, at a copy

files   == <<active, temp, run, candidate>>
history == <<begun, submitted, recorded, overlap, halfway, exported, cut>>
vars    == <<files, cmd, pc, fd, hold, note, dir, history>>

-----------------------------------------------------------------------------

Writers  == {"begin", "observe", "finish"}
Commands == Writers \cup {"export", "reproduce"}

States == {"idle", "exists", "read", "collect", "open", "write", "rename", "chmod",
           "mkdir", "manifest", "report", "unlink", "load", "candidate", "copyManifest",
           "copyReport"}

TypeOK ==
    /\ active \in Payload \cup {NoFile, Empty, Torn}
    /\ temp \in Payload \cup {NoFile, Empty, Torn}
    /\ run \in [RunDirs -> Run \cup {NoFile}]
    /\ candidate \in [RunDirs -> {"none", "begun", "manifest", "whole"}]
    /\ cmd \in [Procs -> Commands \cup {"none"}]
    /\ pc \in [Procs -> States]
    /\ fd \in [Procs -> {"none", "temp", "active", "lost"}]
    /\ hold \in [Procs -> Payload \cup {NoFile}]
    /\ note \in [Procs -> Notes \cup {NoFile}]
    /\ dir \in [Procs -> RunDirs \cup {NoFile}]
    /\ begun \subseteq Trials
    /\ submitted \subseteq Notes
    /\ recorded \subseteq Trials \X Notes
    /\ overlap \in BOOLEAN
    /\ halfway \subseteq Trials
    /\ exported \subseteq RunDirs
    /\ cut \subseteq RunDirs

Init ==
    /\ active = NoFile
    /\ temp = NoFile
    /\ run = [d \in RunDirs |-> NoFile]
    /\ candidate = [d \in RunDirs |-> "none"]
    /\ cmd = [p \in Procs |-> "none"]
    /\ pc = [p \in Procs |-> "idle"]
    /\ fd = [p \in Procs |-> "none"]
    /\ hold = [p \in Procs |-> NoFile]
    /\ note = [p \in Procs |-> NoFile]
    /\ dir = [p \in Procs |-> NoFile]
    /\ begun = {} /\ submitted = {} /\ recorded = {}
    /\ overlap = FALSE
    /\ halfway = {}
    /\ exported = {} /\ cut = {}

-----------------------------------------------------------------------------
(* Helpers *)

Go(p, from, to) ==
    /\ pc[p] = from
    /\ pc' = [pc EXCEPT ![p] = to]
    /\ UNCHANGED cmd

(* The command of p has ended, with success or without. *)
Stop(p) ==
    /\ pc' = [pc EXCEPT ![p] = "idle"]
    /\ cmd' = [cmd EXCEPT ![p] = "none"]
    /\ hold' = [hold EXCEPT ![p] = NoFile]
    /\ note' = [note EXCEPT ![p] = NoFile]
    /\ dir' = [dir EXCEPT ![p] = NoFile]

Keep == UNCHANGED <<hold, note, dir>>

Quiet == UNCHANGED history

(* The open descriptors after the files named in the domain of m were       *)
(* renamed or unlinked.                                                     *)
Relinked(open, m) ==
    [q \in Procs |-> IF open[q] \in DOMAIN m THEN m[open[q]] ELSE open[q]]

TempUnlinked == [temp |-> "lost"]

FirstState(c) ==
    CASE c = "begin"     -> "exists"
      [] c = "export"    -> "load"
      [] c = "reproduce" -> "collect"
      [] OTHER           -> "read"

Start(p, c) ==
    /\ pc[p] = "idle"
    /\ pc' = [pc EXCEPT ![p] = FirstState(c)]
    /\ cmd' = [cmd EXCEPT ![p] = c]
    /\ overlap' = (overlap \/ (c \in Writers /\ \E q \in Procs : cmd[q] \in Writers))
    /\ Keep
    /\ UNCHANGED <<files, fd, begun, submitted, recorded, halfway, exported, cut>>

-----------------------------------------------------------------------------
(* begin, observe, finish: looking at the active trial *)

Exists(p) ==
    /\ \/ active = NoFile /\ Go(p, "exists", "collect") /\ Keep
       \/ active # NoFile /\ pc[p] = "exists" /\ Stop(p)
    /\ Quiet
    /\ UNCHANGED <<files, fd>>

(* collect_graphics_report: seconds, or minutes, after the look. *)
Collect(p) ==
    /\ cmd[p] = "begin"
    /\ Go(p, "collect", "open")
    /\ \E t \in Trials \ begun :
        /\ begun' = begun \cup {t}
        /\ hold' = [hold EXCEPT ![p] = [trial |-> t, notes |-> {}]]
    /\ UNCHANGED <<files, fd, note, dir>>
    /\ UNCHANGED <<submitted, recorded, overlap, halfway, exported, cut>>

(* _reproduce records its trial at once, without an active one. *)
Reproduce(p) ==
    /\ cmd[p] = "reproduce"
    /\ Go(p, "collect", "mkdir")
    /\ hold' = [hold EXCEPT ![p] = [trial |-> Repro, notes |-> {}]]
    /\ Quiet
    /\ UNCHANGED <<files, fd, note, dir>>

(* Mutant: the size of the file is not looked at. *)
AnySize == active \in Payload

(* _read_active_trial: the size is checked when the file is read, never     *)
(* when it is written.                                                      *)
Readable == active \in Payload /\ Cardinality(active.notes) <= Capacity

Read(p) ==
    /\ \/ /\ Readable
          /\ cmd[p] = "observe"
          /\ Go(p, "read", "open")
          /\ \E n \in Notes \ submitted :
                /\ submitted' = submitted \cup {n}
                /\ note' = [note EXCEPT ![p] = n]
                /\ hold' = [hold EXCEPT ![p] = [active EXCEPT !.notes = @ \cup {n}]]
          /\ UNCHANGED dir
       \/ /\ Readable
          /\ cmd[p] = "finish"
          /\ Go(p, "read", "mkdir")
          /\ hold' = [hold EXCEPT ![p] = active]
          /\ UNCHANGED <<note, dir, submitted>>
       \/ ~Readable /\ pc[p] = "read" /\ Stop(p) /\ UNCHANGED submitted
    /\ UNCHANGED <<files, fd, begun, recorded, overlap, halfway, exported, cut>>

-----------------------------------------------------------------------------
(* _write_private_json *)

(* Mutant: the active file itself is opened for truncation. *)
OpenInPlace(p) ==
    /\ Go(p, "open", "write")
    /\ active' = Empty
    /\ fd' = [fd EXCEPT ![p] = "active"]
    /\ Keep /\ Quiet
    /\ UNCHANGED <<temp, run, candidate>>

(* O_CREAT and O_TRUNC without O_EXCL: a temporary file that is there, of   *)
(* a killed writer or of one that is still at it, is emptied and shared.    *)
Open(p) ==
    /\ Go(p, "open", "write")
    /\ temp' = Empty
    /\ fd' = [fd EXCEPT ![p] = "temp"]
    /\ Keep /\ Quiet
    /\ UNCHANGED <<active, run, candidate>>

(* Mutant: "observe" writes the note in place of the trial. *)
NoteAlone(p, old) == IF note[p] = NoFile THEN {hold[p]} ELSE {note[p]}

(* What a file holds after p wrote to it from the start: a longer text that *)
(* another writer left there since p truncated it shows at the end.         *)
Overwritten(p, old) == IF old = Empty THEN {hold[p]} ELSE {hold[p], Torn}

Write(p) ==
    /\ Go(p, "write", "rename")
    /\ temp' \in IF fd[p] = "temp" THEN Overwritten(p, temp) ELSE {temp}
    /\ active' \in IF fd[p] = "active" THEN Overwritten(p, active) ELSE {active}
    /\ fd' = [fd EXCEPT ![p] = "none"]
    /\ Keep /\ Quiet
    /\ UNCHANGED <<run, candidate>>

(* The disk is full; the handler removes whatever has the temporary name. *)
WriteFails(p) ==
    /\ pc[p] = "write"
    /\ Stop(p)
    /\ active' = IF fd[p] = "active" THEN Torn ELSE active
    /\ temp' = NoFile
    /\ fd' = [Relinked(fd, TempUnlinked) EXCEPT ![p] = "none"]
    /\ Quiet
    /\ UNCHANGED <<run, candidate>>

(* os.replace moves the file of that name, whoever wrote it; it fails when  *)
(* another writer has moved or removed it.                                  *)
Rename(p) ==
    /\ \/ /\ temp # NoFile
          /\ Go(p, "rename", "chmod")
          /\ active' = temp
          /\ fd' = Relinked(fd, [temp |-> "active", active |-> "lost"])
          /\ Keep
       \/ /\ temp = NoFile
          /\ pc[p] = "rename"
          /\ Stop(p)
          /\ UNCHANGED <<active, fd>>
    /\ temp' = NoFile
    /\ Quiet
    /\ UNCHANGED <<run, candidate>>

(* os.chmod of the active file is the last step that can fail: only then is *)
(* the command a success and a note acknowledged.                           *)
Chmod(p) ==
    /\ pc[p] = "chmod"
    /\ Stop(p)
    /\ \/ /\ active # NoFile
          /\ recorded' = IF cmd[p] = "observe"
                         THEN recorded \cup {<<hold[p].trial, note[p]>>} ELSE recorded
          /\ UNCHANGED <<temp, fd>>
       \/ /\ active = NoFile
          /\ temp' = NoFile
          /\ fd' = Relinked(fd, TempUnlinked)
          /\ UNCHANGED recorded
    /\ UNCHANGED <<active, run, candidate>>
    /\ UNCHANGED <<begun, submitted, overlap, halfway, exported, cut>>

-----------------------------------------------------------------------------
(* TrialRecorder.finish, for finish and reproduce *)

(* Mutant: the active trial is removed as soon as the manifest is written. *)
UnlinkAfterManifest(p) ==
    /\ Go(p, "manifest", "report")
    /\ run' = [run EXCEPT ![dir[p]].stage = "manifest"]
    /\ active' = NoFile
    /\ Keep /\ Quiet
    /\ UNCHANGED <<temp, candidate, fd>>

NewRun(p) == [trial |-> hold[p].trial, notes |-> hold[p].notes, stage |-> "empty"]

(* Mutant: a directory of the same second and name is used again. *)
ReuseRun(p) ==
    /\ \E d \in RunDirs :
        /\ Go(p, "mkdir", "manifest")
        /\ run' = [run EXCEPT ![d] = NewRun(p)]
        /\ dir' = [dir EXCEPT ![p] = d]
    /\ Quiet
    /\ UNCHANGED <<active, temp, candidate, fd, hold, note>>

(* mkdir without exist_ok: a second run of the same second and name fails. *)
MakeRun(p) ==
    /\ \E d \in RunDirs :
        \/ /\ run[d] = NoFile
           /\ Go(p, "mkdir", "manifest")
           /\ run' = [run EXCEPT ![d] = NewRun(p)]
           /\ dir' = [dir EXCEPT ![p] = d]
           /\ UNCHANGED <<hold, note>>
        \/ run[d] # NoFile /\ pc[p] = "mkdir" /\ Stop(p) /\ UNCHANGED run
    /\ Quiet
    /\ UNCHANGED <<active, temp, candidate, fd>>

(* _private_atomic_write, in a directory that nobody else has made. *)
WriteManifest(p) ==
    /\ Go(p, "manifest", "report")
    /\ run' = [run EXCEPT ![dir[p]].stage = "manifest"]
    /\ Keep /\ Quiet
    /\ UNCHANGED <<active, temp, candidate, fd>>

WriteReport(p) ==
    /\ \/ cmd[p] = "finish" /\ Go(p, "report", "unlink") /\ Keep
       \/ cmd[p] = "reproduce" /\ pc[p] = "report" /\ Stop(p)
    /\ run' = [run EXCEPT ![dir[p]].stage = "whole"]
    /\ Quiet
    /\ UNCHANGED <<active, temp, candidate, fd>>

(* Mutant: the finished trial stays the active one. *)
KeepActive(p) ==
    /\ pc[p] = "unlink"
    /\ Stop(p)
    /\ Quiet
    /\ UNCHANGED <<files, fd>>

(* active.unlink(), whatever trial the file is of by now. *)
Unlink(p) ==
    /\ pc[p] = "unlink"
    /\ Stop(p)
    /\ active' = NoFile
    /\ fd' = Relinked(fd, [active |-> "lost"])
    /\ Quiet
    /\ UNCHANGED <<temp, run, candidate>>

-----------------------------------------------------------------------------
(* _export_trial *)

(* Both files of the run can be read. *)
Exportable(d) == run[d] # NoFile /\ run[d].stage = "whole"

Load(p) ==
    /\ \E d \in RunDirs :
        \/ /\ Exportable(d)
           /\ Go(p, "load", "candidate")
           /\ dir' = [dir EXCEPT ![p] = d]
           /\ UNCHANGED <<hold, note>>
        \/ ~Exportable(d) /\ pc[p] = "load" /\ Stop(p)
    /\ Quiet
    /\ UNCHANGED <<files, fd>>

(* Mutant: a directory that is there is used again. *)
ReuseCandidate(p) ==
    /\ Go(p, "candidate", "copyManifest")
    /\ candidate' = [candidate EXCEPT ![dir[p]] = "begun"]
    /\ Keep /\ Quiet
    /\ UNCHANGED <<active, temp, run, fd>>

(* mkdir without exist_ok: what was exported, or half exported, is refused. *)
MakeCandidate(p) ==
    /\ \/ /\ Go(p, "candidate", "copyManifest")
          /\ candidate[dir[p]] = "none"
          /\ candidate' = [candidate EXCEPT ![dir[p]] = "begun"]
          /\ Keep
       \/ /\ pc[p] = "candidate"
          /\ candidate[dir[p]] # "none"
          /\ Stop(p)
          /\ UNCHANGED candidate
    /\ Quiet
    /\ UNCHANGED <<active, temp, run, fd>>

CopyManifest(p) ==
    /\ Go(p, "copyManifest", "copyReport")
    /\ candidate' = [candidate EXCEPT ![dir[p]] = "manifest"]
    /\ Keep /\ Quiet
    /\ UNCHANGED <<active, temp, run, fd>>

(* The copies are given their modes at last, which nothing here depends on. *)
CopyReport(p) ==
    /\ pc[p] = "copyReport"
    /\ Stop(p)
    /\ candidate' = [candidate EXCEPT ![dir[p]] = "whole"]
    /\ exported' = exported \cup {dir[p]}
    /\ UNCHANGED <<active, temp, run, fd>>
    /\ UNCHANGED <<begun, submitted, recorded, overlap, halfway, cut>>

-----------------------------------------------------------------------------

Copying(p) == pc[p] \in {"copyManifest", "copyReport"}

(* A command is killed, or ends with an error.  A writer may have written a *)
(* part of its text; a copy that is cut short is as good as none.           *)
Kill(p) ==
    /\ pc[p] # "idle"
    /\ Stop(p)
    /\ temp' \in IF pc[p] = "write" /\ fd[p] = "temp" THEN {temp, Torn} ELSE {temp}
    /\ active' \in IF pc[p] = "write" /\ fd[p] = "active" THEN {active, Torn} ELSE {active}
    /\ halfway' = IF pc[p] = "unlink" THEN halfway \cup {hold[p].trial} ELSE halfway
    /\ cut' = IF Copying(p) THEN cut \cup {dir[p]} ELSE cut
    /\ fd' = [fd EXCEPT ![p] = "none"]
    /\ UNCHANGED <<run, candidate, begun, submitted, recorded, overlap, exported>>

Next ==
    \/ \E p \in Procs, c \in Commands : Start(p, c)
    \/ \E p \in Procs :
        \/ Exists(p) \/ Collect(p) \/ Reproduce(p) \/ Read(p)
        \/ Open(p) \/ Write(p) \/ WriteFails(p) \/ Rename(p) \/ Chmod(p)
        \/ MakeRun(p) \/ WriteManifest(p) \/ WriteReport(p) \/ Unlink(p)
        \/ Load(p) \/ MakeCandidate(p) \/ CopyManifest(p) \/ CopyReport(p)
        \/ Kill(p)

Spec == Init /\ [][Next]_vars

-----------------------------------------------------------------------------
(* Properties *)

Whole(d) == run[d] # NoFile /\ run[d].stage = "whole"

InActive(t, n) == active \in Payload /\ active.trial = t /\ n \in active.notes

InRun(t, n) == \E d \in RunDirs : Whole(d) /\ run[d].trial = t /\ n \in run[d].notes

(***************************************************************************)
(* As long as begin, observe and finish are used one at a time, no note    *)
(* that was acknowledged is lost, wherever a command is killed or a write  *)
(* fails: it is in the active trial or in a complete run of its trial.     *)
(***************************************************************************)
NothingLostAlone ==
    ~overlap => \A r \in recorded : InActive(r[1], r[2]) \/ InRun(r[1], r[2])

(***************************************************************************)
(* Used one at a time, they never leave an active file behind that is no   *)
(* trial, which "begin" would refuse to replace for ever.  (A trial that   *)
(* is too long is refused as well: see TooLongIsKept.)                     *)
(***************************************************************************)
ReadableAlone == ~overlap => active \notin {Empty, Torn}

(***************************************************************************)
(* The size limit is enforced by the readers alone.  A note may be         *)
(* acknowledged that makes the trial too long to be read again: from then  *)
(* on, used one at a time, no command changes or removes the trial, and    *)
(* only the user can (in the file system), so that no note in it is lost.  *)
(***************************************************************************)
TooLong == active \in Payload /\ ~(Cardinality(active.notes) <= Capacity)

TooLongIsKept ==
    [][TooLong /\ ~overlap' => active' = active]_vars

(***************************************************************************)
(* A complete run never changes again, whatever is finished in the same    *)
(* second, reproduced, exported or killed.                                 *)
(***************************************************************************)
RunsAreFinal ==
    [][\A d \in RunDirs : Whole(d) => run'[d] = run[d]]_vars

(***************************************************************************)
(* One trial ends up in two complete runs only if its finish was killed    *)
(* after its report and before it removed the trial, or if commands        *)
(* overlapped.                                                             *)
(***************************************************************************)
TwiceOnlyAfterTrouble ==
    \A d, e \in RunDirs :
        (d # e /\ Whole(d) /\ Whole(e) /\ run[d].trial = run[e].trial)
        => overlap \/ run[d].trial \in halfway \cup {Repro}

(***************************************************************************)
(* What is found in the candidates' directory, however exports of one run  *)
(* race each other, a finish, or a kill.  Only complete runs are exported. *)
(* A candidate that lacks a file is being exported at this moment or had   *)
(* its export cut short; in the second case it never gets the file, since  *)
(* a repeated export is refused.  And a candidate of which an export       *)
(* made both copies has them from then on.                                 *)
(***************************************************************************)
InExport(d) == \E p \in Procs : Copying(p) /\ dir[p] = d

CandidatesAreWhole ==
    \A d \in RunDirs :
        /\ candidate[d] # "none" => Whole(d)
        /\ candidate[d] \in {"begun", "manifest"} => InExport(d) \/ d \in cut
        /\ d \in cut => candidate[d] \in {"begun", "manifest"}
        /\ d \in exported => candidate[d] = "whole"

=============================================================================
