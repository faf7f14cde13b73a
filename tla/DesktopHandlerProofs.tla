------------------------ MODULE DesktopHandlerProofs ------------------------
(***************************************************************************)
(* Proofs about DesktopHandler, for any sets of schemes and programs.      *)
(*                                                                         *)
(* What the user had chosen is in one of three places: still in the        *)
(* handler table, in the memory of the running command, or in the rollback *)
(* file.  The inductive invariant says which of them, at each point of an  *)
(* installation and of an uninstallation.                                  *)
(***************************************************************************)
EXTENDS DesktopHandler, TLAPS

-----------------------------------------------------------------------------

Full == Readable /\ ~Schema1

(* A handler that was chosen is that of a program that is there. *)
ChoicesAreThere == \A s \in Schemes : chosen[s] \in apps \cup {None}

(* A scheme that the rollback file does not know yet is as the user left it. *)
UntouchedUntilRecorded ==
    \A s \in Schemes : (chosen[s] # None /\ ~TakenOver(s)) => handler[s] = chosen[s]

(* What is known of the rollback file where. *)
RecordedWhere ==
    /\ pc \in {"upgrade", "restore", "forget"} => Readable
    /\ pc = "file" => rollback = Absent \/ Full
    /\ pc = "record" => rollback = Absent /\ file
    /\ pc \in {"database", "set", "installed"} => Full /\ file

(* What an installation is about to write down. *)
MemoryIsRight ==
    pc \in {"upgrade", "file", "record"} =>
        \A s \in Schemes : chosen[s] # None => previous[s] = chosen[s]

SetSoFar ==
    /\ pc = "set" => \A s \in Schemes \ todo : handler[s] = Ours
    /\ pc = "installed" => \A s \in Schemes : handler[s] = Ours

RestoredSoFar ==
    /\ pc = "restore" =>
        /\ todo \subseteq DOMAIN rollback.previous
        /\ \A s \in DOMAIN rollback.previous :
            /\ previous[s] = rollback.previous[s]
            /\ (s \notin todo /\ previous[s] # None) => handler[s] = previous[s]
    /\ pc = "forget" => \A s \in Schemes : chosen[s] # None => handler[s] = chosen[s]

(* The project's own handlers are only where the rollback file knows what   *)
(* was there before, or where an uninstallation has left them.              *)
OwnHandlersWhere ==
    /\ \A s \in Schemes :
        handler[s] \in {Ours, Legacy} => s \in keptBack \/ TakenOver(s)
    /\ pc \in {"upgrade", "file", "record"} =>
        \A s \in Schemes : previous[s] \in {Ours, Legacy} => s \in keptBack
    /\ pc = "forget" =>
        \A s \in Schemes : handler[s] \in {Ours, Legacy} =>
            \/ s \in keptBack
            \/ s \in DOMAIN rollback.previous /\ rollback.previous[s] = None

IInv ==
    /\ TypeOK
    /\ ChoicesAreThere
    /\ UntouchedUntilRecorded
    /\ RecordedWhere
    /\ MemoryIsRight
    /\ SetSoFar
    /\ RestoredSoFar
    /\ RollbackKeepsChoice
    /\ OwnHandlersWhere
    /\ OwnHandlerOnlyAfterRemoval

-----------------------------------------------------------------------------

LEMMA Known ==
    ASSUME TypeOK, Readable
    PROVE  /\ rollback \in Rollbacks
           /\ DOMAIN rollback.previous \subseteq Schemes
           /\ \A s \in DOMAIN rollback.previous : rollback.previous[s] \in Names
           /\ Full => DOMAIN rollback.previous = Schemes
<1>1. rollback \in Rollbacks
  BY DEF TypeOK, Readable
<1>2. rollback.previous \in [Schemes -> Names] \/ rollback.previous \in [{First} -> Names]
  BY <1>1 DEF Rollbacks
<1> QED BY <1>1, <1>2, FirstIsAScheme DEF Full, Schema1

LEMMA WrittenRollback ==
    ASSUME TypeOK, rollback' = [legacy |-> FALSE, previous |-> previous]
    PROVE  rollback' \in Rollbacks /\ Full' /\ rollback'.previous = previous
           /\ DOMAIN rollback'.previous = Schemes
<1>1. previous \in [Schemes -> Names] /\ DOMAIN previous = Schemes
  BY DEF TypeOK
<1>2. rollback' \in Rollbacks /\ rollback'.previous = previous
  BY <1>1 DEF Rollbacks
<1> QED BY <1>1, <1>2, NamesDiffer DEF Full, Readable, Schema1

LEMMA InitialState == Init => IInv
<1> SUFFICES ASSUME Init PROVE IInv
  OBVIOUS
<1>1. handler \in [Schemes -> Names] /\ wrapper \in BOOLEAN /\ chosen \in [Schemes -> Names]
  BY DEF Init, Names
<1>2. rollback \in Rollbacks \cup {Absent}
  <2>1. CASE rollback = Absent
    BY <2>1
  <2>2. CASE rollback = [legacy |-> TRUE, previous |-> [s \in {First} |-> chosen[First]]]
    BY <1>1, <2>2, FirstIsAScheme DEF Rollbacks
  <2>3. CASE rollback = [legacy |-> TRUE, previous |-> chosen]
    BY <1>1, <2>3 DEF Rollbacks
  <2> QED BY <2>1, <2>2, <2>3 DEF Init
<1>3. TypeOK
  <2>1. previous \in [Schemes -> Names]
    BY DEF Init, Nothing, Names
  <2> QED BY <1>1, <1>2, <2>1 DEF Init, TypeOK
<1>4. RollbackKeepsChoice /\ UntouchedUntilRecorded
  <2>0. /\ [legacy |-> TRUE, previous |-> [s \in {First} |-> chosen[First]]] \in Rollbacks
        /\ [legacy |-> TRUE, previous |-> chosen] \in Rollbacks
    BY <1>1, FirstIsAScheme DEF Rollbacks
  <2>1. CASE rollback = Absent
    <3>1. handler = chosen
      BY <1>1, <2>1, NamesDiffer, <2>0 DEF Init
    <3> QED BY <2>1, <3>1 DEF RollbackKeepsChoice, UntouchedUntilRecorded, Readable
  <2>2. CASE /\ rollback = [legacy |-> TRUE, previous |-> [s \in {First} |-> chosen[First]]]
             /\ handler = [chosen EXCEPT ![First] = Legacy]
    <3>1. rollback.previous = [s \in {First} |-> chosen[First]] /\ DOMAIN rollback.previous = {First}
      BY <2>2
    <3>2. Readable
      BY <2>0, <2>2, NamesDiffer DEF Readable
    <3> QED BY <1>1, <2>2, <3>1, <3>2, FirstIsAScheme
        DEF RollbackKeepsChoice, UntouchedUntilRecorded, TakenOver
  <2>3. CASE rollback = [legacy |-> TRUE, previous |-> chosen]
    <3>1. rollback.previous = chosen /\ DOMAIN rollback.previous = Schemes
      BY <1>1, <2>3
    <3>2. Readable
      BY <2>0, <2>3, NamesDiffer DEF Readable
    <3> QED BY <1>1, <3>1, <3>2 DEF RollbackKeepsChoice, UntouchedUntilRecorded, TakenOver
  <2> QED BY <2>1, <2>2, <2>3 DEF Init
<1>5. ChoicesAreThere
  BY DEF Init, ChoicesAreThere
<1>6. OwnHandlersWhere /\ OwnHandlerOnlyAfterRemoval
  <2>0. /\ [legacy |-> TRUE, previous |-> [s \in {First} |-> chosen[First]]] \in Rollbacks
        /\ [legacy |-> TRUE, previous |-> chosen] \in Rollbacks
    BY <1>1, FirstIsAScheme DEF Rollbacks
  <2>1. \A s \in Schemes : chosen[s] \notin {Ours, Legacy}
    BY NamesDiffer DEF Init
  <2>2. CASE rollback = Absent
    <3>1. handler = chosen
      BY <1>1, <2>2, NamesDiffer, <2>0 DEF Init
    <3> QED BY <2>1, <2>2, <3>1
        DEF Init, OwnHandlersWhere, OwnHandlerOnlyAfterRemoval, Readable
  <2>3. CASE /\ rollback = [legacy |-> TRUE, previous |-> [s \in {First} |-> chosen[First]]]
             /\ handler = [chosen EXCEPT ![First] = Legacy]
    <3>1. rollback.previous = [s \in {First} |-> chosen[First]] /\ DOMAIN rollback.previous = {First}
      BY <2>3
    <3>2. Readable
      BY <2>0, <2>3, NamesDiffer DEF Readable
    <3> QED BY <1>1, <2>1, <2>3, <3>1, <3>2, FirstIsAScheme
        DEF Init, OwnHandlersWhere, OwnHandlerOnlyAfterRemoval, TakenOver
  <2>4. CASE rollback = [legacy |-> TRUE, previous |-> chosen]
    <3>1. rollback.previous = chosen /\ DOMAIN rollback.previous = Schemes
      BY <1>1, <2>4
    <3>2. Readable
      BY <2>0, <2>4, NamesDiffer DEF Readable
    <3> QED BY <2>1, <3>1, <3>2
        DEF Init, OwnHandlersWhere, OwnHandlerOnlyAfterRemoval, TakenOver
  <2> QED BY <2>2, <2>3, <2>4 DEF Init
<1> QED BY <1>3, <1>4, <1>5, <1>6 DEF Init, IInv, RecordedWhere, MemoryIsRight, SetSoFar, RestoredSoFar

-----------------------------------------------------------------------------
(* install *)

LEMMA BeginInstallKeeps == IInv /\ BeginInstall => IInv'
BY DEF IInv, BeginInstall, Move, TypeOK, ChoicesAreThere, UntouchedUntilRecorded, TakenOver,
       RecordedWhere, MemoryIsRight, SetSoFar, RestoredSoFar, RollbackKeepsChoice,
       OwnHandlersWhere, OwnHandlerOnlyAfterRemoval,
       Full, Readable, Schema1, Installing

(* What was chosen is what the memory gets: the file has the last word, and *)
(* a scheme it does not know is still as the user left it.                  *)
LEMMA DiscoverKeeps == IInv /\ Discover => IInv'
<1> SUFFICES ASSUME IInv, Discover PROVE IInv'
  OBVIOUS
<1> USE DEF IInv
<1>1. CASE pc' = "unreadable" /\ UNCHANGED previous
  BY <1>1 DEF Discover, TypeOK, ChoicesAreThere, UntouchedUntilRecorded, TakenOver,
       RecordedWhere, MemoryIsRight, SetSoFar, RestoredSoFar, RollbackKeepsChoice,
       OwnHandlersWhere, OwnHandlerOnlyAfterRemoval,
       Full, Readable, Schema1, Ended
<1>2. CASE rollback # Torn /\ pc' # "unreadable"
  <2>1. /\ pc' = IF Readable /\ (Schema1 \/ rollback.legacy) THEN "upgrade" ELSE "file"
        /\ \E found \in [Schemes -> Names] :
              /\ \A s \in Schemes : found[s] \in Answers(s)
              /\ previous' = Remembered(found)
    BY <1>2 DEF Discover
  <2>2. PICK found \in [Schemes -> Names] :
              /\ \A s \in Schemes : found[s] \in Answers(s)
              /\ previous' = Remembered(found)
    BY <2>1
  <2>3. previous' \in [Schemes -> Names]
    <3>1. CASE Readable
      BY <2>2, <3>1, Known DEF Remembered
    <3>2. CASE ~Readable
      BY <2>2, <3>2 DEF Remembered
    <3> QED BY <3>1, <3>2
  <2>4. ASSUME NEW s \in Schemes, chosen[s] # None
        PROVE  previous'[s] = chosen[s]
    <3>1. CASE TakenOver(s)
      <4>1. Readable /\ s \in DOMAIN rollback.previous
        BY <1>2, <3>1 DEF TakenOver
      <4> QED BY <2>2, <2>4, <4>1 DEF Remembered, RollbackKeepsChoice
    <3>2. CASE ~TakenOver(s)
      <4>1. handler[s] = chosen[s] /\ chosen[s] \in apps
        BY <2>4, <3>2 DEF UntouchedUntilRecorded, ChoicesAreThere
      <4>2. found[s] = chosen[s]
        BY <2>2, <4>1 DEF Answers, There
      <4> QED BY <2>2, <3>2, <4>2 DEF Remembered, TakenOver
    <3> QED BY <3>1, <3>2
  <2>5. pc' \in {"upgrade", "file"} /\ (pc' = "upgrade" => Readable)
        /\ (pc' = "file" => rollback = Absent \/ Full)
    BY <1>2, <2>1 DEF Full, Readable
  <2>6. UNCHANGED <<handler, apps, file, wrapper, rollback, todo, chosen, keptBack>>
    BY DEF Discover
  <2>7. ASSUME NEW s \in Schemes, previous'[s] \in {Ours, Legacy}
        PROVE  s \in keptBack
    <3>1. CASE TakenOver(s)
      <4>1. Readable /\ s \in DOMAIN rollback.previous
        BY <1>2, <3>1 DEF TakenOver
      <4> QED BY <2>2, <2>7, <4>1 DEF Remembered, OwnHandlerOnlyAfterRemoval
    <3>2. CASE ~TakenOver(s)
      <4>1. previous'[s] = found[s] /\ found[s] \in Answers(s)
        BY <2>2, <3>2 DEF Remembered, TakenOver
      <4>2. handler[s] \in {Ours, Legacy}
        BY <2>7, <4>1, NamesDiffer DEF Answers
      <4> QED BY <3>2, <4>2 DEF OwnHandlersWhere
    <3> QED BY <3>1, <3>2
  <2> QED BY <2>3, <2>4, <2>5, <2>6, <2>7
      DEF TypeOK, ChoicesAreThere, UntouchedUntilRecorded, TakenOver, RecordedWhere,
          MemoryIsRight, SetSoFar, RestoredSoFar, RollbackKeepsChoice,
       OwnHandlersWhere, OwnHandlerOnlyAfterRemoval,
          Full, Readable, Schema1, Installing
<1> QED BY <1>1, <1>2 DEF Discover

(* Writing the rollback file, with or without success. *)
LEMMA WritingKeeps ==
    ASSUME IInv,
           NEW from \in {"upgrade", "record"}, NEW to \in {"file", "database"},
           to = "database" => file,
           WriteRollback(from, to),
           UNCHANGED <<handler, apps, file, wrapper, previous, todo, chosen, keptBack>>
    PROVE  IInv'
<1> USE DEF IInv
<1>0. pc = from /\ pc' \in {to, "failed"}
  BY DEF WriteRollback, Move
<1>1. CASE Move(from, to) /\ rollback' = [legacy |-> FALSE, previous |-> previous]
  <2>1. /\ rollback' \in Rollbacks /\ Full' /\ rollback'.previous = previous
        /\ DOMAIN rollback'.previous = Schemes
    BY <1>1, WrittenRollback
  <2>2. TypeOK'
    BY <1>1, <2>1 DEF TypeOK, Installing, Move
  <2>3. \A s \in Schemes : chosen[s] # None => previous[s] = chosen[s]
    BY <1>0 DEF MemoryIsRight
  <2>4. RollbackKeepsChoice'
    BY <2>1, <2>3 DEF RollbackKeepsChoice
  <2>5. UntouchedUntilRecorded'
    BY <2>1 DEF UntouchedUntilRecorded, TakenOver, Full
  <2>6. MemoryIsRight'
    BY <2>3 DEF MemoryIsRight
  <2>7. \A s \in Schemes : previous[s] \in {Ours, Legacy} => s \in keptBack
    BY <1>0 DEF OwnHandlersWhere
  <2>8. OwnHandlersWhere' /\ OwnHandlerOnlyAfterRemoval'
    BY <1>1, <2>1, <2>7
    DEF Move, OwnHandlersWhere, OwnHandlerOnlyAfterRemoval, TakenOver, Full
  <2> QED BY <1>1, <2>1, <2>2, <2>4, <2>5, <2>6, <2>8
      DEF Move, ChoicesAreThere, RecordedWhere, SetSoFar, RestoredSoFar
<1>2. CASE pc' = "failed" /\ rollback' = rollback
  BY <1>2 DEF TypeOK, ChoicesAreThere, UntouchedUntilRecorded, TakenOver, RecordedWhere,
          MemoryIsRight, SetSoFar, RestoredSoFar, RollbackKeepsChoice,
       OwnHandlersWhere, OwnHandlerOnlyAfterRemoval,
          Full, Readable, Schema1, Ended
<1>3. CASE pc' = "failed" /\ rollback' = Torn
  BY <1>3 DEF TypeOK, ChoicesAreThere, UntouchedUntilRecorded, TakenOver, RecordedWhere,
          MemoryIsRight, SetSoFar, RestoredSoFar, RollbackKeepsChoice, Readable,
          OwnHandlersWhere, OwnHandlerOnlyAfterRemoval, Ended
<1> QED BY <1>1, <1>2, <1>3 DEF WriteRollback

LEMMA UpgradeKeeps == IInv /\ Upgrade => IInv'
BY WritingKeeps DEF Upgrade

LEMMA RecordKeeps == IInv /\ Record => IInv'
<1> SUFFICES ASSUME IInv, Record PROVE IInv'
  OBVIOUS
<1>1. pc = "record"
  BY DEF Record, WriteRollback, Move
<1>2. file
  BY <1>1 DEF IInv, RecordedWhere
<1> QED BY <1>2, WritingKeeps DEF Record

LEMMA WriteFileKeeps == IInv /\ WriteFile => IInv'
<1> SUFFICES ASSUME IInv, WriteFile PROVE IInv'
  OBVIOUS
<1> USE DEF IInv
<1>1. pc = "file" /\ pc' = (IF rollback = Absent THEN "record" ELSE "database") /\ file'
  BY DEF WriteFile, Move
<1>2. rollback = Absent \/ Full
  BY <1>1 DEF RecordedWhere
<1>3. UNCHANGED <<handler, apps, wrapper, rollback, previous, todo, chosen, keptBack>>
  BY DEF WriteFile
<1>4. TypeOK'
  BY <1>1, <1>3 DEF TypeOK, Installing, WriteFile
<1>5. MemoryIsRight'
  BY <1>1, <1>3 DEF MemoryIsRight
<1>6. RecordedWhere'
  BY <1>1, <1>2, <1>3 DEF RecordedWhere, Full, Readable, Schema1
<1>7. OwnHandlersWhere' /\ OwnHandlerOnlyAfterRemoval'
  BY <1>1, <1>3 DEF OwnHandlersWhere, OwnHandlerOnlyAfterRemoval, TakenOver, Readable
<1> QED BY <1>1, <1>3, <1>4, <1>5, <1>6, <1>7
    DEF ChoicesAreThere, UntouchedUntilRecorded, TakenOver, SetSoFar, RestoredSoFar,
        RollbackKeepsChoice, Readable

LEMMA UpdateDatabaseKeeps == IInv /\ UpdateDatabase => IInv'
BY DEF IInv, UpdateDatabase, Move, TypeOK, ChoicesAreThere, UntouchedUntilRecorded, TakenOver,
       RecordedWhere, MemoryIsRight, SetSoFar, RestoredSoFar, RollbackKeepsChoice,
       OwnHandlersWhere, OwnHandlerOnlyAfterRemoval,
       Full, Readable, Schema1, Installing

(* Every scheme is in the rollback file before one is set. *)
LEMMA SetKeeps == ASSUME IInv, NEW s \in Schemes, Set(s) PROVE IInv'
<1> USE DEF IInv
<1>1. pc = "set" /\ s \in todo /\ todo' = todo \ {s}
      /\ UNCHANGED <<apps, file, wrapper, rollback, previous, chosen, keptBack>>
  BY DEF Set
<1>2. Full /\ file /\ DOMAIN rollback.previous = Schemes
  BY <1>1, Known DEF RecordedWhere, Full
<1>3. /\ pc' \in {"failed", "set", "installed"}
      /\ pc' # "failed" => handler'[s] = Ours
      /\ pc' = "installed" => todo = {s}
  BY NamesDiffer DEF Set, Answers
<1>4. handler' \in [Schemes -> Names] /\ \A t \in Schemes \ {s} : handler'[t] = handler[t]
  BY DEF Set, Store, TypeOK, Names
<1>5. TypeOK'
  BY <1>1, <1>3, <1>4 DEF TypeOK, Installing, Ended
<1>6. SetSoFar'
  BY <1>1, <1>3, <1>4 DEF SetSoFar
<1>7. UntouchedUntilRecorded' /\ RecordedWhere'
  BY <1>1, <1>2, <1>3
  DEF UntouchedUntilRecorded, RecordedWhere, TakenOver, Full, Readable, Schema1
<1>8. OwnHandlersWhere' /\ OwnHandlerOnlyAfterRemoval'
  BY <1>1, <1>2, <1>3
  DEF OwnHandlersWhere, OwnHandlerOnlyAfterRemoval, TakenOver, Full, Readable
<1> QED BY <1>1, <1>3, <1>5, <1>6, <1>7, <1>8
    DEF ChoicesAreThere, MemoryIsRight, RestoredSoFar, RollbackKeepsChoice, Readable,
          OwnHandlersWhere, OwnHandlerOnlyAfterRemoval

-----------------------------------------------------------------------------
(* uninstall *)

LEMMA BeginUninstallKeeps == IInv /\ BeginUninstall => IInv'
BY DEF IInv, BeginUninstall, Move, TypeOK, ChoicesAreThere, UntouchedUntilRecorded, TakenOver,
       RecordedWhere, MemoryIsRight, SetSoFar, RestoredSoFar, RollbackKeepsChoice,
       OwnHandlersWhere, OwnHandlerOnlyAfterRemoval,
       Full, Readable, Schema1, Removing

LEMMA ReadKeeps == IInv /\ Read => IInv'
<1> SUFFICES ASSUME IInv, Read PROVE IInv'
  OBVIOUS
<1> USE DEF IInv
<1>0. UNCHANGED <<handler, apps, file, wrapper, rollback, chosen, keptBack>>
  BY DEF Read
<1>1. CASE Readable
  <2>1. /\ pc' = "restore" /\ todo' = Restorable(rollback)
        /\ previous' = [s \in Schemes |-> IF s \in DOMAIN rollback.previous
                                          THEN rollback.previous[s] ELSE None]
    BY <1>1 DEF Read, Move
  <2>2. todo' \subseteq DOMAIN rollback.previous /\ todo' \subseteq Schemes
    BY <1>1, <2>1, Known DEF Restorable
  <2>3. previous' \in [Schemes -> Names]
    BY <1>1, <2>1, Known DEF Names
  <2>4. TypeOK'
    BY <1>0, <2>1, <2>2, <2>3 DEF TypeOK, Removing
  <2>5. RestoredSoFar'
    BY <1>0, <1>1, <2>1, <2>2, Known DEF RestoredSoFar, Restorable
  <2>6. OwnHandlersWhere' /\ OwnHandlerOnlyAfterRemoval'
    BY <1>0, <2>1 DEF OwnHandlersWhere, OwnHandlerOnlyAfterRemoval, TakenOver, Readable
  <2> QED BY <1>0, <1>1, <2>1, <2>4, <2>5, <2>6
      DEF ChoicesAreThere, UntouchedUntilRecorded, TakenOver, RecordedWhere,
          MemoryIsRight, SetSoFar, RollbackKeepsChoice, Readable
<1>2. CASE ~Readable
  <2>1. pc' \in {"refused", "unreadable"} /\ UNCHANGED <<previous, todo>>
    BY <1>2 DEF Read, Move
  <2> QED BY <1>0, <2>1
      DEF TypeOK, ChoicesAreThere, UntouchedUntilRecorded, TakenOver, RecordedWhere,
          MemoryIsRight, SetSoFar, RestoredSoFar, RollbackKeepsChoice, Readable,
          OwnHandlersWhere, OwnHandlerOnlyAfterRemoval, Ended
<1> QED BY <1>1, <1>2

(* Only schemes that the rollback file knows are given back. *)
LEMMA RestoreKeeps == ASSUME IInv, NEW s \in Schemes, Restore(s) PROVE IInv'
<1> USE DEF IInv
<1>1. /\ pc = "restore" /\ s \in todo /\ todo' = todo \ {s}
      /\ UNCHANGED <<apps, file, wrapper, rollback, previous, chosen, keptBack>>
      /\ pc' \in {"restore", "failed"}
      /\ (pc' = "restore" /\ previous[s] # None) => handler'[s] = previous[s]
  BY DEF Restore, Answers
<1>2. Readable /\ s \in DOMAIN rollback.previous
  BY <1>1 DEF RecordedWhere, RestoredSoFar
<1>3. handler' \in [Schemes -> Names] /\ \A t \in Schemes \ {s} : handler'[t] = handler[t]
  BY DEF Restore, Store, TypeOK
<1>4. TypeOK'
  BY <1>1, <1>3 DEF TypeOK, Removing, Ended
<1>5. UntouchedUntilRecorded'
  BY <1>1, <1>2, <1>3 DEF UntouchedUntilRecorded, TakenOver, Readable
<1>6. RestoredSoFar'
  BY <1>1, <1>2, <1>3, Known DEF RestoredSoFar
<1>7. OwnHandlersWhere' /\ OwnHandlerOnlyAfterRemoval'
  BY <1>1, <1>2, <1>3
  DEF OwnHandlersWhere, OwnHandlerOnlyAfterRemoval, TakenOver, Readable
<1> QED BY <1>1, <1>2, <1>4, <1>5, <1>6, <1>7
    DEF ChoicesAreThere, RecordedWhere, MemoryIsRight, SetSoFar, RollbackKeepsChoice, Readable

LEMMA UnlinkKeeps == IInv /\ Unlink => IInv'
<1> SUFFICES ASSUME IInv, Unlink PROVE IInv'
  OBVIOUS
<1> USE DEF IInv
<1>1. pc = "restore" /\ pc' = "forget" /\ todo = {} /\ file' = FALSE
      /\ UNCHANGED <<handler, apps, wrapper, rollback, previous, todo, chosen, keptBack>>
  BY DEF Unlink, Move
<1>2. Readable
  BY <1>1 DEF RecordedWhere
<1>3. ASSUME NEW s \in Schemes, chosen[s] # None PROVE handler[s] = chosen[s]
  <2>1. CASE s \in DOMAIN rollback.previous
    <3>1. rollback.previous[s] = chosen[s]
      BY <1>2, <1>3, <2>1 DEF RollbackKeepsChoice
    <3> QED BY <1>1, <1>3, <2>1, <3>1 DEF RestoredSoFar
  <2>2. CASE s \notin DOMAIN rollback.previous
    BY <1>2, <1>3, <2>2 DEF UntouchedUntilRecorded, TakenOver, Readable
  <2> QED BY <2>1, <2>2
<1>4. RestoredSoFar'
  BY <1>1, <1>3 DEF RestoredSoFar
<1>5. ASSUME NEW s \in Schemes, handler[s] \in {Ours, Legacy}
      PROVE  s \in keptBack
             \/ (s \in DOMAIN rollback.previous /\ rollback.previous[s] = None)
  <2>1. CASE s \in DOMAIN rollback.previous /\ rollback.previous[s] # None
    <3>1. rollback.previous[s] = handler[s]
      BY <1>1, <2>1 DEF RestoredSoFar
    <3> QED BY <1>2, <1>5, <2>1, <3>1 DEF OwnHandlerOnlyAfterRemoval
  <2>2. CASE s \notin DOMAIN rollback.previous
    BY <1>2, <1>5, <2>2 DEF OwnHandlersWhere, TakenOver, Readable
  <2> QED BY <2>1, <2>2
<1>6. OwnHandlersWhere' /\ OwnHandlerOnlyAfterRemoval'
  BY <1>1, <1>5 DEF OwnHandlersWhere, OwnHandlerOnlyAfterRemoval, TakenOver, Readable
<1> QED BY <1>1, <1>2, <1>4, <1>6
    DEF TypeOK, Removing, ChoicesAreThere, UntouchedUntilRecorded, TakenOver, RecordedWhere,
        MemoryIsRight, SetSoFar, RollbackKeepsChoice, Readable

LEMMA ForgetKeeps == IInv /\ Forget => IInv'
<1> SUFFICES ASSUME IInv, Forget PROVE IInv'
  OBVIOUS
<1>1. /\ pc = "forget" /\ pc' = "refresh" /\ rollback' = Absent
      /\ keptBack' = keptBack \cup {s \in DOMAIN rollback.previous : rollback.previous[s] = None}
      /\ UNCHANGED <<handler, apps, file, wrapper, previous, todo, chosen>>
  BY DEF Forget, Move
<1>2. \A s \in Schemes : handler'[s] \in {Ours, Legacy} => s \in keptBack'
  BY <1>1 DEF IInv, OwnHandlersWhere
<1>3. OwnHandlersWhere' /\ OwnHandlerOnlyAfterRemoval'
  BY <1>1, <1>2 DEF OwnHandlersWhere, OwnHandlerOnlyAfterRemoval, Readable
<1>4. TypeOK'
  <2>1. keptBack' \subseteq Schemes
    <3>1. CASE Readable
      BY <1>1, <3>1, Known DEF IInv, TypeOK
    <3>2. CASE ~Readable
      BY <1>1, <3>2 DEF IInv, RecordedWhere
    <3> QED BY <3>1, <3>2
  <2> QED BY <1>1, <2>1 DEF IInv, TypeOK, Removing
<1> QED BY <1>1, <1>3, <1>4 DEF IInv, Forget, Move, TypeOK, ChoicesAreThere, UntouchedUntilRecorded,
       RecordedWhere, MemoryIsRight, SetSoFar, RestoredSoFar, RollbackKeepsChoice,
       OwnHandlersWhere, OwnHandlerOnlyAfterRemoval,
       Readable, Removing

LEMMA UnwrapKeeps == IInv /\ Unwrap => IInv'
BY DEF IInv, Unwrap, Move, TypeOK, ChoicesAreThere, UntouchedUntilRecorded, TakenOver,
       RecordedWhere, MemoryIsRight, SetSoFar, RestoredSoFar, RollbackKeepsChoice,
       OwnHandlersWhere, OwnHandlerOnlyAfterRemoval,
       Full, Readable, Schema1, Ended

-----------------------------------------------------------------------------
(* Failures, and the user *)

LEMMA FailOrEndKeeps == IInv /\ (Fail \/ End) => IInv'
<1>1. IInv /\ Fail => IInv'
  BY DEF IInv, Fail, TypeOK, ChoicesAreThere, UntouchedUntilRecorded, TakenOver,
         RecordedWhere, MemoryIsRight, SetSoFar, RestoredSoFar, RollbackKeepsChoice,
       OwnHandlersWhere, OwnHandlerOnlyAfterRemoval,
         Full, Readable, Schema1, Ended
<1>2. Nothing \in [Schemes -> Names]
  BY DEF Nothing, Names
<1>3. IInv /\ End => IInv'
  BY <1>2 DEF IInv, End, TypeOK, ChoicesAreThere, UntouchedUntilRecorded, TakenOver,
         RecordedWhere, MemoryIsRight, SetSoFar, RestoredSoFar, RollbackKeepsChoice,
       OwnHandlersWhere, OwnHandlerOnlyAfterRemoval,
         Full, Readable, Schema1
<1> QED BY <1>1, <1>3

LEMMA UserChoosesKeeps == ASSUME IInv, NEW s \in Schemes, UserChooses(s) PROVE IInv'
<1> USE DEF IInv
<1>1. pc = "idle" /\ UNCHANGED <<apps, file, wrapper, rollback, pc, previous, todo, keptBack>>
  BY DEF UserChooses
<1>2. PICK a \in apps :
          /\ handler' = [handler EXCEPT ![s] = a]
          /\ chosen' = IF TakenOver(s) THEN chosen ELSE [chosen EXCEPT ![s] = a]
  BY DEF UserChooses
<1>3. a \in Apps /\ a \in Names
  BY DEF TypeOK, Names
<1>4. TypeOK'
  BY <1>1, <1>2, <1>3 DEF TypeOK
<1>5. ChoicesAreThere'
  BY <1>1, <1>2 DEF ChoicesAreThere, TypeOK
<1>6. UntouchedUntilRecorded'
  BY <1>1, <1>2 DEF UntouchedUntilRecorded, TakenOver, Readable, TypeOK
<1>7. RollbackKeepsChoice'
  BY <1>1, <1>2, Known DEF RollbackKeepsChoice, TakenOver, Readable, TypeOK
<1>8. OwnHandlersWhere' /\ OwnHandlerOnlyAfterRemoval'
  BY <1>1, <1>2, <1>3, NamesDiffer
  DEF OwnHandlersWhere, OwnHandlerOnlyAfterRemoval, TakenOver, Readable, TypeOK
<1> QED BY <1>1, <1>4, <1>5, <1>6, <1>7, <1>8
    DEF RecordedWhere, MemoryIsRight, SetSoFar, RestoredSoFar

LEMMA UserRemovesKeeps == ASSUME IInv, NEW a \in Apps, UserRemoves(a) PROVE IInv'
<1> USE DEF IInv
<1>1. /\ pc = "idle" /\ apps' = apps \ {a}
      /\ chosen' = [s \in Schemes |-> IF chosen[s] = a THEN None ELSE chosen[s]]
      /\ UNCHANGED <<handler, file, wrapper, rollback, pc, previous, todo, keptBack>>
  BY DEF UserRemoves
<1>2. TypeOK'
  BY <1>1 DEF TypeOK
<1>3. ChoicesAreThere'
  BY <1>1 DEF ChoicesAreThere
<1>4. UntouchedUntilRecorded'
  BY <1>1 DEF UntouchedUntilRecorded, TakenOver, Readable
<1>5. RollbackKeepsChoice'
  <2>1. Readable => DOMAIN rollback.previous \subseteq Schemes
    BY Known
  <2> QED BY <1>1, <2>1 DEF RollbackKeepsChoice, Readable
<1>6. OwnHandlersWhere' /\ OwnHandlerOnlyAfterRemoval'
  BY <1>1 DEF OwnHandlersWhere, OwnHandlerOnlyAfterRemoval, TakenOver, Readable
<1> QED BY <1>1, <1>2, <1>3, <1>4, <1>5, <1>6
    DEF RecordedWhere, MemoryIsRight, SetSoFar, RestoredSoFar

-----------------------------------------------------------------------------

(***************************************************************************)
(* The choice of the user for a scheme is never lost between the handler   *)
(* table, the memory of a command and the rollback file, whatever fails    *)
(* and is run again.                                                       *)
(***************************************************************************)
THEOREM Invariance == Spec => []IInv
<1>1. ASSUME IInv, [Next]_vars PROVE IInv'
  <2>1. CASE Next
    <3>1. CASE \E s \in Schemes : Set(s) \/ Restore(s) \/ UserChooses(s)
      BY <1>1, <3>1, SetKeeps, RestoreKeeps, UserChoosesKeeps
    <3>2. CASE \E a \in Apps : UserRemoves(a)
      BY <1>1, <3>2, UserRemovesKeeps
    <3>3. CASE \/ BeginInstall \/ Discover \/ Upgrade \/ WriteFile \/ Record
               \/ UpdateDatabase
      BY <1>1, <3>3, BeginInstallKeeps, DiscoverKeeps, UpgradeKeeps, WriteFileKeeps,
         RecordKeeps, UpdateDatabaseKeeps
    <3>4. CASE BeginUninstall \/ Read \/ Unlink \/ Forget \/ Unwrap \/ Fail \/ End
      BY <1>1, <3>4, BeginUninstallKeeps, ReadKeeps, UnlinkKeeps, ForgetKeeps,
         UnwrapKeeps, FailOrEndKeeps
    <3> QED BY <2>1, <3>1, <3>2, <3>3, <3>4 DEF Next
  <2>2. CASE UNCHANGED vars
    BY <1>1, <2>2
    DEF vars, IInv, TypeOK, ChoicesAreThere, UntouchedUntilRecorded, TakenOver,
        RecordedWhere, MemoryIsRight, SetSoFar, RestoredSoFar, RollbackKeepsChoice,
       OwnHandlersWhere, OwnHandlerOnlyAfterRemoval,
        Full, Readable, Schema1
  <2> QED BY <1>1, <2>1, <2>2
<1> QED BY InitialState, <1>1, PTL DEF Spec

(***************************************************************************)
(* Every variable keeps its type.                                          *)
(***************************************************************************)
THEOREM TypeCorrect == Spec => []TypeOK
BY Invariance, PTL DEF IInv

(***************************************************************************)
(* What handler-rollback.json remembers for a scheme is the program that   *)
(* the user had chosen for it, when there is one and it is still there.    *)
(***************************************************************************)
THEOREM ChoicesAreRemembered == Spec => []RollbackKeepsChoice
BY Invariance, PTL DEF IInv

(***************************************************************************)
(* The project's own handlers are written down as the ones to go back to   *)
(* only for schemes that an uninstallation has left without giving back.   *)
(***************************************************************************)
THEOREM OwnHandlersAreNotRecorded == Spec => []OwnHandlerOnlyAfterRemoval
BY Invariance, PTL DEF IInv

(***************************************************************************)
(* An installation that reports success has every scheme, and an           *)
(* uninstallation can read its rollback file.                              *)
(***************************************************************************)
THEOREM SuccessIsReal == Spec => []InstalledMeansRegistered
<1>1. IInv => InstalledMeansRegistered
  BY DEF IInv, InstalledMeansRegistered, SetSoFar, RecordedWhere, Full
<1> QED BY Invariance, <1>1, PTL

(***************************************************************************)
(* The rollback file goes only when every scheme is back at the program    *)
(* the user had chosen, when there is one and it is still there.           *)
(***************************************************************************)
THEOREM NothingIsForgotten == Spec => RestoredBeforeForgotten
<1> DEFINE Away == rollback # Absent /\ rollback' = Absent
           Back == \A s \in Schemes : chosen[s] # None => handler[s] = chosen[s]
<1>1. ASSUME IInv, [Next]_vars, Away PROVE Back
  <2>1. CASE Forget
    BY <1>1, <2>1 DEF Forget, Move, IInv, RestoredSoFar
  <2>2. CASE ~Forget
    <3>1. Next
      BY <1>1 DEF vars
    <3>2. CASE Upgrade \/ Record
      <4>1. rollback' = [legacy |-> FALSE, previous |-> previous] \/ rollback' = Torn
        BY <1>1, <3>2 DEF Upgrade, Record, WriteRollback
      <4>2. CASE rollback' = Torn
        BY <1>1, <4>2, NamesDiffer
      <4>3. CASE rollback' = [legacy |-> FALSE, previous |-> previous]
        BY <1>1, <4>3, WrittenRollback DEF IInv, Full, Readable
      <4> QED BY <4>1, <4>2, <4>3
    <3>3. CASE ~(Upgrade \/ Record)
      BY <1>1, <2>2, <3>1, <3>3
      DEF Next, BeginInstall, Discover, WriteFile, UpdateDatabase, BeginUninstall, Read,
          Unlink, Unwrap, Set, Restore, UserChooses, UserRemoves, Fail, End
    <3> QED BY <3>2, <3>3
  <2> QED BY <2>1, <2>2
<1>2. IInv /\ [Next]_vars => [Away => Back]_vars
  BY <1>1
<1> QED BY Invariance, <1>2, PTL DEF Spec, RestoredBeforeForgotten

=============================================================================
