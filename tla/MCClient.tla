------------------------------ MODULE MCClient ------------------------------
(* A small instance of Client: three files, two of them named by nxdl with  *)
(* backslashes, and one that is not required.                               *)
EXTENDS Client, TLC

MCFiles    == {"exe", "broker", "music"}
MCRaw      == {"broker", "music"}
MCRequired == {"exe", "broker"}

Incomplete == [plain |-> {"exe"}, raw |-> {}, link |-> FALSE]
Linked     == [plain |-> MCFiles, raw |-> {}, link |-> TRUE]
Whole      == [plain |-> MCFiles, raw |-> {}, link |-> FALSE]
HalfStage  == [plain |-> {"exe"}, raw |-> {"broker"}, link |-> FALSE]
LinkStage  == [plain |-> {"exe"}, raw |-> {"broker"}, link |-> TRUE]

MCClients == {Absent, Incomplete, Linked, Whole, Empty}
MCStages  == {Absent, HalfStage, LinkStage}
NoStage   == {Absent}
NoClient  == {Absent}

Symmetry == Permutations(Procs)

=============================================================================
