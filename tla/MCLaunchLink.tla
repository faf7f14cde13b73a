---------------------------- MODULE MCLaunchLink ----------------------------
(***************************************************************************)
(* Instances of LaunchLink: every text of up to five tokens of six kinds,  *)
(* every text of up to six chunks of five kinds, every list of up to four  *)
(* whole fields, or five if the last is a plain one, and every list of up  *)
(* to three pairs.                                                         *)
(***************************************************************************)
EXTENDS LaunchLink, SequencesExt

Tiny == UNION {[1 .. n -> {"-", ":", "'", "space", "x", "game"}] : n \in 0 .. 5}

Chunks == {<<"-", "game", ":">>, <<"-", "x", "7", ":">>, <<"x">>, <<"'">>, <<"space">>}

Fields == {<<"-", "mode", ":", "launch">>, <<"-", "mode", ":", "'", "x", "'">>,
           <<"-", "game", ":", "2982">>, <<"-", "GAME", ":", "2982", "@", "x">>,
           <<"-", "passarg", ":", "'", "x", "space", "-", "game", ":", "7", "'">>,
           <<"-", "passarg", ":", "x", "tab", "7">>, <<"-", "x", ":", "'", "tab", "'">>,
           <<"-", "passarg", ":", "'", "space", "'">>}

Plain  == {<<"2982">>, <<"2982", "@">>, <<"2982", "@", "x">>, <<"x", "tab", "space", "7">>,
           <<"x", "space", "x", "tab", "x">>, <<"space">>, <<>>}

Pair   == {a \o b : a, b \in Chunks \cup {<<>>}}
Short  == {a \o b \o c : a, b, c \in Pair}

Spaced == {f \o <<"space">> : f \in Fields}
Two    == Fields \cup {f \o g : f \in Spaced, g \in Fields}
Four   == Two \cup {f \o <<"space", "space">> \o g : f, g \in Two}
Five   == {f \o <<"space", "-", "x", ":", "x">> : f \in Four}

NgmLinks == {[scheme |-> "ngm", text |-> s] : s \in Tiny \cup Short \cup Four \cup Five}

PlugLinks ==
    {[scheme |-> "nexonplug", pairs |-> s] :
        s \in SeqOf([name : {"game", "GAME", "passarg"}, value : Plain], 3)}

AllLinks == NgmLinks \cup PlugLinks

=============================================================================
