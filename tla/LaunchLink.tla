------------------------------ MODULE LaunchLink ------------------------------
(***************************************************************************)
(* How an authenticated website link becomes a launch request.             *)
(*                                                                         *)
(* A link of the form nexonplug: is a list of pairs, one of the form ngm:  *)
(* a text of fields -name:value or -name:'value' that is read from left to *)
(* right.  A text is a sequence of tokens: the characters the parser tells *)
(* apart, and words, runs of letters, or digits, taken as one.  Percent    *)
(* decoding and the byte limits are left out.                              *)
(***************************************************************************)
EXTENDS Integers, Sequences, FiniteSets, FiniteSetsExt

CONSTANTS
    Links,     \* the links that are parsed
    MaxFields, \* the fields a text may have (64)
    MaxTokens  \* the arguments a request may have (128)

ASSUME LimitsAreNat == MaxFields \in Nat /\ MaxTokens \in Nat

VARIABLES
    link,     \* the link: its scheme with a text or with pairs
    index,    \* where the parser is in the text
    name,     \* the field name it has read
    captured, \* the values of the required fields so far
    count,    \* the fields so far
    pc,       \* what the parser does next, or the verdict
    request   \* the request: the tag of the game and the arguments

vars == <<link, index, name, captured, count, pc, request>>

-----------------------------------------------------------------------------
(* Tokens *)

Digits     == {"2982", "7"}
Letters    == {"mode", "game", "GAME", "passarg", "launch", "x"}
NameChars  == Letters \cup Digits
Marks      == {"-", ":", "'", "space", "tab", "@"}
Tokens     == NameChars \cup Marks
Whitespace == {"space", "tab"}
Required   == {"mode", "game", "passarg"}

None == "none"

NoRequest == [tag |-> <<>>, arguments |-> <<>>]

Lower(word) == IF word = "GAME" THEN "game" ELSE word

(* The field a run of name characters names: "other" if it is not required. *)
FieldName(run) ==
    IF Len(run) = 1 /\ Lower(run[1]) \in Required THEN Lower(run[1]) ELSE "other"

Texts == Seq(Tokens)

(* A link has one of the two schemes: a text, or pairs with a text each. *)
ASSUME LinksAreLinks ==
    \A l \in Links :
        \/ l.scheme = "ngm" /\ l.text \in Texts
        \/ l.scheme = "nexonplug" /\ l.pairs \in Seq([name : STRING, value : Texts])

Position(s, i, stops) ==
    LET P == {j \in i .. Len(s) : s[j] \in stops}
    IN  IF P = {} THEN Len(s) + 1 ELSE Min(P)

(* The arguments: what whitespace separates, empty pieces left out. *)
Arguments(value) ==
    LET Begins == {i \in 1 .. Len(value) :
                     value[i] \notin Whitespace
                     /\ (i = 1 \/ value[i - 1] \in Whitespace)}
        Nth(k) == CHOOSE i \in Begins : Cardinality({j \in Begins : j <= i}) = k
    IN  [k \in 1 .. Cardinality(Begins) |->
            SubSeq(value, Nth(k), Position(value, Nth(k), Whitespace) - 1)]

TypeOK ==
    /\ index \in Nat
    /\ name \in Required \cup {"other", None}
    /\ DOMAIN captured \subseteq Required
    /\ \A n \in DOMAIN captured : captured[n] \in Texts
    /\ count \in 0 .. MaxFields
    /\ pc \in {"start", "field", "dash", "name", "value", "mode", "build",
               "refused", "accepted"}
    /\ request.tag \in Texts
    /\ request.arguments \in Seq(Texts)
    /\ (pc = "accepted") <=> (request.arguments # <<>>)

Init ==
    /\ link \in Links
    /\ index = 1
    /\ name = None
    /\ captured = [n \in {} |-> <<>>]
    /\ count = 0
    /\ pc = "start"
    /\ request = NoRequest

-----------------------------------------------------------------------------
(* Helpers *)

text == link.text

AtEnd == index > Len(text)

GoTo(from, to) == pc = from /\ pc' = to

Refuse(from) ==
    /\ GoTo(from, "refused")
    /\ UNCHANGED <<link, index, name, captured, count, request>>

-----------------------------------------------------------------------------
(* parse_nexonplug_uri *)

ValuesOf(pairs, n) == {i \in DOMAIN pairs : pairs[i].name = n}

Once(pairs, n) == Cardinality(ValuesOf(pairs, n)) = 1

(* The names are compared as they are; the game and the arguments must be   *)
(* given exactly once, everything else is ignored.                          *)
Pairs ==
    /\ pc = "start"
    /\ link.scheme = "nexonplug"
    /\ LET pairs == link.pairs
           Value(n) == pairs[Max(ValuesOf(pairs, n))].value
       IN  IF Once(pairs, "game") /\ Once(pairs, "passarg")
           THEN /\ GoTo("start", "build")
                /\ captured' = [n \in {"game", "passarg"} |-> Value(n)]
                /\ UNCHANGED <<link, index, name, count, request>>
           ELSE Refuse("start")

-----------------------------------------------------------------------------
(* parse_ngm_uri and _parse_ngm_fields *)

Begin ==
    /\ link.scheme = "ngm"
    /\ IF text = <<>>
       THEN Refuse("start")
       ELSE /\ GoTo("start", "field")
            /\ UNCHANGED <<link, index, name, captured, count, request>>

(* Mutant: a separator is looked for, but not passed over. *)
SeparatorStays ==
    /\ ~AtEnd
    /\ IF count > 0 /\ text[index] # "space" THEN Refuse("field")
       ELSE /\ GoTo("field", IF count > 0 THEN "field" ELSE "dash")
            /\ UNCHANGED <<link, index, name, captured, count, request>>

(* Between two fields there is a space, or several. *)
Separator ==
    /\ ~AtEnd
    /\ IF count > 0 /\ text[index] # "space" THEN Refuse("field")
       ELSE /\ GoTo("field", "dash")
            /\ index' = IF count = 0 THEN index
                        ELSE Position(text, index, Tokens \ {"space"})
            /\ UNCHANGED <<link, name, captured, count, request>>

Dash ==
    IF AtEnd \/ text[index] # "-" THEN Refuse("dash")
    ELSE /\ GoTo("dash", "name")
         /\ index' = index + 1
         /\ UNCHANGED <<link, name, captured, count, request>>

(* A letter, then as many letters and digits as there are, then a colon. *)
Name ==
    LET end == Position(text, index, Tokens \ NameChars) IN
    IF AtEnd \/ text[index] \notin Letters \/ end > Len(text) \/ text[end] # ":"
    THEN Refuse("name")
    ELSE /\ GoTo("name", "value")
         /\ name' = FieldName(SubSeq(text, index, end - 1))
         /\ index' = end + 1
         /\ UNCHANGED <<link, captured, count, request>>

(* Where the value begins and ends, and where the parser goes on; a quote   *)
(* that is not closed ends past the text.                                   *)
Quoted == ~AtEnd /\ text[index] = "'"

(* Mutant: a quoted value, too, ends at the first space. *)
ToSpace == [first |-> index, last |-> Position(text, index, {"space"}) - 1,
            next |-> Position(text, index, {"space"})]

Extent ==
    IF Quoted
    THEN LET end == Position(text, index + 1, {"'"})
         IN  [first |-> index + 1, last |-> end - 1, next |-> end + 1]
    ELSE LET end == Position(text, index, {"space"})
         IN  [first |-> index, last |-> end - 1, next |-> end]

Unterminated == Quoted /\ Extent.next > Len(text) + 1

(* Mutant: a repeated field is taken, and replaces the first. *)
NeverRepeated == FALSE

Repeated == name \in DOMAIN captured

(* Mutant: one field too many is let through. *)
TooManyLater == count > MaxFields

TooMany == count + 1 > MaxFields

Value ==
    LET e == Extent
        value == SubSeq(text, e.first, e.last)
    IN
    IF \/ Unterminated
       \/ value = <<>>
       \/ e.next <= Len(text) /\ text[e.next] # "space"
       \/ Repeated
       \/ TooMany
    THEN Refuse("value")
    ELSE /\ GoTo("value", "field")
         /\ captured' = [n \in DOMAIN captured \cup ({name} \cap Required) |->
                            IF n = name THEN value ELSE captured[n]]
         /\ index' = e.next
         /\ count' = count + 1
         /\ name' = None
         /\ UNCHANGED <<link, request>>

FieldsEnd ==
    /\ AtEnd
    /\ GoTo("field", "mode")
    /\ UNCHANGED <<link, index, name, captured, count, request>>

Mode ==
    IF DOMAIN captured = Required /\ captured["mode"] = <<"launch">>
    THEN /\ GoTo("mode", "build")
         /\ UNCHANGED <<link, index, name, captured, count, request>>
    ELSE Refuse("mode")

-----------------------------------------------------------------------------
(* _build_request *)

Code(game) == SubSeq(game, 1, Position(game, 1, {"@"}) - 1)

Tag(game) == SubSeq(game, Position(game, 1, {"@"}) + 1, Len(game))

Build ==
    LET arguments == Arguments(captured["passarg"]) IN
    IF Code(captured["game"]) # <<"2982">> \/ Len(arguments) \notin 1 .. MaxTokens
    THEN Refuse("build")
    ELSE /\ GoTo("build", "accepted")
         /\ request' = [tag |-> Tag(captured["game"]), arguments |-> arguments]
         /\ UNCHANGED <<link, index, name, captured, count>>

Next ==
    \/ Pairs
    \/ Begin
    \/ pc = "field" /\ (Separator \/ FieldsEnd)
    \/ pc = "dash" /\ Dash
    \/ pc = "name" /\ Name
    \/ pc = "value" /\ Value
    \/ pc = "mode" /\ Mode
    \/ pc = "build" /\ Build

(* A function that runs: it takes its next step. *)
Spec == Init /\ [][Next]_vars /\ WF_vars(Next)

-----------------------------------------------------------------------------
(* The form of a link, stated without a parser *)

IsName(s) == s # <<>> /\ s[1] \in Letters /\ \A i \in DOMAIN s : s[i] \in NameChars

IsPlain(v) == v # <<>> /\ v[1] # "'" /\ \A i \in DOMAIN v : v[i] # "space"

IsQuoted(v) ==
    /\ Len(v) > 2 /\ v[1] = "'" /\ v[Len(v)] = "'"
    /\ \A i \in 2 .. Len(v) - 1 : v[i] # "'"

NameOf(f)  == SubSeq(f, 2, Position(f, 1, {":"}) - 1)
Given(f)   == SubSeq(f, Position(f, 1, {":"}) + 1, Len(f))
Meaning(f) == IF IsQuoted(Given(f)) THEN SubSeq(Given(f), 2, Len(Given(f)) - 1)
                                    ELSE Given(f)

IsField(f) ==
    /\ f # <<>> /\ f[1] = "-"
    /\ \E i \in DOMAIN f : f[i] = ":"
    /\ IsName(NameOf(f))
    /\ IsPlain(Given(f)) \/ IsQuoted(Given(f))

(* The piece of s between two starts, without the spaces after it. *)
Piece(s, K, a) ==
    LET b == Min({i \in K : i > a} \cup {Len(s) + 1})
        last == Max({i \in a .. b - 1 : s[i] # "space"})
    IN  SubSeq(s, a, last)

(* The ways to cut s into fields: a field starts at the beginning or after *)
(* a space, every piece is a field, and no space follows the last one.     *)
Cuts(s) ==
    {K \in SUBSET {i \in 1 .. Len(s) : s[i] = "-" /\ (i = 1 \/ s[i - 1] = "space")} :
        /\ 1 \in K
        /\ \A a \in K : IsField(Piece(s, K, a))
        /\ s[Len(s)] # "space"}

Naming(s, K, n) == {a \in K : FieldName(NameOf(Piece(s, K, a))) = n}

(* What a text says when it is cut at K, if it is acceptable. *)
Says(s, K) ==
    [n \in {m \in Required : Naming(s, K, m) # {}} |->
        Meaning(Piece(s, K, CHOOSE a \in Naming(s, K, n) : TRUE))]

Unambiguous(s, K) ==
    /\ Cardinality(K) <= MaxFields
    /\ \A n \in Required : Cardinality(Naming(s, K, n)) <= 1

(* The values a link gives to the required names, for each way to read it. *)
Readings ==
    IF link.scheme = "nexonplug"
    THEN {[n \in {"game", "passarg"} |-> link.pairs[f[n]].value] :
            f \in {g \in [{"game", "passarg"} -> DOMAIN link.pairs] :
                    \A n \in {"game", "passarg"} :
                        \A i \in DOMAIN link.pairs :
                            (link.pairs[i].name = n) <=> (i = g[n])}}
    ELSE {Says(text, K) : K \in {L \in Cuts(text) : Unambiguous(text, L)}}

Asks(said) ==
    /\ {"game", "passarg"} \subseteq DOMAIN said
    /\ link.scheme = "ngm" => "mode" \in DOMAIN said /\ said["mode"] = <<"launch">>
    /\ Code(said["game"]) = <<"2982">>
    /\ Len(Arguments(said["passarg"])) \in 1 .. MaxTokens

-----------------------------------------------------------------------------
(* Properties *)

(***************************************************************************)
(* A link is accepted exactly if it can be read as the launch of one game, *)
(* and the request is what the link says: no quote, repeated field, empty  *)
(* value or stray space makes the parser take another value or another     *)
(* verdict than the form of the link gives.                                *)
(***************************************************************************)
RequestIsTheLinks ==
    /\ pc = "accepted" =>
        \E said \in Readings :
            /\ Asks(said)
            /\ request = [tag |-> Tag(said["game"]),
                          arguments |-> Arguments(said["passarg"])]
    /\ pc = "refused" => \A said \in Readings : ~Asks(said)

(***************************************************************************)
(* No text can be read in two ways: neither a dash inside a value nor a    *)
(* space inside quotes lets a link say two things.  With it, whatever the  *)
(* parser has passed over is a list of complete fields, and what it has    *)
(* captured is what they say, at every turn of its loop.                   *)
(***************************************************************************)
ReadSoFar ==
    (pc = "field" /\ count > 0) =>
        LET s == SubSeq(text, 1, index - 1) IN
        /\ Cardinality(Cuts(s)) = 1
        /\ \A K \in Cuts(s) :
            Cardinality(K) = count /\ Unambiguous(s, K) /\ captured = Says(s, K)

(***************************************************************************)
(* The parser ends on every link, with one verdict: each turn of its loops *)
(* consumes something.                                                     *)
(***************************************************************************)
ParseEnds == <>[](pc \in {"accepted", "refused"})

=============================================================================
