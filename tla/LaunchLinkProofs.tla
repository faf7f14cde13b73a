-------------------------- MODULE LaunchLinkProofs --------------------------
(***************************************************************************)
(* Proofs about LaunchLink, for links with texts and pairs of any length,  *)
(* and any limits.                                                         *)
(*                                                                         *)
(* The inductive invariant says that what the parser has passed over is    *)
(* cut into fields in the one way it can be, and that these fields say     *)
(* what it has captured.  A refusal is justified the other way round: if   *)
(* the whole text had a reading, its cut would go on with a field where    *)
(* the parser is, so that the parser would have found it.                  *)
(***************************************************************************)
EXTENDS LaunchTextProofs

-----------------------------------------------------------------------------
(* Types *)

Parsing == {"field", "dash", "name", "value", "mode"}

TypeInv ==
    /\ TypeOK
    /\ link \in Links
    /\ pc \in Parsing => link.scheme = "ngm"
    /\ link.scheme = "ngm" => index \in 1 .. Len(text) + 1
    /\ pc = "build" => {"game", "passarg"} \subseteq DOMAIN captured

LEMMA LinkFact ==
    ASSUME link \in Links
    PROVE  /\ link.scheme = "ngm" => text \in Texts /\ Len(text) \in Nat
           /\ link.scheme # "ngm" =>
                  /\ link.scheme = "nexonplug"
                  /\ link.pairs \in Seq([name : STRING, value : Texts])
<1>1. \/ link.scheme = "ngm" /\ link.text \in Texts
      \/ link.scheme = "nexonplug" /\ link.pairs \in Seq([name : STRING, value : Texts])
  BY LinksAreLinks
<1>2. \A s \in Texts : Len(s) \in Nat
  BY DEF Texts
<1>3. CASE link.scheme = "ngm" /\ link.text \in Texts
  BY <1>2, <1>3 DEF text
<1>4. CASE link.scheme = "nexonplug"
           /\ link.pairs \in Seq([name : STRING, value : Texts])
  BY <1>4
<1> QED
  BY <1>1, <1>3, <1>4

LEMMA FieldNameFact == \A run : FieldName(run) \in Required \cup {"other"}
BY DEF FieldName

(***************************************************************************)
(* The tag of a game is a text.                                            *)
(***************************************************************************)
LEMMA TagIsText ==
    ASSUME NEW game \in Texts PROVE Tag(game) \in Texts
<1>1. Len(game) \in Nat
  BY DEF Texts
<1> DEFINE p == Position(game, 1, {"@"})
<1>2. p \in 1 .. Len(game) + 1
  <2>1. 1 \in 1 .. Len(game) + 1
    BY <1>1
  <2> QED
    BY <2>1, PositionFact
<1> HIDE DEF p
<1>3. SubSeq(game, p + 1, Len(game)) \in Texts
  <2>1. CASE p <= Len(game)
    <3>1. p + 1 \in 1 .. Len(game) + 1 /\ Len(game) \in (p + 1) - 1 .. Len(game)
      BY <1>1, <1>2, <2>1
    <3> QED
      BY <3>1, PartFact
  <2>2. CASE p > Len(game)
    <3>1. SubSeq(game, p + 1, Len(game)) = <<>>
      BY <1>1, <1>2, <2>2, SubSeqEmpty
    <3> QED
      BY <3>1, EmptySeq DEF Texts
  <2> QED
    BY <1>1, <1>2, <2>1, <2>2
<1> QED
  BY <1>3 DEF Tag, p

(***************************************************************************)
(* The value that is taken is a part of the text, and the parser goes on   *)
(* right after it or at the end.                                           *)
(***************************************************************************)
LEMMA ExtentFact ==
    ASSUME text \in Texts, index \in 1 .. Len(text) + 1, ~ Unterminated
    PROVE  LET e == Extent IN
           /\ e.first \in 1 .. Len(text) + 1
           /\ e.last \in e.first - 1 .. Len(text)
           /\ e.next \in index .. Len(text) + 1
           /\ SubSeq(text, e.first, e.last) \in Texts
<1> DEFINE n == Len(text)
           e == Extent
<1>1. n \in Nat
  BY DEF Texts
<1>2. /\ e.first \in 1 .. n + 1 /\ e.last \in e.first - 1 .. n
      /\ e.next \in index .. n + 1
  <2>1. CASE Quoted
    <3> DEFINE p == Position(text, index + 1, {"'"})
    <3>1. index + 1 \in 1 .. n + 1
      BY <1>1, <2>1 DEF Quoted, AtEnd
    <3>2. p \in index + 1 .. n + 1
      BY <3>1, PositionFact
    <3>3. e.first = index + 1 /\ e.last = p - 1 /\ e.next = p + 1
      BY <2>1 DEF Extent
    <3> HIDE DEF p, e
    <3>4. p + 1 <= n + 1
      BY <1>1, <2>1, <3>1, <3>2, <3>3 DEF Unterminated, e
    <3> QED
      BY <1>1, <3>1, <3>2, <3>3, <3>4
  <2>2. CASE ~ Quoted
    <3> DEFINE p == Position(text, index, {"space"})
    <3>1. p \in index .. n + 1
      BY PositionFact
    <3>2. e.first = index /\ e.last = p - 1 /\ e.next = p
      BY <2>2 DEF Extent
    <3> HIDE DEF p, e
    <3> QED
      BY <1>1, <3>1, <3>2
  <2> QED
    BY <2>1, <2>2
<1> HIDE DEF e
<1>3. SubSeq(text, e.first, e.last) \in Texts
  BY <1>2, PartFact
<1> QED
  BY <1>2, <1>3 DEF e

(***************************************************************************)
(* The values of pairs are texts, and a name given once is given by one    *)
(* pair, whose value is taken.                                             *)
(***************************************************************************)
LEMMA OnceFact ==
    ASSUME NEW pairs, pairs \in Seq([name : STRING, value : Texts]), NEW n
    PROVE  /\ Once(pairs, n) =>
                  /\ Max(ValuesOf(pairs, n)) \in DOMAIN pairs
                  /\ ValuesOf(pairs, n) = {Max(ValuesOf(pairs, n))}
           /\ (\E i : ValuesOf(pairs, n) = {i}) => Once(pairs, n)
           /\ \A i \in DOMAIN pairs : pairs[i].value \in Texts
<1> DEFINE V == ValuesOf(pairs, n)
<1>1. Len(pairs) \in Nat /\ DOMAIN pairs = 1 .. Len(pairs)
      /\ \A i \in DOMAIN pairs : pairs[i].value \in Texts
  <2>1. Len(pairs) \in Nat /\ DOMAIN pairs = 1 .. Len(pairs)
    BY LenProperties
  <2>2. ASSUME NEW i \in DOMAIN pairs PROVE pairs[i].value \in Texts
    <3>1. pairs[i] \in [name : STRING, value : Texts]
      BY <2>1, ElementOfSeq
    <3> QED
      BY <3>1
  <2> QED
    BY <2>1, <2>2
<1>2. V \subseteq 1 .. Len(pairs)
  BY <1>1 DEF ValuesOf
<1>3. IsFiniteSet(V)
  <2>1. IsFiniteSet(1 .. Len(pairs))
    BY <1>1, FS_Interval
  <2> QED
    BY <1>2, <2>1, FS_Subset
<1> HIDE DEF V
<1>4. ASSUME Cardinality(V) = 1 PROVE Max(V) \in DOMAIN pairs /\ V = {Max(V)}
  <2>1. PICK i : V = {i}
    BY <1>3, <1>4, FS_Singleton
  <2>2. i \in 1 .. Len(pairs) /\ i <= i
    BY <1>1, <1>2, <2>1
  <2>3. Max(V) = i
    BY <2>1, <2>2 DEF Max
  <2> QED
    BY <1>1, <2>1, <2>2, <2>3
<1>5. (\E i : V = {i}) => Cardinality(V) = 1
  BY FS_Singleton
<1> QED
  BY <1>1, <1>4, <1>5 DEF Once, V

(***************************************************************************)
(* Type correctness of the parser: it stays in the text, what it captures  *)
(* and requests is made of texts, and a request has arguments exactly when *)
(* the link is accepted.                                                   *)
(***************************************************************************)
LEMMA TypeInit == Init => TypeInv
<1> SUFFICES ASSUME Init PROVE TypeInv
  OBVIOUS
<1>1. link.scheme = "ngm" => Len(text) \in Nat
  BY LinkFact DEF Init
<1>2. <<>> \in Texts /\ <<>> \in Seq(Texts)
  BY EmptySeq DEF Texts
<1>3. request.tag \in Texts /\ request.arguments = <<>>
  BY <1>2 DEF Init, NoRequest
<1>4. DOMAIN captured = {}
  BY DEF Init
<1>5. TypeOK
  BY <1>2, <1>3, <1>4, LimitsAreNat DEF Init, TypeOK, None
<1> QED
  BY <1>1, <1>5 DEF Init, TypeInv, Parsing

LEMMA TypeRefuse ==
    ASSUME TypeInv, NEW from, from # "accepted", Refuse(from)
    PROVE  TypeInv'
<1>1. /\ link' = link /\ index' = index /\ name' = name /\ captured' = captured
      /\ count' = count /\ request' = request /\ pc # "accepted" /\ pc' = "refused"
  BY DEF Refuse, GoTo
<1>2. text' = text
  BY <1>1 DEF text
<1>3. TypeOK'
  BY <1>1 DEF TypeInv, TypeOK
<1> QED
  BY <1>1, <1>2, <1>3 DEF TypeInv, Parsing

LEMMA TypePairs == ASSUME TypeInv, Pairs PROVE TypeInv'
<1> DEFINE pairs == link.pairs
           V(n) == pairs[Max(ValuesOf(pairs, n))].value
           given == Once(pairs, "game") /\ Once(pairs, "passarg")
<1>1. CASE ~ given
  <2>1. Refuse("start")
    BY <1>1 DEF Pairs
  <2> QED
    BY <2>1, TypeRefuse
<1>2. CASE given
  <2>1. /\ pc = "start" /\ pc' = "build" /\ link.scheme = "nexonplug"
        /\ captured' = [n \in {"game", "passarg"} |-> V(n)]
        /\ link' = link /\ index' = index /\ name' = name /\ count' = count
        /\ request' = request
    BY <1>2 DEF Pairs, GoTo
  <2>2. pairs \in Seq([name : STRING, value : Texts])
    BY <2>1, LinkFact DEF TypeInv
  <2> HIDE DEF pairs
  <2>3. V("game") \in Texts /\ V("passarg") \in Texts
    BY <1>2, <2>2, OnceFact
  <2> HIDE DEF V
  <2>4. /\ DOMAIN captured' = {"game", "passarg"}
        /\ \A n \in DOMAIN captured' : captured'[n] \in Texts
    BY <2>1, <2>3
  <2>5. TypeOK'
    BY <2>1, <2>4 DEF TypeInv, TypeOK, Required
  <2> QED
    BY <2>1, <2>4, <2>5 DEF TypeInv, Parsing
<1> QED
  BY <1>1, <1>2

(* Steps that move the parser and no more. *)
LEMMA TypeMove ==
    ASSUME TypeInv, NEW from \in Parsing \cup {"start"}, NEW to \in Parsing,
           GoTo(from, to), link.scheme = "ngm",
           index' \in 1 .. Len(text) + 1, name' \in Required \cup {"other", None},
           UNCHANGED <<link, captured, count, request>>
    PROVE  TypeInv'
<1>1. text' = text
  BY DEF text
<1>2. /\ pc # "accepted" /\ pc' # "accepted" /\ pc' = to
      /\ to \in {"start", "field", "dash", "name", "value", "mode", "build",
                 "refused", "accepted"}
  BY DEF GoTo, Parsing
<1>3. Len(text) \in Nat
  BY LinkFact DEF TypeInv
<1>4. TypeOK'
  BY <1>2, <1>3 DEF TypeInv, TypeOK
<1> QED
  BY <1>1, <1>2, <1>4 DEF TypeInv, Parsing

LEMMA TypeValue == ASSUME TypeInv, pc = "value", Value PROVE TypeInv'
<1> DEFINE e == Extent
           value == SubSeq(text, e.first, e.last)
           refuses == \/ Unterminated
                      \/ value = <<>>
                      \/ e.next <= Len(text) /\ text[e.next] # "space"
                      \/ Repeated
                      \/ TooMany
<1>1. CASE refuses
  <2>1. Refuse("value")
    BY <1>1 DEF Value
  <2> QED
    BY <2>1, TypeRefuse
<1>2. CASE ~ refuses
  <2>1. /\ pc' = "field" /\ index' = e.next /\ count' = count + 1 /\ name' = None
        /\ link' = link /\ request' = request
        /\ captured' = [n \in DOMAIN captured \cup ({name} \cap Required) |->
                          IF n = name THEN value ELSE captured[n]]
    BY <1>2 DEF Value, GoTo
  <2>2. text \in Texts /\ index \in 1 .. Len(text) + 1 /\ link.scheme = "ngm"
        /\ Len(text) \in Nat
    BY LinkFact DEF TypeInv, Parsing
  <2>3. e.next \in index .. Len(text) + 1 /\ value \in Texts
    BY <1>2, <2>2, ExtentFact
  <2>4. count + 1 \in 0 .. MaxFields
    BY <1>2, LimitsAreNat DEF TooMany, TypeInv, TypeOK
  <2> HIDE DEF e, value, refuses
  <2>5. /\ DOMAIN captured' \subseteq Required
        /\ \A n \in DOMAIN captured' : captured'[n] \in Texts
    BY <2>1, <2>3 DEF TypeInv, TypeOK
  <2>6. text' = text
    BY <2>1 DEF text
  <2>7. index' \in 1 .. Len(text) + 1 /\ index' \in Nat
    BY <2>1, <2>2, <2>3
  <2>8. TypeOK'
    BY <2>1, <2>4, <2>5, <2>7 DEF TypeInv, TypeOK
  <2> QED
    BY <2>1, <2>2, <2>6, <2>7, <2>8 DEF TypeInv, Parsing
<1> QED
  BY <1>1, <1>2

LEMMA TypeBuild == ASSUME TypeInv, pc = "build", Build PROVE TypeInv'
<1> DEFINE arguments == Arguments(captured["passarg"])
           refuses == \/ Code(captured["game"]) # <<"2982">>
                      \/ Len(arguments) \notin 1 .. MaxTokens
<1>1. CASE refuses
  <2>1. Refuse("build")
    BY <1>1 DEF Build
  <2> QED
    BY <2>1, TypeRefuse
<1>2. CASE ~ refuses
  <2>1. /\ pc' = "accepted" /\ link' = link /\ index' = index /\ name' = name
        /\ captured' = captured /\ count' = count
        /\ request' = [tag |-> Tag(captured["game"]), arguments |-> arguments]
    BY <1>2 DEF Build, GoTo
  <2>2. captured["game"] \in Texts /\ captured["passarg"] \in Texts
    BY DEF TypeInv, TypeOK
  <2>3. arguments \in Seq(Texts) /\ Tag(captured["game"]) \in Texts
    BY <2>2, ArgumentsAreTexts, TagIsText
  <2>4. arguments # <<>>
    BY <1>2
  <2> HIDE DEF arguments
  <2>5. request'.tag \in Texts /\ request'.arguments \in Seq(Texts)
        /\ request'.arguments # <<>>
    BY <2>1, <2>3, <2>4
  <2>6. TypeOK'
    BY <2>1, <2>5 DEF TypeInv, TypeOK
  <2>7. text' = text
    BY <2>1 DEF text
  <2> QED
    BY <2>1, <2>6, <2>7 DEF TypeInv, Parsing
<1> QED
  BY <1>1, <1>2

LEMMA TypeNext == TypeInv /\ [Next]_vars => TypeInv'
<1> SUFFICES ASSUME TypeInv, [Next]_vars PROVE TypeInv'
  OBVIOUS
<1> DEFINE n == Len(text)
<1>1. link.scheme = "ngm" => text \in Texts /\ n \in Nat /\ index \in 1 .. n + 1
  BY LinkFact DEF TypeInv
<1>2. name \in Required \cup {"other", None} /\ None \in Required \cup {"other", None}
  BY DEF TypeInv, TypeOK
<1>3. CASE Pairs
  BY <1>3, TypePairs
<1>4. CASE pc = "start" /\ Begin
  <2>1. CASE text = <<>>
    BY <1>4, <2>1, TypeRefuse DEF Begin
  <2>2. CASE text # <<>>
    BY <1>1, <1>2, <1>4, <2>2, TypeMove DEF Begin, Parsing
  <2> QED
    BY <2>1, <2>2
<1>5. CASE pc = "field" /\ Separator
  <2> DEFINE p == Position(text, index, Tokens \ {"space"})
  <2>1. CASE count > 0 /\ text[index] # "space"
    BY <1>5, <2>1, TypeRefuse DEF Separator
  <2>2. CASE ~ (count > 0 /\ text[index] # "space")
    <3>1. link.scheme = "ngm"
      BY <1>5 DEF TypeInv, Parsing
    <3>2. p \in index .. n + 1
      BY <1>1, <3>1, PositionFact
    <3>3. index' \in 1 .. n + 1
      <4>1. index' = IF count = 0 THEN index ELSE p
        BY <1>5, <2>2 DEF Separator
      <4> HIDE DEF p
      <4> QED
        BY <1>1, <3>1, <3>2, <4>1
    <3>4. GoTo("field", "dash") /\ UNCHANGED <<link, name, captured, count, request>>
      BY <1>5, <2>2 DEF Separator
    <3> QED
      BY <1>2, <3>1, <3>3, <3>4, TypeMove DEF Parsing
  <2> QED
    BY <2>1, <2>2
<1>6. CASE pc = "field" /\ FieldsEnd
  <2>1. link.scheme = "ngm"
    BY <1>6 DEF TypeInv, Parsing
  <2> QED
    BY <1>1, <1>2, <1>6, <2>1, TypeMove DEF FieldsEnd, Parsing
<1>7. CASE pc = "dash" /\ Dash
  <2>1. CASE AtEnd \/ text[index] # "-"
    BY <1>7, <2>1, TypeRefuse DEF Dash
  <2>2. CASE ~ (AtEnd \/ text[index] # "-")
    <3>1. link.scheme = "ngm"
      BY <1>7 DEF TypeInv, Parsing
    <3>2. GoTo("dash", "name") /\ UNCHANGED <<link, name, captured, count, request>>
          /\ index' = index + 1
      BY <1>7, <2>2 DEF Dash
    <3>3. index' \in 1 .. n + 1
      BY <1>1, <2>2, <3>1, <3>2 DEF AtEnd
    <3> QED
      BY <1>2, <3>1, <3>2, <3>3, TypeMove DEF Parsing
  <2> QED
    BY <2>1, <2>2
<1>8. CASE pc = "name" /\ Name
  <2> DEFINE end == Position(text, index, Tokens \ NameChars)
             refuses == AtEnd \/ text[index] \notin Letters \/ end > Len(text)
                        \/ text[end] # ":"
  <2>1. CASE refuses
    BY <1>8, <2>1, TypeRefuse DEF Name
  <2>2. CASE ~ refuses
    <3>1. link.scheme = "ngm"
      BY <1>8 DEF TypeInv, Parsing
    <3>2. /\ GoTo("name", "value") /\ UNCHANGED <<link, captured, count, request>>
          /\ index' = end + 1 /\ name' = FieldName(SubSeq(text, index, end - 1))
      BY <1>8, <2>2 DEF Name
    <3>3. end \in index .. n + 1
      BY <1>1, <3>1, PositionFact
    <3>4. index' \in 1 .. n + 1
      <4>1. ~ (end > n)
        BY <2>2
      <4> HIDE DEF end
      <4> QED
        BY <1>1, <3>1, <3>2, <3>3, <4>1
    <3>5. name' \in Required \cup {"other", None}
      BY <3>2, FieldNameFact
    <3> HIDE DEF end
    <3> QED
      BY <3>1, <3>2, <3>4, <3>5, TypeMove DEF Parsing
  <2> QED
    BY <2>1, <2>2
<1>9. CASE pc = "value" /\ Value
  BY <1>9, TypeValue
<1>10. CASE pc = "mode" /\ Mode
  <2> DEFINE goes == DOMAIN captured = Required /\ captured["mode"] = <<"launch">>
  <2>1. CASE ~ goes
    BY <1>10, <2>1, TypeRefuse DEF Mode
  <2>2. CASE goes
    <3>1. /\ pc' = "build" /\ link' = link /\ index' = index /\ name' = name
          /\ captured' = captured /\ count' = count /\ request' = request
      BY <1>10, <2>2 DEF Mode, GoTo
    <3>2. text' = text
      BY <3>1 DEF text
    <3>3. TypeOK'
      BY <1>10, <3>1 DEF TypeInv, TypeOK
    <3>4. {"game", "passarg"} \subseteq DOMAIN captured
      BY <2>2 DEF Required
    <3> QED
      BY <3>1, <3>2, <3>3, <3>4 DEF TypeInv, Parsing
  <2> QED
    BY <2>1, <2>2
<1>11. CASE pc = "build" /\ Build
  BY <1>11, TypeBuild
<1>12. CASE UNCHANGED vars
  BY <1>12 DEF vars, TypeInv, TypeOK, text
<1>13. Begin => pc = "start"
  BY DEF Begin, Refuse, GoTo
<1> QED
  BY <1>3, <1>4, <1>5, <1>6, <1>7, <1>8, <1>9, <1>10, <1>11, <1>12, <1>13 DEF Next

(***************************************************************************)
(* The parser keeps its types: it captures and requests only texts, and a  *)
(* request has arguments exactly when the link is accepted.                *)
(***************************************************************************)
THEOREM TypeCorrect == Spec => []TypeOK
<1>1. Spec => []TypeInv
  BY TypeInit, TypeNext, PTL DEF Spec
<1>2. TypeInv => TypeOK
  BY DEF TypeInv
<1> QED
  BY <1>1, <1>2, PTL

-----------------------------------------------------------------------------
(* What has been read *)

(* The first e tokens are as many fields as have been counted, cut at K,   *)
(* and say what has been captured.                                         *)
Taken(e, K) ==
    /\ text # <<>>
    /\ e \in 0 .. Len(text)
    /\ K \in CutsTo(text, e)
    /\ Cardinality(K) = count
    /\ Unambiguous(Prefix(text, e), K)
    /\ captured = Says(Prefix(text, e), K)

AtField == \E K : Taken(index - 1, K) /\ (index > 1 => Ends(text, index - 1, Len(text)))

(* The next field, if there is one, starts at a. *)
NextAt(a) == \E e, K : Taken(e, K) /\ Follows(text, e, a)

(* The dash and the name of the field that starts at a, up to its colon. *)
NameRead(a) ==
    /\ a \in 1 .. Len(text)
    /\ a + 2 <= index - 1 /\ index - 1 <= Len(text)
    /\ text[a] = "-" /\ text[a + 1] \in Letters /\ text[index - 1] = ":"
    /\ \A i \in a + 1 .. index - 2 : text[i] \in NameChars
    /\ name = FieldName(SubSeq(text, a + 1, index - 2))

Verdict ==
    /\ pc \in {"mode", "build", "accepted"} => Readings = {captured}
    /\ pc \in {"build", "accepted"} =>
           /\ {"game", "passarg"} \subseteq DOMAIN captured
           /\ link.scheme = "ngm" =>
                  "mode" \in DOMAIN captured /\ captured["mode"] = <<"launch">>

IInv ==
    /\ pc = "start" => index = 1 /\ count = 0 /\ captured = [n \in {} |-> <<>>]
    /\ pc = "field" => AtField
    /\ pc = "dash" => NextAt(index)
    /\ pc = "name" => /\ NextAt(index - 1)
                      /\ index - 1 \in 1 .. Len(text) /\ text[index - 1] = "-"
    /\ pc = "value" => \E a : NextAt(a) /\ NameRead(a)
    /\ Verdict
    /\ RequestIsTheLinks

(***************************************************************************)
(* Nothing is counted exactly when nothing has been passed over.           *)
(***************************************************************************)
LEMMA TakenFact ==
    ASSUME TypeInv, link.scheme = "ngm", NEW e, NEW K, Taken(e, K)
    PROVE  /\ text \in Texts /\ Len(text) \in Nat /\ Len(text) > 0 /\ e \in Nat
           /\ e > 0 <=> count > 0
           /\ IsFiniteSet(K)
<1>1. text \in Texts /\ Len(text) \in Nat
  BY LinkFact DEF TypeInv
<1>2. e \in 0 .. Len(text) /\ K \in CutsTo(text, e) /\ text # <<>>
      /\ Cardinality(K) = count
  BY DEF Taken
<1>3. Len(text) > 0
  BY <1>1, <1>2, EmptySeq DEF Texts
<1>4. /\ e \in Nat /\ K \subseteq 1 .. e
      /\ e > 0 => 1 \in K
  BY <1>1, <1>2, CutToIsTiled
<1>5. IsFiniteSet(K)
  <2>1. IsFiniteSet(1 .. e)
    BY <1>4, FS_Interval
  <2> QED
    BY <1>4, <2>1, FS_Subset
<1>6. Cardinality(K) \in Nat /\ (Cardinality(K) = 0 <=> K = {})
  BY <1>5, FS_CardinalityType, FS_EmptySet
<1>7. e > 0 <=> count > 0
  <2>1. e = 0 => K = {}
    BY <1>4
  <2>2. e > 0 => K # {}
    BY <1>4
  <2> QED
    BY <1>2, <1>4, <1>6, <2>1, <2>2
<1> QED
  BY <1>1, <1>3, <1>4, <1>5, <1>7

(***************************************************************************)
(* A cut of a whole text gives its one reading.                            *)
(***************************************************************************)
LEMMA OneReading ==
    ASSUME text \in Texts, link.scheme = "ngm", NEW K, K \in Cuts(text),
           Unambiguous(text, K)
    PROVE  Readings = {Says(text, K)}
<1>1. Readings = {Says(text, L) : L \in {J \in Cuts(text) : Unambiguous(text, J)}}
  BY DEF Readings
<1>2. {J \in Cuts(text) : Unambiguous(text, J)} = {K}
  BY OneCut
<1> QED
  BY <1>1, <1>2

(***************************************************************************)
(* What has been read so far is read in one way.                           *)
(***************************************************************************)
LEMMA FieldsRead ==
    ASSUME TypeInv, IInv PROVE ReadSoFar
<1> SUFFICES ASSUME pc = "field", count > 0
             PROVE  LET s == SubSeq(text, 1, index - 1) IN
                    /\ Cardinality(Cuts(s)) = 1
                    /\ \A K \in Cuts(s) :
                         Cardinality(K) = count /\ Unambiguous(s, K) /\ captured = Says(s, K)
  BY DEF ReadSoFar
<1> DEFINE e == index - 1
           s == SubSeq(text, 1, e)
<1>1. link.scheme = "ngm"
  BY DEF TypeInv, Parsing
<1>2. PICK K : Taken(e, K)
  BY DEF IInv, AtField
<1>3. text \in Texts /\ e \in Nat /\ e > 0
  BY <1>1, <1>2, TakenFact
<1> HIDE DEF e
<1>4. s = Prefix(text, e) /\ s \in Texts
  BY <1>2, <1>3, PrefixFact DEF Taken, Prefix
<1>5. /\ K \in Cuts(s) /\ Cardinality(K) = count /\ Unambiguous(s, K)
      /\ captured = Says(s, K)
  <2>1. /\ K \in CutsTo(text, e) /\ Cardinality(K) = count
        /\ Unambiguous(Prefix(text, e), K) /\ captured = Says(Prefix(text, e), K)
    BY <1>2 DEF Taken
  <2>2. CutsTo(text, e) = Cuts(Prefix(text, e))
    BY <1>3 DEF CutsTo
  <2>3. s = Prefix(text, e)
    BY <1>4
  <2> HIDE DEF s
  <2> QED
    BY <2>1, <2>2, <2>3
<1> HIDE DEF s
<1>6. Cuts(s) = {K}
  BY <1>4, <1>5, OneCut
<1>7. Cardinality(Cuts(s)) = 1
  BY <1>6, FS_Singleton
<1> QED
  BY <1>5, <1>6, <1>7 DEF s, e

-----------------------------------------------------------------------------
(* The steps *)

LEMMA ReadingsStay ==
    ASSUME link' = link
    PROVE  /\ text' = text
           /\ Readings' = Readings
           /\ \A said : Asks(said)' <=> Asks(said)
<1>1. text' = text
  BY DEF text
<1>2. Readings' = Readings
  BY <1>1 DEF Readings
<1>3. \A said : Asks(said)' <=> Asks(said)
  BY DEF Asks
<1> QED
  BY <1>1, <1>2, <1>3

(***************************************************************************)
(* A refusal is right if no reading of the link asks for a launch.         *)
(***************************************************************************)
LEMMA RightlyRefused ==
    ASSUME NEW from, Refuse(from), \A said \in Readings : ~ Asks(said)
    PROVE  IInv'
<1>1. pc' = "refused" /\ link' = link
  BY DEF Refuse, GoTo
<1>2. \A said \in Readings' : ~ Asks(said)'
  BY <1>1, ReadingsStay
<1>3. RequestIsTheLinks'
  BY <1>1, <1>2 DEF RequestIsTheLinks
<1> QED
  BY <1>1, <1>3 DEF IInv, Verdict

(***************************************************************************)
(* While the parser reads on, no verdict has to be justified.              *)
(***************************************************************************)
LEMMA NoVerdictYet ==
    ASSUME pc' \in {"field", "dash", "name", "value"}
    PROVE  Verdict' /\ RequestIsTheLinks'
BY DEF Verdict, RequestIsTheLinks

LEMMA TextTokens ==
    ASSUME NEW s \in Texts PROVE \A i \in 1 .. Len(s) : s[i] \in Tokens
BY ElementOfSeq DEF Texts

(***************************************************************************)
(* Pairs: the game and the arguments are given once each exactly if there  *)
(* is a reading, and it is what has been captured.                         *)
(***************************************************************************)
LEMMA PairsRead ==
    ASSUME TypeInv, Pairs PROVE IInv'
<1> DEFINE pairs == link.pairs
           Names == {"game", "passarg"}
           V(n) == pairs[Max(ValuesOf(pairs, n))].value
           given == Once(pairs, "game") /\ Once(pairs, "passarg")
           Right(g) == \A n \in Names : \A i \in DOMAIN pairs :
                           (pairs[i].name = n) <=> (i = g[n])
           Selected == {g \in [Names -> DOMAIN pairs] : Right(g)}
           Read(f) == [n \in Names |-> pairs[f[n]].value]
<1>1. link.scheme = "nexonplug" /\ pairs \in Seq([name : STRING, value : Texts])
  BY LinkFact DEF Pairs, TypeInv
<1>2. Readings = {Read(f) : f \in Selected}
  BY <1>1 DEF Readings
<1>3. ASSUME NEW g \in Selected, NEW n \in Names
      PROVE  ValuesOf(pairs, n) = {g[n]}
  BY DEF ValuesOf
<1> HIDE DEF pairs
<1>4. CASE ~ given
  <2>1. Refuse("start")
    BY <1>4 DEF Pairs, pairs
  <2>2. Selected = {}
    <3> SUFFICES ASSUME NEW g \in Selected PROVE FALSE
      OBVIOUS
    <3>1. ValuesOf(pairs, "game") = {g["game"]} /\ ValuesOf(pairs, "passarg") = {g["passarg"]}
      BY <1>3
    <3>2. Once(pairs, "game") /\ Once(pairs, "passarg")
      BY <1>1, <3>1, OnceFact
    <3> QED
      BY <1>4, <3>2
  <2> HIDE DEF Selected
  <2>3. \A said \in Readings : ~ Asks(said)
    BY <1>2, <2>2
  <2> QED
    BY <2>1, <2>3, RightlyRefused
<1>5. CASE given
  <2>1. /\ pc' = "build" /\ link' = link
        /\ captured' = [n \in Names |-> V(n)]
    BY <1>5 DEF Pairs, GoTo, pairs
  <2> DEFINE G == [n \in Names |-> Max(ValuesOf(pairs, n))]
  <2>2. ASSUME NEW n \in Names
        PROVE  Max(ValuesOf(pairs, n)) \in DOMAIN pairs
               /\ ValuesOf(pairs, n) = {Max(ValuesOf(pairs, n))}
    <3>1. Once(pairs, n)
      BY <1>5
    <3> QED
      BY <1>1, <3>1, OnceFact
  <2>3. G \in Selected
    <3>1. G \in [Names -> DOMAIN pairs]
      BY <2>2
    <3>2. ASSUME NEW n \in Names, NEW i \in DOMAIN pairs
          PROVE  (pairs[i].name = n) <=> (i = G[n])
      <4>1. (pairs[i].name = n) <=> i \in ValuesOf(pairs, n)
        BY DEF ValuesOf
      <4>2. G[n] = Max(ValuesOf(pairs, n))
        OBVIOUS
      <4> HIDE DEF G
      <4> QED
        BY <2>2, <4>1, <4>2
    <3> HIDE DEF G
    <3> QED
      BY <3>1, <3>2
  <2>4. ASSUME NEW g \in Selected PROVE g = G
    <3>1. g \in [Names -> DOMAIN pairs]
      OBVIOUS
    <3>2. \A n \in Names : g[n] = Max(ValuesOf(pairs, n))
      BY <1>3, <2>2
    <3> QED
      BY <3>1, <3>2
  <2>5. Read(G) = [n \in Names |-> V(n)]
    OBVIOUS
  <2> HIDE DEF G, Selected, Read
  <2>6. Selected = {G}
    BY <2>3, <2>4
  <2>7. Readings = {captured'}
    BY <1>2, <2>1, <2>5, <2>6
  <2>8. Readings' = {captured'} /\ link'.scheme # "ngm"
    BY <1>1, <2>1, <2>7, ReadingsStay
  <2>9. {"game", "passarg"} \subseteq DOMAIN captured'
    BY <2>1
  <2>10. Verdict'
    BY <2>1, <2>8, <2>9 DEF Verdict
  <2>11. RequestIsTheLinks'
    BY <2>1 DEF RequestIsTheLinks
  <2> QED
    BY <2>1, <2>10, <2>11 DEF IInv
<1> QED
  BY <1>4, <1>5

(***************************************************************************)
(* A text that is not empty is about to be read, and nothing of it has     *)
(* been read; an empty one has no field.                                   *)
(***************************************************************************)
LEMMA BeginRead ==
    ASSUME TypeInv, IInv, pc = "start", Begin PROVE IInv'
<1>1. link.scheme = "ngm" /\ text \in Texts /\ Len(text) \in Nat
  BY LinkFact DEF Begin, TypeInv
<1>2. CASE text = <<>>
  <2>1. Refuse("start")
    BY <1>2 DEF Begin
  <2>2. Cuts(text) = {}
    <3>1. Len(text) = 0
      BY <1>2
    <3>2. ASSUME NEW K \in Cuts(text) PROVE 1 \in 1 .. Len(text)
      BY DEF Cuts
    <3> QED
      BY <3>1, <3>2
  <2>3. Readings = {}
    BY <1>1, <2>2 DEF Readings
  <2> QED
    BY <2>1, <2>3, RightlyRefused
<1>3. CASE text # <<>>
  <2>1. /\ pc' = "field" /\ link' = link /\ index' = index /\ captured' = captured
        /\ count' = count
    BY <1>3 DEF Begin, GoTo
  <2>2. text' = text
    BY <2>1 DEF text
  <2>3. index = 1 /\ count = 0 /\ captured = [n \in {} |-> <<>>]
    BY DEF IInv
  <2> DEFINE s == Prefix(text, 0)
  <2>4. \A n : Naming(s, {}, n) = {}
    BY DEF Naming
  <2>5. captured = Says(s, {})
    <3>1. {m \in Required : Naming(s, {}, m) # {}} = {}
      BY <2>4
    <3> QED
      BY <2>3, <3>1 DEF Says
  <2>6. Unambiguous(s, {})
    BY <2>4, FS_EmptySet, LimitsAreNat DEF Unambiguous
  <2>7. Taken(0, {})
    <3>1. {} \in CutsTo(text, 0)
      BY DEF CutsTo
    <3>2. Cardinality({}) = count /\ 0 \in 0 .. Len(text)
      BY <1>1, <2>3, FS_EmptySet
    <3> QED
      BY <1>3, <2>5, <2>6, <3>1, <3>2 DEF Taken
  <2>8. Taken(0, {})'
    BY <2>1, <2>2, <2>7 DEF Taken
  <2>9. AtField'
    <3>1. index' - 1 = 0 /\ ~ (index' > 1)
      BY <2>1, <2>3
    <3> QED
      BY <2>8, <3>1 DEF AtField
  <2> QED
    BY <2>1, <2>9, NoVerdictYet DEF IInv
<1> QED
  BY <1>2, <1>3

(***************************************************************************)
(* What the parser has taken, and where the next field starts, do not      *)
(* depend on where the parser is.                                          *)
(***************************************************************************)
LEMMA TakenStays ==
    ASSUME UNCHANGED <<link, captured, count>>
    PROVE  /\ \A e, K : Taken(e, K)' <=> Taken(e, K)
           /\ \A a : NextAt(a)' <=> NextAt(a)
<1>1. text' = text
  BY DEF text
<1>2. \A e, K : Taken(e, K)' <=> Taken(e, K)
  BY <1>1 DEF Taken
<1> QED
  BY <1>1, <1>2 DEF NextAt

(* The cut L goes on after the first e tokens, cut at K, with a field at a. *)
GoesOn(e, K, a, L, c, z) ==
    /\ L \in Cuts(text) /\ Unambiguous(text, L)
    /\ a \in L /\ a \notin K /\ K \subseteq L
    /\ \A b \in K : Piece(Prefix(text, e), K, b) = Piece(text, L, b)
    /\ Spans(text, a, c, z) /\ Ends(text, z, Len(text))
    /\ Piece(text, L, a) = SubSeq(text, a, z)

(***************************************************************************)
(* Whatever reading the text has, a field of it starts where the parser    *)
(* expects the next one, and the fields before are those it has taken.     *)
(***************************************************************************)
LEMMA ReadingGoesOn ==
    ASSUME TypeInv, link.scheme = "ngm", NEW a, NEW e, NEW K, Taken(e, K),
           Follows(text, e, a), NEW said, said \in Readings
    PROVE  \E L, c, z : GoesOn(e, K, a, L, c, z)
<1>1. text \in Texts
  BY LinkFact DEF TypeInv
<1>2. Readings = {Says(text, L) : L \in {J \in Cuts(text) : Unambiguous(text, J)}}
  BY DEF Readings
<1>3. PICK L : L \in Cuts(text) /\ Unambiguous(text, L)
  BY <1>2
<1>4. e \in 0 .. Len(text) /\ K \in CutsTo(text, e)
  BY DEF Taken
<1>5. /\ a \in L /\ a \notin K /\ K \subseteq L
      /\ \A b \in K : Piece(Prefix(text, e), K, b) = Piece(text, L, b)
      /\ \E c, z : /\ Spans(text, a, c, z) /\ Ends(text, z, Len(text))
                   /\ Piece(text, L, a) = SubSeq(text, a, z)
  BY <1>1, <1>3, <1>4, CutGoesOn
<1> QED
  BY <1>3, <1>5 DEF GoesOn

LEMMA ReadingHasField ==
    ASSUME TypeInv, link.scheme = "ngm", NEW a, NextAt(a), Readings # {}
    PROVE  \E c, z : Spans(text, a, c, z)
<1>1. PICK e, K : Taken(e, K) /\ Follows(text, e, a)
  BY DEF NextAt
<1>2. PICK said : said \in Readings
  OBVIOUS
<1> QED
  BY <1>1, <1>2, ReadingGoesOn DEF GoesOn

(***************************************************************************)
(* Between two fields: the spaces are passed over, and there is one, as    *)
(* the field before would have gone on otherwise.                          *)
(***************************************************************************)
LEMMA SeparatorRead ==
    ASSUME TypeInv, IInv, pc = "field", Separator PROVE IInv'
<1> DEFINE n == Len(text)
           p == Position(text, index, Tokens \ {"space"})
<1>1. link.scheme = "ngm" /\ text \in Texts /\ n \in Nat /\ index \in 1 .. n + 1
  BY LinkFact DEF TypeInv, Parsing
<1>2. index \in 1 .. n
  BY <1>1 DEF Separator, AtEnd
<1>3. PICK K : Taken(index - 1, K)
  BY DEF IInv, AtField
<1>4. index > 1 <=> count > 0
  <2>1. index - 1 > 0 <=> count > 0
    BY <1>1, <1>3, TakenFact
  <2> QED
    BY <1>2, <2>1
<1>5. count > 0 => text[index] = "space"
  <2>1. count > 0 => Ends(text, index - 1, n)
    BY <1>4 DEF IInv, AtField
  <2>2. index - 1 # n /\ (index - 1) + 1 = index
    BY <1>1, <1>2
  <2> QED
    BY <2>1, <2>2 DEF Ends
<1>6. count \in Nat
  BY LimitsAreNat DEF TypeInv, TypeOK
<1>7. /\ pc' = "dash" /\ UNCHANGED <<link, captured, count>>
      /\ index' = IF count = 0 THEN index ELSE p
  BY <1>5 DEF Separator, GoTo
<1>8. Follows(text, index - 1, index')
  <2>1. CASE count = 0
    <3>1. index = 1 /\ index' = 1
      BY <1>2, <1>4, <1>7, <2>1
    <3>2. 1 \in 1 .. n + 1 /\ index - 1 = 0 /\ ~ (index - 1 > 0)
      BY <1>1, <3>1
    <3> QED
      BY <3>1, <3>2 DEF Follows, Gap
  <2>2. CASE count # 0
    <3>1. index' = p /\ index > 1 /\ text[index] = "space"
      BY <1>4, <1>5, <1>6, <1>7, <2>2
    <3>2. /\ p \in index .. n + 1
          /\ p <= n => text[p] \in Tokens \ {"space"}
          /\ \A j \in index .. p - 1 : text[j] \notin Tokens \ {"space"}
      BY <1>1, PositionFact
    <3> HIDE DEF p, n
    <3>3. \A j \in index .. p - 1 : text[j] = "space"
      <4>1. \A j \in index .. p - 1 : j \in 1 .. n
        BY <1>1, <1>2, <3>2
      <4>2. \A j \in 1 .. n : text[j] \in Tokens
        BY <1>1, TextTokens DEF n
      <4> QED
        BY <3>2, <4>1, <4>2
    <3>4. p # index
      BY <1>2, <3>1, <3>2
    <3>5. p > (index - 1) + 1 /\ index - 1 > 0 /\ p \in 1 .. n + 1
          /\ \A j \in (index - 1) + 1 .. p - 1 : text[j] = "space"
      BY <1>1, <1>2, <3>1, <3>2, <3>3, <3>4
    <3>6. p <= n => text[p] # "space"
      BY <3>2
    <3> QED
      BY <3>1, <3>5, <3>6 DEF Follows, Gap, n
  <2> QED
    BY <2>1, <2>2
<1>9. NextAt(index')
  BY <1>3, <1>8 DEF NextAt
<1>10. NextAt(index)'
  <2>1. PICK e, J : Taken(e, J) /\ Follows(text, e, index')
    BY <1>9 DEF NextAt
  <2>2. Taken(e, J)' /\ Follows(text', e, index')
    BY <1>7, <2>1, TakenStays DEF text
  <2> QED
    BY <2>2 DEF NextAt
<1> QED
  BY <1>7, <1>10, NoVerdictYet DEF IInv

(***************************************************************************)
(* At the end of the text, the taken fields are its one reading.           *)
(***************************************************************************)
LEMMA EndRead ==
    ASSUME TypeInv, IInv, pc = "field", FieldsEnd PROVE IInv'
<1> DEFINE n == Len(text)
<1>1. link.scheme = "ngm" /\ text \in Texts /\ n \in Nat /\ index \in 1 .. n + 1
  BY LinkFact DEF TypeInv, Parsing
<1>2. PICK K : Taken(index - 1, K)
  BY DEF IInv, AtField
<1>3. index - 1 = n
  BY <1>1 DEF FieldsEnd, AtEnd
<1>4. Taken(n, K) /\ n > 0
  BY <1>1, <1>2, <1>3, TakenFact
<1>5. Prefix(text, n) = text
  BY <1>1, SubSeqFull DEF Prefix, Texts
<1>6. K \in Cuts(text) /\ Unambiguous(text, K) /\ captured = Says(text, K)
  BY <1>4, <1>5 DEF Taken, CutsTo
<1>7. Readings = {captured}
  BY <1>1, <1>6, OneReading
<1>8. pc' = "mode" /\ link' = link /\ captured' = captured
  BY DEF FieldsEnd, GoTo
<1>9. Verdict'
  BY <1>7, <1>8, ReadingsStay DEF Verdict
<1> QED
  BY <1>8, <1>9 DEF IInv, RequestIsTheLinks

(***************************************************************************)
(* A field starts with a dash.                                             *)
(***************************************************************************)
LEMMA DashRead ==
    ASSUME TypeInv, IInv, pc = "dash", Dash PROVE IInv'
<1>1. link.scheme = "ngm" /\ text \in Texts /\ Len(text) \in Nat
      /\ index \in 1 .. Len(text) + 1
  BY LinkFact DEF TypeInv, Parsing
<1>2. NextAt(index)
  BY DEF IInv
<1>3. CASE AtEnd \/ text[index] # "-"
  <2>1. Refuse("dash")
    BY <1>3 DEF Dash
  <2>2. Readings = {}
    <3> SUFFICES ASSUME Readings # {} PROVE FALSE
      OBVIOUS
    <3>1. PICK c, z : Spans(text, index, c, z)
      BY <1>1, <1>2, ReadingHasField
    <3>2. index \in 1 .. Len(text) /\ text[index] = "-"
      BY <3>1 DEF Spans, FieldAt
    <3> QED
      BY <1>1, <1>3, <3>2 DEF AtEnd
  <2> QED
    BY <2>1, <2>2, RightlyRefused
<1>4. CASE ~ (AtEnd \/ text[index] # "-")
  <2>1. pc' = "name" /\ index' = index + 1 /\ UNCHANGED <<link, captured, count>>
    BY <1>4 DEF Dash, GoTo
  <2>2. text' = text
    BY <2>1 DEF text
  <2>3. index' - 1 = index /\ index \in 1 .. Len(text) /\ text[index] = "-"
    BY <1>1, <1>4, <2>1 DEF AtEnd
  <2>4. NextAt(index)
    BY <1>2
  <2>5. NextAt(index - 1)'
    <3>1. PICK e, K : Taken(e, K) /\ Follows(text, e, index)
      BY <2>4 DEF NextAt
    <3>2. Taken(e, K)' /\ Follows(text', e, index' - 1)
      BY <2>1, <2>2, <2>3, <3>1, TakenStays
    <3> QED
      BY <3>2 DEF NextAt
  <2> QED
    BY <2>1, <2>2, <2>3, <2>5, NoVerdictYet DEF IInv
<1> QED
  BY <1>3, <1>4

(***************************************************************************)
(* A name runs up to its colon, so that no other colon could end it.       *)
(***************************************************************************)
LEMMA NameRuns ==
    ASSUME NEW s \in Texts, NEW a, NEW c, NEW z, Spans(s, a, c, z)
    PROVE  /\ a + 1 \in 1 .. Len(s) /\ s[a + 1] \in Letters
           /\ Position(s, a + 1, Tokens \ NameChars) = c
           /\ c \in 1 .. Len(s) /\ s[c] = ":"
<1>1. /\ a \in 1 .. Len(s) /\ c \in 1 .. Len(s) /\ z \in 1 .. Len(s)
      /\ a + 2 <= c /\ c < z /\ Len(s) \in Nat
  BY DEF Spans, Texts
<1>2. /\ s[a + 1] \in Letters /\ s[c] = ":"
      /\ \A i \in a + 1 .. c - 1 : s[i] \in NameChars
  BY DEF Spans, FieldAt
<1>3. a + 1 \in 1 .. Len(s) + 1 /\ c \in a + 1 .. Len(s) + 1
  BY <1>1
<1>4. s[c] \in Tokens \ NameChars
  BY <1>2 DEF Tokens, Marks, NameChars, Letters, Digits
<1>5. \A i \in a + 1 .. c - 1 : s[i] \notin Tokens \ NameChars
  BY <1>2
<1>6. Position(s, a + 1, Tokens \ NameChars) = c
  BY <1>3, <1>4, <1>5, PositionIs
<1> QED
  BY <1>1, <1>2, <1>6

(***************************************************************************)
(* A name is read up to its colon.                                         *)
(***************************************************************************)
LEMMA NameRefused ==
    ASSUME TypeInv, IInv, pc = "name", Name, Refuse("name") PROVE IInv'
<1> DEFINE a == index - 1
           p == Position(text, index, Tokens \ NameChars)
<1>1. link.scheme = "ngm" /\ text \in Texts /\ Len(text) \in Nat
      /\ index \in 1 .. Len(text) + 1
  BY LinkFact DEF TypeInv, Parsing
<1>2. NextAt(a)
  BY DEF IInv
<1>3. a + 1 = index
  BY <1>1
<1>4. AtEnd \/ text[index] \notin Letters \/ p > Len(text) \/ text[p] # ":"
  BY DEF Name, GoTo, Refuse
<1> HIDE DEF a, p
<1>5. Readings = {}
  <2> SUFFICES ASSUME Readings # {} PROVE FALSE
    OBVIOUS
  <2>1. PICK c, z : Spans(text, a, c, z)
    BY <1>1, <1>2, ReadingHasField
  <2>2. /\ index \in 1 .. Len(text) /\ text[index] \in Letters
        /\ Position(text, index, Tokens \ NameChars) = c
        /\ c \in 1 .. Len(text) /\ text[c] = ":"
    BY <1>1, <1>3, <2>1, NameRuns
  <2>3. ~ AtEnd /\ ~ (p > Len(text)) /\ text[p] = ":"
    BY <1>1, <2>2 DEF AtEnd, p
  <2> QED
    BY <1>4, <2>2, <2>3
<1> QED
  BY <1>5, RightlyRefused

LEMMA NameTaken ==
    ASSUME TypeInv, IInv, pc = "name", Name, ~ Refuse("name") PROVE IInv'
<1> DEFINE n == Len(text)
           p == Position(text, index, Tokens \ NameChars)
<1>1. link.scheme = "ngm" /\ text \in Texts /\ n \in Nat /\ index \in 1 .. n + 1
  BY LinkFact DEF TypeInv, Parsing
<1>2. PICK a : a = index - 1 /\ NextAt(a) /\ a \in 1 .. n /\ text[a] = "-"
  BY DEF IInv
<1>3. /\ ~ AtEnd /\ text[index] \in Letters /\ ~ (p > n) /\ text[p] = ":"
      /\ pc' = "value" /\ UNCHANGED <<link, captured, count>>
      /\ name' = FieldName(SubSeq(text, index, p - 1)) /\ index' = p + 1
  BY DEF Name, GoTo
<1>4. /\ p \in index .. n + 1
      /\ \A j \in index .. p - 1 : text[j] \notin Tokens \ NameChars
  BY <1>1, PositionFact
<1>5. text[p] \notin NameChars /\ text[index] \in NameChars
  BY <1>3 DEF NameChars, Letters, Digits
<1>6. \A j \in 1 .. n : text[j] \in Tokens
  BY <1>1, TextTokens
<1> HIDE DEF n, p
<1>7. index = a + 1 /\ p > a + 1 /\ p <= n /\ index' - 1 = p /\ index' - 2 = p - 1
      /\ a + 2 <= p
  BY <1>1, <1>2, <1>3, <1>4, <1>5
<1>8. \A i \in a + 1 .. p - 1 : text[i] \in NameChars
  <2>1. a \in Nat /\ p \in Nat /\ n \in Nat /\ p <= n
    BY <1>1, <1>2, <1>4, <1>7
  <2>2. \A i \in a + 1 .. p - 1 : i \in 1 .. n
    BY <2>1
  <2> QED
    BY <1>4, <1>6, <1>7, <2>2
<1>9. text' = text /\ NextAt(a)'
  BY <1>2, <1>3, TakenStays DEF text
<1>10. NameRead(a)'
  BY <1>2, <1>3, <1>7, <1>8, <1>9 DEF NameRead, n
<1> QED
  BY <1>3, <1>9, <1>10, NoVerdictYet DEF IInv

-----------------------------------------------------------------------------
(* A value *)

(***************************************************************************)
(* The extent of a value is what a field of the text says it is, if there  *)
(* is one where the parser is.                                             *)
(***************************************************************************)
LEMMA ValueRuns ==
    ASSUME text \in Texts, NEW a, NEW c, NEW z, Spans(text, a, c, z), index = c + 1,
           Ends(text, z, Len(text))
    PROVE  LET e == Extent
               value == SubSeq(text, e.first, e.last)
           IN  /\ ~ Unterminated
               /\ value # <<>>
               /\ ~ (e.next <= Len(text) /\ text[e.next] # "space")
<1> DEFINE n == Len(text)
           e == Extent
<1>1. /\ n \in Nat /\ c \in 1 .. n /\ z \in 1 .. n /\ c < z
      /\ ValueAt(text, c, z)
  BY DEF Spans, FieldAt, Texts
<1>2. z = n \/ (z < n /\ text[z + 1] = "space")
  BY DEF Ends
<1>3. ~ AtEnd
  BY <1>1 DEF AtEnd
<1>4. /\ e.next = z + 1
      /\ e.first \in c + 1 .. e.last /\ e.last \in c + 1 .. n
  <2>1. CASE Quoted
    <3>1. text[c + 1] = "'"
      BY <2>1 DEF Quoted
    <3>2. z >= c + 3 /\ text[z] = "'" /\ \A i \in c + 2 .. z - 1 : text[i] # "'"
      BY <1>1, <3>1 DEF ValueAt
    <3>3. c + 2 \in 1 .. n + 1 /\ z \in c + 2 .. n + 1
      BY <1>1, <3>2
    <3>4. Position(text, c + 2, {"'"}) = z
      BY <3>2, <3>3, PositionIs
    <3>5. index + 1 = c + 2
      BY <1>1
    <3>6. e.first = c + 2 /\ e.last = z - 1 /\ e.next = z + 1
      BY <2>1, <3>4, <3>5 DEF Extent
    <3> HIDE DEF e, n
    <3> QED
      BY <1>1, <3>2, <3>6
  <2>2. CASE ~ Quoted
    <3>1. text[c + 1] # "'"
      BY <1>3, <2>2 DEF Quoted
    <3>2. \A i \in c + 1 .. z : text[i] # "space"
      BY <1>1, <3>1 DEF ValueAt
    <3>3. c + 1 \in 1 .. n + 1 /\ z + 1 \in c + 1 .. n + 1
      BY <1>1
    <3>4. z + 1 <= n => text[z + 1] \in {"space"}
      BY <1>1, <1>2
    <3>5. \A i \in c + 1 .. (z + 1) - 1 : text[i] \notin {"space"}
      BY <1>1, <3>2
    <3>6. Position(text, c + 1, {"space"}) = z + 1
      BY <3>3, <3>4, <3>5, PositionIs
    <3>7. e.first = c + 1 /\ e.last = (z + 1) - 1 /\ e.next = z + 1
      BY <2>2, <3>6 DEF Extent
    <3> HIDE DEF e, n
    <3> QED
      BY <1>1, <3>7
  <2> QED
    BY <2>1, <2>2
<1> HIDE DEF e
<1>5. ~ Unterminated
  BY <1>1, <1>4 DEF Unterminated, e
<1>6. SubSeq(text, e.first, e.last) # <<>>
  <2>1. e.first \in 1 .. n + 1 /\ e.last \in e.first - 1 .. n
        /\ e.last - e.first + 1 # 0
    BY <1>1, <1>4
  <2>2. Len(SubSeq(text, e.first, e.last)) = e.last - e.first + 1
    BY <2>1, PartFact
  <2>3. Len(<<>>) = 0
    OBVIOUS
  <2> QED
    BY <2>1, <2>2, <2>3
<1>7. ~ (e.next <= n /\ text[e.next] # "space")
  BY <1>1, <1>2, <1>4
<1> QED
  BY <1>5, <1>6, <1>7 DEF e

(***************************************************************************)
(* A value that is taken completes a field of the text, whose meaning it   *)
(* is, and after which there is a space or the end.                        *)
(***************************************************************************)
LEMMA ValueSpans ==
    ASSUME text \in Texts, index \in 1 .. Len(text) + 1, NEW a, NameRead(a),
           ~ Unterminated, NEW value, value # <<>>,
           value = SubSeq(text, Extent.first, Extent.last),
           NEW c, c = index - 1, NEW z, z = Extent.next - 1,
           ~ (Extent.next <= Len(text) /\ text[Extent.next] # "space")
    PROVE  /\ Spans(text, a, c, z)
           /\ MeaningAt(text, c, z) = value
           /\ Ends(text, z, Len(text))
           /\ z \in 1 .. Len(text) /\ Extent.next = z + 1
<1> DEFINE n == Len(text)
           e == Extent
<1>1. n \in Nat /\ index = c + 1 /\ c \in 0 .. n
  BY DEF Texts
<1>2. /\ a \in 1 .. n /\ a + 2 <= c
      /\ text[a] = "-" /\ text[a + 1] \in Letters /\ text[c] = ":"
      /\ \A i \in a + 1 .. c - 1 : text[i] \in NameChars
  <2>1. c - 1 = index - 2
    BY <1>1
  <2> QED
    BY <2>1 DEF NameRead
<1>3. /\ e.first \in 1 .. n + 1 /\ e.last \in e.first - 1 .. n
      /\ e.next \in index .. n + 1
  BY ExtentFact
<1>4. e.last >= e.first
  <2>1. CASE e.last >= e.first
    BY <2>1
  <2>2. CASE ~ (e.last >= e.first)
    <3>1. e.last < e.first
      BY <1>1, <1>3, <2>2
    <3>2. SubSeq(text, e.first, e.last) = <<>>
      BY <1>1, <1>3, <3>1, SubSeqEmpty
    <3> QED
      BY <3>2
  <2> QED
    BY <2>1, <2>2
<1>5. /\ z \in c + 1 .. n /\ e.next = z + 1
      /\ ValueAt(text, c, z) /\ MeaningAt(text, c, z) = value
  <2>1. CASE Quoted
    <3> DEFINE p == Position(text, c + 2, {"'"})
    <3>1. text[c + 1] = "'" /\ c + 1 <= n
      BY <1>1, <2>1 DEF Quoted, AtEnd
    <3>2. index + 1 = c + 2 /\ c + 2 \in 1 .. n + 1
      BY <1>1, <3>1
    <3>3. /\ p \in c + 2 .. n + 1
          /\ p <= n => text[p] \in {"'"}
          /\ \A i \in c + 2 .. p - 1 : text[i] \notin {"'"}
      BY <3>2, PositionFact
    <3>4. e.first = c + 2 /\ e.last = p - 1 /\ e.next = p + 1
      BY <2>1, <3>2 DEF Extent
    <3> HIDE DEF p, e, n
    <3>5. z = p /\ p <= n /\ z >= c + 3
      BY <1>1, <1>3, <1>4, <3>3, <3>4 DEF e
    <3>6. value = SubSeq(text, c + 2, z - 1)
      BY <3>4, <3>5 DEF e
    <3>7. text[z] = "'" /\ \A i \in c + 2 .. z - 1 : text[i] # "'"
      BY <3>3, <3>5
    <3>8. ValueAt(text, c, z) /\ MeaningAt(text, c, z) = value
      BY <3>1, <3>5, <3>6, <3>7 DEF ValueAt, MeaningAt
    <3> QED
      BY <1>1, <3>3, <3>4, <3>5, <3>8
  <2>2. CASE ~ Quoted
    <3> DEFINE p == Position(text, c + 1, {"space"})
    <3>1. c + 1 \in 1 .. n + 1
      BY <1>1
    <3>2. /\ p \in c + 1 .. n + 1
          /\ \A i \in c + 1 .. p - 1 : text[i] \notin {"space"}
      BY <3>1, PositionFact
    <3>3. e.first = c + 1 /\ e.last = p - 1 /\ e.next = p
      BY <1>1, <2>2 DEF Extent
    <3> HIDE DEF p, e
    <3>4. z = p - 1 /\ z \in c + 1 .. n /\ e.next = z + 1
      BY <1>1, <1>3, <1>4, <3>2, <3>3 DEF e
    <3>5. text[c + 1] # "'"
      BY <1>1, <2>2, <3>4 DEF Quoted, AtEnd
    <3>6. value = SubSeq(text, c + 1, z)
      BY <3>3, <3>4 DEF e
    <3>7. \A i \in c + 1 .. z : text[i] # "space"
      BY <3>2, <3>4
    <3>8. ValueAt(text, c, z) /\ MeaningAt(text, c, z) = value
      BY <3>5, <3>6, <3>7 DEF ValueAt, MeaningAt
    <3> QED
      BY <3>4, <3>8
  <2> QED
    BY <2>1, <2>2
<1> HIDE DEF e
<1>6. Spans(text, a, c, z)
  <2>1. FieldAt(text, a, c, z)
    BY <1>2, <1>5 DEF FieldAt
  <2>2. a \in 1 .. n /\ c \in 1 .. n /\ z \in 1 .. n /\ a + 2 <= c /\ c < z
    BY <1>1, <1>2, <1>5
  <2> QED
    BY <2>1, <2>2 DEF Spans
<1>7. Ends(text, z, n)
  <2>1. ~ (z + 1 <= n /\ text[z + 1] # "space")
    BY <1>5 DEF e
  <2> QED
    BY <1>1, <1>5, <2>1 DEF Ends
<1>8. z \in 1 .. n
  BY <1>1, <1>5
<1> QED
  BY <1>5, <1>6, <1>7, <1>8 DEF e

(***************************************************************************)
(* The colon of the name that was read is the colon of the field.          *)
(***************************************************************************)
LEMMA SameColon ==
    ASSUME text \in Texts, index \in 1 .. Len(text) + 1, NEW a, NameRead(a),
           NEW c, NEW z, Spans(text, a, c, z)
    PROVE  index = c + 1 /\ name = FieldName(SubSeq(text, a + 1, c - 1))
<1> DEFINE n == Len(text)
           d == index - 1
<1>1. n \in Nat /\ index = d + 1 /\ d \in Nat
  BY DEF Texts
<1>2. /\ a \in 1 .. n /\ a + 2 <= d /\ d <= n /\ text[d] = ":"
      /\ \A i \in a + 1 .. d - 1 : text[i] \in NameChars
      /\ name = FieldName(SubSeq(text, a + 1, d - 1))
  <2>1. d - 1 = index - 2
    BY <1>1
  <2> QED
    BY <2>1 DEF NameRead
<1> HIDE DEF d, n
<1>3. a + 1 \in 1 .. n + 1 /\ d \in a + 1 .. n + 1
  BY <1>1, <1>2
<1>4. text[d] \in Tokens \ NameChars
  BY <1>2 DEF Tokens, Marks, NameChars, Letters, Digits
<1>5. \A i \in a + 1 .. d - 1 : text[i] \notin Tokens \ NameChars
  BY <1>2
<1>6. Position(text, a + 1, Tokens \ NameChars) = d
  BY <1>3, <1>4, <1>5, PositionIs DEF n
<1>7. Position(text, a + 1, Tokens \ NameChars) = c
  BY NameRuns
<1>8. c = d
  BY <1>6, <1>7
<1> QED
  BY <1>1, <1>2, <1>8

(***************************************************************************)
(* A field that is taken is one more, and says what has been captured.     *)
(***************************************************************************)
LEMMA ValueTaken ==
    ASSUME TypeInv, IInv, pc = "value", Value, ~ Refuse("value") PROVE IInv'
<1> DEFINE n == Len(text)
<1>1. link.scheme = "ngm" /\ text \in Texts /\ n \in Nat /\ index \in 1 .. n + 1
  BY LinkFact DEF TypeInv, Parsing
<1>2. PICK a : NextAt(a) /\ NameRead(a)
  BY DEF IInv
<1>3. PICK e, K : Taken(e, K) /\ Follows(text, e, a)
  BY <1>2 DEF NextAt
<1> PICK value, c, z :
        /\ value = SubSeq(text, Extent.first, Extent.last)
        /\ c = index - 1 /\ z = Extent.next - 1
  OBVIOUS
<1>4. /\ ~ Unterminated /\ value # <<>> /\ ~ Repeated /\ ~ TooMany
      /\ ~ (Extent.next <= n /\ text[Extent.next] # "space")
  BY DEF Value
<1>5. /\ pc' = "field" /\ link' = link /\ index' = Extent.next /\ count' = count + 1
      /\ captured' = Adding(captured, name, value)
  BY DEF Value, GoTo, Adding
<1>6. /\ Spans(text, a, c, z) /\ MeaningAt(text, c, z) = value
      /\ Ends(text, z, n) /\ z \in 1 .. n /\ Extent.next = z + 1
  <2>1. /\ text \in Texts /\ index \in 1 .. Len(text) + 1 /\ NameRead(a)
        /\ ~ Unterminated /\ value # <<>>
        /\ value = SubSeq(text, Extent.first, Extent.last)
        /\ c = index - 1 /\ z = Extent.next - 1
        /\ ~ (Extent.next <= Len(text) /\ text[Extent.next] # "space")
    BY <1>1, <1>2, <1>4
  <2> HIDE DEF n
  <2>2. /\ Spans(text, a, c, z) /\ MeaningAt(text, c, z) = value
        /\ Ends(text, z, Len(text)) /\ z \in 1 .. Len(text) /\ Extent.next = z + 1
    BY <2>1, ValueSpans
  <2> QED
    BY <2>2 DEF n
<1> HIDE DEF n
<1>7. name = FieldName(SubSeq(text, a + 1, c - 1))
  BY <1>1, <1>2, <1>6, SameColon DEF n
<1> DEFINE s == Prefix(text, e)
           t == Prefix(text, z)
           M == With(K, a)
<1>8. /\ e \in 0 .. n /\ K \in CutsTo(text, e) /\ Cardinality(K) = count
      /\ Unambiguous(s, K) /\ captured = Says(s, K)
  BY <1>3 DEF Taken, n
<1>9. Gap(text, e, a)
  BY <1>3 DEF Follows
<1>10. name \notin DOMAIN captured
  BY <1>4 DEF Repeated
<1> HIDE DEF s, t, M
<1>11. M \in Cuts(t)
  BY <1>1, <1>6, <1>8, <1>9, OneMoreField DEF n, t, M
<1>12. /\ Says(t, M) = Adding(captured, name, MeaningAt(text, c, z))
       /\ Cardinality(M) = Cardinality(K) + 1
       /\ \A m \in Required :
              Cardinality(Naming(s, K, m)) <= 1 => Cardinality(Naming(t, M, m)) <= 1
  <2>1. /\ text \in Texts /\ e \in 0 .. Len(text) /\ K \in CutsTo(text, e)
        /\ Spans(text, a, c, z) /\ M = With(K, a)
        /\ captured = Says(Prefix(text, e), K)
    BY <1>1, <1>6, <1>8 DEF n, s, M
  <2> QED
    BY <1>7, <1>9, <1>10, <2>1, SaysMore DEF s, t
<1>13. captured' = Says(t, M)
  BY <1>5, <1>6, <1>12
<1>14. Cardinality(M) = count' /\ count' <= MaxFields
  BY <1>4, <1>5, <1>8, <1>12, LimitsAreNat DEF TooMany, TypeInv, TypeOK
<1>15. Unambiguous(t, M)
  BY <1>8, <1>12, <1>14 DEF Unambiguous
<1>16. /\ text' = text /\ Len(text) = n /\ text # <<>>
       /\ index' - 1 = z
  <2>1. text' = text
    BY <1>5 DEF text
  <2>2. text # <<>>
    BY <1>3 DEF Taken
  <2>3. index' = z + 1 /\ z \in Nat
    BY <1>1, <1>5, <1>6
  <2> QED
    BY <2>1, <2>2, <2>3 DEF n
<1>17. M \in CutsTo(text, z) /\ z \in 0 .. n
  BY <1>1, <1>6, <1>11 DEF CutsTo, t
<1>18. \E J : Taken(index - 1, J)'
  <2>1. Unambiguous(Prefix(text, z), M) /\ captured' = Says(Prefix(text, z), M)
    BY <1>13, <1>15 DEF t
  <2> QED
    BY <1>14, <1>16, <1>17, <2>1 DEF Taken
<1>19. AtField'
  BY <1>6, <1>16, <1>18 DEF AtField
<1> QED
  BY <1>5, <1>19, NoVerdictYet DEF IInv

(***************************************************************************)
(* Two elements are more than one.                                         *)
(***************************************************************************)
LEMMA TwoElements ==
    ASSUME NEW S, IsFiniteSet(S), NEW x, NEW y, x \in S, y \in S, x # y
    PROVE  ~ (Cardinality(S) <= 1)
<1>1. Cardinality({x}) = 1 /\ IsFiniteSet({x})
  BY FS_Singleton
<1>2. Cardinality({x} \cup {y}) = 1 + 1
  BY <1>1, FS_AddElement
<1>3. Cardinality({x} \cup {y}) <= Cardinality(S) /\ Cardinality(S) \in Nat
  <2>1. {x} \cup {y} \in SUBSET S
    OBVIOUS
  <2> QED
    BY <2>1, FS_Subset, FS_CardinalityType
<1> QED
  BY <1>2, <1>3

(***************************************************************************)
(* A value is refused only if the text has no reading: a field that is not *)
(* one, a name given twice, or a field too many, would be in every cut.    *)
(***************************************************************************)
LEMMA ValueRefused ==
    ASSUME TypeInv, IInv, pc = "value", Value, Refuse("value") PROVE IInv'
<1> DEFINE n == Len(text)
           value == SubSeq(text, Extent.first, Extent.last)
<1>1. link.scheme = "ngm" /\ text \in Texts /\ n \in Nat /\ index \in 1 .. n + 1
  BY LinkFact DEF TypeInv, Parsing
<1>2. PICK a : NextAt(a) /\ NameRead(a)
  BY DEF IInv
<1>3. PICK e, K : Taken(e, K) /\ Follows(text, e, a)
  BY <1>2 DEF NextAt
<1>4. \/ Unterminated
      \/ value = <<>>
      \/ Extent.next <= n /\ text[Extent.next] # "space"
      \/ Repeated
      \/ TooMany
  BY DEF Value, Refuse, GoTo
<1> HIDE DEF value, n
<1>5. ASSUME NEW said, said \in Readings PROVE FALSE
  <2>0. PICK L, c, z : GoesOn(e, K, a, L, c, z)
    BY <1>1, <1>3, <1>5, ReadingGoesOn
  <2>1. /\ L \in Cuts(text) /\ Unambiguous(text, L)
        /\ a \in L /\ a \notin K /\ K \subseteq L
        /\ \A b \in K : Piece(Prefix(text, e), K, b) = Piece(text, L, b)
        /\ Spans(text, a, c, z) /\ Ends(text, z, Len(text))
        /\ Piece(text, L, a) = SubSeq(text, a, z)
    BY <2>0 DEF GoesOn
  <2>2. index = c + 1 /\ name = FieldName(SubSeq(text, a + 1, c - 1))
    BY <1>1, <1>2, <2>1, SameColon DEF n
  <2>3. /\ ~ Unterminated /\ value # <<>>
        /\ ~ (Extent.next <= n /\ text[Extent.next] # "space")
    <3>1. Spans(text, a, c, z) /\ Ends(text, z, Len(text)) /\ index = c + 1
      BY <2>1, <2>2
    <3> QED
      BY <1>1, <3>1, ValueRuns DEF value, n
  <2>4. IsFiniteSet(L)
    <3>1. L \subseteq 1 .. n
      BY <2>1 DEF Cuts, n
    <3>2. IsFiniteSet(1 .. n)
      BY <1>1, FS_Interval
    <3> QED
      BY <3>1, <3>2, FS_Subset
  <2>5. CASE Repeated
    <3>1. name \in DOMAIN Says(Prefix(text, e), K)
      BY <1>3, <2>5 DEF Repeated, Taken
    <3>2. name \in Required /\ Naming(Prefix(text, e), K, name) # {}
      BY <3>1 DEF Says
    <3>3. PICK b : b \in K /\ FieldName(NameOf(Piece(Prefix(text, e), K, b))) = name
      BY <3>2 DEF Naming
    <3>4. b \in Naming(text, L, name) /\ b # a
      BY <2>1, <3>3 DEF Naming
    <3>5. a \in Naming(text, L, name)
      <4>1. /\ a \in 1 .. Len(text) /\ z \in a .. Len(text) /\ c \in a + 2 .. z - 1
            /\ FieldAt(text, a, c, z)
        BY <1>1, <2>1 DEF Spans, n
      <4>2. NameOf(SubSeq(text, a, z)) = SubSeq(text, a + 1, c - 1)
        BY <1>1, <4>1, FieldFact
      <4>3. Piece(text, L, a) = SubSeq(text, a, z) /\ a \in L
        BY <2>1
      <4>4. NameOf(Piece(text, L, a)) = SubSeq(text, a + 1, c - 1)
        BY <4>2, <4>3
      <4>5. FieldName(NameOf(Piece(text, L, a))) = name
        BY <2>2, <4>4
      <4> QED
        BY <4>3, <4>5 DEF Naming
    <3>6. IsFiniteSet(Naming(text, L, name))
      <4>1. Naming(text, L, name) \in SUBSET L
        BY DEF Naming
      <4> QED
        BY <2>4, <4>1, FS_Subset
    <3>7. Cardinality(Naming(text, L, name)) <= 1
      BY <2>1, <3>2 DEF Unambiguous
    <3> QED
      BY <3>4, <3>5, <3>6, <3>7, TwoElements
  <2>6. CASE TooMany
    <3>1. IsFiniteSet(K) /\ Cardinality(K) = count
      BY <1>1, <1>3, TakenFact DEF Taken
    <3>2. Cardinality(K \cup {a}) = count + 1
      <4>1. a \notin K
        BY <2>1
      <4> QED
        BY <3>1, <4>1, FS_AddElement
    <3>3. K \cup {a} \in SUBSET L
      BY <2>1
    <3>4. count + 1 <= Cardinality(L) /\ Cardinality(L) \in Nat
      BY <2>4, <3>2, <3>3, FS_Subset, FS_CardinalityType
    <3>5. Cardinality(L) <= MaxFields
      BY <2>1 DEF Unambiguous
    <3>6. count + 1 > MaxFields /\ count \in Nat
      BY <2>6, LimitsAreNat DEF TooMany, TypeInv, TypeOK
    <3> QED
      BY <3>4, <3>5, <3>6, LimitsAreNat
  <2> QED
    BY <1>4, <2>3, <2>5, <2>6
<1> QED
  BY <1>5, RightlyRefused

-----------------------------------------------------------------------------
(* The verdict *)

(***************************************************************************)
(* Of what was captured, the mode must be given and be a launch.           *)
(***************************************************************************)
LEMMA ModeRead ==
    ASSUME TypeInv, IInv, pc = "mode", Mode PROVE IInv'
<1> DEFINE goes == DOMAIN captured = Required /\ captured["mode"] = <<"launch">>
<1>1. link.scheme = "ngm" /\ DOMAIN captured \subseteq Required
  BY DEF TypeInv, TypeOK, Parsing
<1>2. Readings = {captured}
  BY DEF IInv, Verdict
<1>3. CASE ~ goes
  <2>1. Refuse("mode")
    BY <1>3 DEF Mode
  <2>2. ASSUME Asks(captured) PROVE FALSE
    <3>1. {"game", "passarg"} \subseteq DOMAIN captured
          /\ "mode" \in DOMAIN captured /\ captured["mode"] = <<"launch">>
      BY <1>1, <2>2 DEF Asks
    <3>2. DOMAIN captured = Required
      BY <1>1, <3>1 DEF Required
    <3> QED
      BY <1>3, <3>1, <3>2
  <2>3. \A said \in Readings : ~ Asks(said)
    BY <1>2, <2>2
  <2> QED
    BY <2>1, <2>3, RightlyRefused
<1>4. CASE goes
  <2>1. pc' = "build" /\ link' = link /\ captured' = captured
    BY <1>4 DEF Mode, GoTo
  <2>2. Readings' = {captured'}
    BY <1>2, <2>1, ReadingsStay
  <2>3. {"game", "passarg", "mode"} \subseteq DOMAIN captured'
        /\ captured'["mode"] = <<"launch">>
    BY <1>4, <2>1 DEF Required
  <2>4. Verdict'
    BY <2>1, <2>2, <2>3 DEF Verdict
  <2> QED
    BY <2>1, <2>4 DEF IInv, RequestIsTheLinks
<1> QED
  BY <1>3, <1>4

(***************************************************************************)
(* The request is built exactly if the one reading asks for a launch.      *)
(***************************************************************************)
LEMMA BuildRead ==
    ASSUME TypeInv, IInv, pc = "build", Build PROVE IInv'
<1> DEFINE arguments == Arguments(captured["passarg"])
           refuses == \/ Code(captured["game"]) # <<"2982">>
                      \/ Len(arguments) \notin 1 .. MaxTokens
<1>1. /\ Readings = {captured}
      /\ {"game", "passarg"} \subseteq DOMAIN captured
      /\ link.scheme = "ngm" =>
             "mode" \in DOMAIN captured /\ captured["mode"] = <<"launch">>
  BY DEF IInv, Verdict
<1>2. CASE refuses
  <2>1. Refuse("build")
    BY <1>2 DEF Build
  <2>2. ~ Asks(captured)
    BY <1>2 DEF Asks
  <2> QED
    BY <1>1, <2>1, <2>2, RightlyRefused
<1>3. CASE ~ refuses
  <2>1. /\ pc' = "accepted" /\ link' = link /\ captured' = captured
        /\ request' = [tag |-> Tag(captured["game"]), arguments |-> arguments]
    BY <1>3 DEF Build, GoTo
  <2>2. Asks(captured)
    BY <1>1, <1>3 DEF Asks
  <2>3. Asks(captured') /\ Readings' = {captured'}
    BY <1>1, <2>1, <2>2, ReadingsStay
  <2>4. Verdict'
    BY <1>1, <2>1, <2>3 DEF Verdict
  <2>5. RequestIsTheLinks'
    <3> DEFINE said == captured
    <3>1. Readings' = {captured}
      BY <1>1, <2>1, ReadingsStay
    <3> QED
      BY <2>1, <2>2, <3>1, ReadingsStay DEF RequestIsTheLinks
  <2> QED
    BY <2>1, <2>4, <2>5 DEF IInv
<1> QED
  BY <1>2, <1>3

-----------------------------------------------------------------------------
(* The invariants *)

LEMMA InitIInv == Init => IInv
<1> SUFFICES ASSUME Init PROVE IInv
  OBVIOUS
<1>1. pc = "start" /\ index = 1 /\ count = 0 /\ captured = [n \in {} |-> <<>>]
  BY DEF Init
<1> QED
  BY <1>1 DEF IInv, Verdict, RequestIsTheLinks

LEMMA StutterIInv == ASSUME IInv, UNCHANGED vars PROVE IInv'
<1>1. link' = link /\ index' = index /\ name' = name /\ captured' = captured
      /\ count' = count /\ pc' = pc /\ request' = request
  BY DEF vars
<1>2. /\ text' = text /\ Readings' = Readings
      /\ \A said : Asks(said)' <=> Asks(said)
  BY <1>1, ReadingsStay
<1>3. /\ \A e, K : Taken(e, K)' <=> Taken(e, K)
      /\ \A a : NextAt(a)' <=> NextAt(a)
  BY <1>1, TakenStays
<1>4. PICK i : i = index
  OBVIOUS
<1>5. pc = "start" => index = 1 /\ count = 0 /\ captured = [n \in {} |-> <<>>]
  BY DEF IInv
<1>6. pc' = "field" => AtField'
  <2> SUFFICES ASSUME pc = "field" PROVE AtField'
    BY <1>1
  <2>1. PICK K : Taken(i - 1, K) /\ (i > 1 => Ends(text, i - 1, Len(text)))
    BY <1>4 DEF IInv, AtField
  <2>2. Taken(i - 1, K)'
    BY <1>3, <2>1
  <2> QED
    BY <1>1, <1>2, <1>4, <2>1, <2>2 DEF AtField
<1>7. pc' = "dash" => NextAt(index)'
  <2> SUFFICES ASSUME pc = "dash" PROVE NextAt(index)'
    BY <1>1
  <2>1. PICK e, K : Taken(e, K) /\ Follows(text, e, index)
    BY DEF IInv, NextAt
  <2> QED
    BY <1>1, <1>2, <1>3, <2>1 DEF NextAt
<1>8. pc' = "name" => (NextAt(index - 1) /\ index - 1 \in 1 .. Len(text)
                       /\ text[index - 1] = "-")'
  <2> SUFFICES ASSUME pc = "name"
               PROVE  (NextAt(index - 1) /\ index - 1 \in 1 .. Len(text)
                       /\ text[index - 1] = "-")'
    BY <1>1
  <2>1. PICK e, K : Taken(e, K) /\ Follows(text, e, index - 1)
    BY DEF IInv, NextAt
  <2>2. NextAt(index - 1)'
    BY <1>1, <1>2, <1>3, <2>1 DEF NextAt
  <2>3. index - 1 \in 1 .. Len(text) /\ text[index - 1] = "-"
    BY DEF IInv
  <2> QED
    BY <1>1, <1>2, <2>2, <2>3
<1>9. pc' = "value" => \E a : NextAt(a)' /\ NameRead(a)'
  <2> SUFFICES ASSUME pc = "value" PROVE \E a : NextAt(a)' /\ NameRead(a)'
    BY <1>1
  <2>1. PICK a : NextAt(a) /\ NameRead(a)
    BY DEF IInv
  <2>2. NameRead(a)'
    BY <1>1, <1>2, <2>1 DEF NameRead
  <2> QED
    BY <1>3, <2>1, <2>2
<1>10. Verdict'
  BY <1>1, <1>2 DEF IInv, Verdict
<1>11. RequestIsTheLinks'
  BY <1>1, <1>2 DEF IInv, RequestIsTheLinks
<1> QED
  BY <1>1, <1>5, <1>6, <1>7, <1>8, <1>9, <1>10, <1>11 DEF IInv

LEMMA NextIInv == ASSUME TypeInv, IInv, [Next]_vars PROVE IInv'
<1>1. CASE Pairs
  BY <1>1, PairsRead
<1>2. CASE Begin
  <2>1. pc = "start"
    BY <1>2 DEF Begin, Refuse, GoTo
  <2> QED
    BY <1>2, <2>1, BeginRead
<1>3. CASE pc = "field" /\ Separator
  BY <1>3, SeparatorRead
<1>4. CASE pc = "field" /\ FieldsEnd
  BY <1>4, EndRead
<1>5. CASE pc = "dash" /\ Dash
  BY <1>5, DashRead
<1>6. CASE pc = "name" /\ Name
  BY <1>6, NameRefused, NameTaken
<1>7. CASE pc = "value" /\ Value
  BY <1>7, ValueRefused, ValueTaken
<1>8. CASE pc = "mode" /\ Mode
  BY <1>8, ModeRead
<1>9. CASE pc = "build" /\ Build
  BY <1>9, BuildRead
<1>10. CASE UNCHANGED vars
  BY <1>10, StutterIInv
<1> QED
  BY <1>1, <1>2, <1>3, <1>4, <1>5, <1>6, <1>7, <1>8, <1>9, <1>10 DEF Next

(***************************************************************************)
(* The types and the inductive invariant hold in every behaviour.          *)
(***************************************************************************)
THEOREM Invariants == Spec => [](TypeInv /\ IInv)
<1>1. Init => TypeInv /\ IInv
  BY TypeInit, InitIInv
<1>2. TypeInv /\ IInv /\ [Next]_vars => TypeInv' /\ IInv'
  BY TypeNext, NextIInv
<1> QED
  BY <1>1, <1>2, PTL DEF Spec

(***************************************************************************)
(* For links of any length, a link is accepted exactly if it can be read   *)
(* as the launch of one game, and the request is what the link says.       *)
(***************************************************************************)
THEOREM RequestCorrect == Spec => []RequestIsTheLinks
<1>1. IInv => RequestIsTheLinks
  BY DEF IInv
<1> QED
  BY <1>1, Invariants, PTL

(***************************************************************************)
(* At every turn of the parser's loop, what it has passed over is a list   *)
(* of complete fields that can be read in one way, and what it has         *)
(* captured is what they say.                                              *)
(***************************************************************************)
THEOREM ReadOnce == Spec => []ReadSoFar
<1>1. TypeInv /\ IInv => ReadSoFar
  BY FieldsRead
<1> QED
  BY <1>1, Invariants, PTL

-----------------------------------------------------------------------------
(* The length of a parse *)

Weight == [start |-> 6, field |-> 5, dash |-> 4, name |-> 3, value |-> 3]

(* How many steps a parse may still take, with so many tokens to go. *)
Left(at, scheme, togo) ==
    CASE at \in {"refused", "accepted"} -> 0
      [] at = "build" -> 1
      [] at = "mode" \/ (at = "start" /\ scheme = "nexonplug") -> 2
      [] OTHER -> 4 * togo + Weight[at]

StepsLeft == Left(pc, link.scheme, Len(text) + 1 - index)

(***************************************************************************)
(* A token that is passed over is worth more than any part of a field.     *)
(***************************************************************************)
LEMMA LeftIs ==
    ASSUME NEW scheme, NEW togo
    PROVE  /\ Left("refused", scheme, togo) = 0
           /\ Left("accepted", scheme, togo) = 0
           /\ Left("build", scheme, togo) = 1
           /\ Left("mode", scheme, togo) = 2
           /\ Left("start", "nexonplug", togo) = 2
           /\ Left("start", "ngm", togo) = 4 * togo + 6
           /\ Left("field", scheme, togo) = 4 * togo + 5
           /\ Left("dash", scheme, togo) = 4 * togo + 4
           /\ Left("name", scheme, togo) = 4 * togo + 3
           /\ Left("value", scheme, togo) = 4 * togo + 3
BY DEF Left, Weight

LEMMA LeftIsNat == TypeInv => StepsLeft \in Nat
<1> SUFFICES ASSUME TypeInv PROVE StepsLeft \in Nat
  OBVIOUS
<1> DEFINE togo == Len(text) + 1 - index
<1>1. pc \in Parsing => link.scheme = "ngm"
  BY DEF TypeInv
<1>2. pc \in {"start", "field", "dash", "name", "value", "mode", "build", "refused", "accepted"}
  BY DEF TypeInv, TypeOK
<1>3. link.scheme # "ngm" => link.scheme = "nexonplug"
  BY LinkFact DEF TypeInv
<1>4. link.scheme = "ngm" => togo \in Nat
  <2>1. link.scheme = "ngm" => Len(text) \in Nat /\ index \in 1 .. Len(text) + 1
    BY LinkFact DEF TypeInv
  <2> QED
    BY <2>1
<1> HIDE DEF togo
<1>5. Left(pc, link.scheme, togo) \in Nat
  BY <1>1, <1>2, <1>3, <1>4, LeftIs DEF Parsing
<1> QED
  BY <1>5 DEF StepsLeft, togo

(***************************************************************************)
(* A refusal, and every move that passes over a token or goes to the next  *)
(* part of a field, leaves fewer steps.                                    *)
(***************************************************************************)
LEMMA RefusalShortens ==
    ASSUME TypeInv, NEW from, Refuse(from), from \in Parsing \cup {"start", "build"}
    PROVE  StepsLeft' < StepsLeft
<1> DEFINE togo == Len(text) + 1 - index
<1>1. pc = from /\ pc' = "refused"
  BY DEF Refuse, GoTo
<1>2. StepsLeft' = 0
  BY <1>1, LeftIs DEF StepsLeft
<1>3. link.scheme # "ngm" => link.scheme = "nexonplug"
  BY LinkFact DEF TypeInv
<1>4. link.scheme = "ngm" => togo \in Nat
  <2>1. link.scheme = "ngm" => Len(text) \in Nat /\ index \in 1 .. Len(text) + 1
    BY LinkFact DEF TypeInv
  <2> QED
    BY <2>1
<1>5. pc \in Parsing => link.scheme = "ngm"
  BY DEF TypeInv
<1> HIDE DEF togo
<1>6. Left(pc, link.scheme, togo) > 0
  BY <1>1, <1>3, <1>4, <1>5, LeftIs DEF Parsing
<1> QED
  BY <1>2, <1>6 DEF StepsLeft, togo

LEMMA MoveShortens ==
    ASSUME TypeInv, link.scheme = "ngm", link' = link, NEW from, NEW to, GoTo(from, to),
           index' \in Nat,
           \/ from = "start" /\ to = "field" /\ index' = index
           \/ from = "field" /\ to = "dash" /\ index' >= index
           \/ from = "dash" /\ to = "name" /\ index' >= index
           \/ from = "name" /\ to = "value" /\ index' > index
           \/ from = "value" /\ to = "field" /\ index' > index
           \/ from = "field" /\ to = "mode"
    PROVE  StepsLeft' < StepsLeft
<1> DEFINE togo == Len(text) + 1 - index
           then == Len(text) + 1 - index'
<1>1. Len(text) \in Nat /\ index \in 1 .. Len(text) + 1 /\ text' = text
  BY LinkFact DEF TypeInv, text
<1>2. /\ togo \in Nat /\ then \in Int
      /\ index' >= index => then <= togo
      /\ index' > index => then + 1 <= togo
  BY <1>1
<1>3. StepsLeft = Left(from, "ngm", togo) /\ StepsLeft' = Left(to, "ngm", then)
  BY <1>1 DEF StepsLeft, GoTo
<1> HIDE DEF togo, then
<1>4. Left(to, "ngm", then) < Left(from, "ngm", togo)
  <2>1. CASE from = "start" /\ to = "field" /\ index' = index
    BY <1>1, <1>2, <2>1, LeftIs
  <2>2. CASE from = "field" /\ to = "dash" /\ index' >= index
    BY <1>2, <2>2, LeftIs
  <2>3. CASE from = "dash" /\ to = "name" /\ index' >= index
    BY <1>2, <2>3, LeftIs
  <2>4. CASE from = "name" /\ to = "value" /\ index' > index
    BY <1>2, <2>4, LeftIs
  <2>5. CASE from = "value" /\ to = "field" /\ index' > index
    BY <1>2, <2>5, LeftIs
  <2>6. CASE from = "field" /\ to = "mode"
    BY <1>2, <2>6, LeftIs
  <2> QED
    BY <2>1, <2>2, <2>3, <2>4, <2>5, <2>6
<1> QED
  BY <1>3, <1>4

(***************************************************************************)
(* A value that is taken is not empty.                                     *)
(***************************************************************************)
LEMMA ValuePasses ==
    ASSUME text \in Texts, index \in 1 .. Len(text) + 1, ~ Unterminated,
           SubSeq(text, Extent.first, Extent.last) # <<>>
    PROVE  Extent.next > index /\ Extent.next \in Nat
<1> DEFINE n == Len(text)
           e == Extent
<1>1. n \in Nat
  BY DEF Texts
<1>2. /\ e.first \in 1 .. n + 1 /\ e.last \in e.first - 1 .. n
      /\ e.next \in index .. n + 1
  BY ExtentFact
<1>3. e.first >= index /\ e.next > e.last
  <2>1. CASE Quoted
    <3> DEFINE p == Position(text, index + 1, {"'"})
    <3>1. index + 1 \in 1 .. n + 1
      BY <1>1, <2>1 DEF Quoted, AtEnd
    <3>2. p \in index + 1 .. n + 1
      BY <3>1, PositionFact
    <3>3. e.first = index + 1 /\ e.last = p - 1 /\ e.next = p + 1
      BY <2>1 DEF Extent
    <3> HIDE DEF p, e
    <3> QED
      BY <3>2, <3>3
  <2>2. CASE ~ Quoted
    <3> DEFINE p == Position(text, index, {"space"})
    <3>1. p \in index .. n + 1
      BY PositionFact
    <3>2. e.first = index /\ e.last = p - 1 /\ e.next = p
      BY <2>2 DEF Extent
    <3> HIDE DEF p, e
    <3> QED
      BY <3>1, <3>2
  <2> QED
    BY <2>1, <2>2
<1> HIDE DEF e
<1>4. e.last >= e.first
  <2>1. e.last < e.first => SubSeq(text, e.first, e.last) = <<>>
    BY <1>1, <1>2, SubSeqEmpty
  <2>2. ~ (e.last < e.first)
    BY <2>1 DEF e
  <2> QED
    BY <1>2, <2>2
<1>5. e.next > index /\ e.next \in Nat
  BY <1>1, <1>2, <1>3, <1>4
<1> QED
  BY <1>5 DEF e

LEMMA StepShortens ==
    ASSUME TypeInv, TypeInv', Next PROVE StepsLeft' < StepsLeft
<1> DEFINE n == Len(text)
<1>1. link.scheme = "ngm" => text \in Texts /\ n \in Nat /\ index \in 1 .. n + 1
  BY LinkFact DEF TypeInv
<1>2. index' \in Nat /\ index \in Nat
  BY DEF TypeInv, TypeOK
<1>3. pc \in Parsing => link.scheme = "ngm"
  BY DEF TypeInv
<1>4. CASE \E from \in Parsing \cup {"start", "build"} : Refuse(from)
  BY <1>4, RefusalShortens
<1>5. CASE Pairs /\ ~ Refuse("start")
  <2>1. pc = "start" /\ pc' = "build" /\ link.scheme = "nexonplug" /\ link' = link
    BY <1>5 DEF Pairs, GoTo
  <2> QED
    BY <2>1, LeftIs DEF StepsLeft
<1>6. CASE pc = "start" /\ Begin /\ ~ Refuse("start")
  <2>1. GoTo("start", "field") /\ link.scheme = "ngm" /\ link' = link /\ index' = index
    BY <1>6 DEF Begin
  <2> QED
    BY <1>2, <2>1, MoveShortens
<1>7. CASE pc = "field" /\ Separator /\ ~ Refuse("field")
  <2> DEFINE p == Position(text, index, Tokens \ {"space"})
  <2>1. /\ GoTo("field", "dash") /\ link' = link
        /\ index' = IF count = 0 THEN index ELSE p
    BY <1>7 DEF Separator
  <2>2. link.scheme = "ngm"
    BY <1>3, <1>7 DEF Parsing
  <2>3. p \in index .. n + 1
    BY <1>1, <2>2, PositionFact
  <2> HIDE DEF p
  <2>4. index' >= index
    BY <1>2, <2>1, <2>3
  <2> QED
    BY <1>2, <2>1, <2>2, <2>4, MoveShortens
<1>8. CASE pc = "field" /\ FieldsEnd
  <2>1. GoTo("field", "mode") /\ link' = link
    BY <1>8 DEF FieldsEnd
  <2>2. link.scheme = "ngm"
    BY <1>3, <1>8 DEF Parsing
  <2> QED
    BY <1>2, <2>1, <2>2, MoveShortens
<1>9. CASE pc = "dash" /\ Dash /\ ~ Refuse("dash")
  <2>1. GoTo("dash", "name") /\ link' = link /\ index' = index + 1
    BY <1>9 DEF Dash
  <2>2. link.scheme = "ngm" /\ index' >= index
    BY <1>2, <1>3, <1>9, <2>1 DEF Parsing
  <2> QED
    BY <1>2, <2>1, <2>2, MoveShortens
<1>10. CASE pc = "name" /\ Name /\ ~ Refuse("name")
  <2> DEFINE p == Position(text, index, Tokens \ NameChars)
  <2>1. GoTo("name", "value") /\ link' = link /\ index' = p + 1
    BY <1>10 DEF Name
  <2>2. link.scheme = "ngm"
    BY <1>3, <1>10 DEF Parsing
  <2>3. p \in index .. n + 1
    BY <1>1, <2>2, PositionFact
  <2> HIDE DEF p
  <2>4. index' > index
    BY <1>2, <2>1, <2>3
  <2> QED
    BY <1>2, <2>1, <2>2, <2>4, MoveShortens
<1>11. CASE pc = "value" /\ Value /\ ~ Refuse("value")
  <2>1. /\ GoTo("value", "field") /\ link' = link /\ index' = Extent.next
        /\ ~ Unterminated /\ SubSeq(text, Extent.first, Extent.last) # <<>>
    BY <1>11 DEF Value
  <2>2. link.scheme = "ngm"
    BY <1>3, <1>11 DEF Parsing
  <2>3. index' > index
    BY <1>1, <2>1, <2>2, ValuePasses
  <2> QED
    BY <1>2, <2>1, <2>2, <2>3, MoveShortens
<1>12. CASE pc = "mode" /\ Mode /\ ~ Refuse("mode")
  <2>1. pc' = "build"
    BY <1>12 DEF Mode, GoTo
  <2> QED
    BY <1>12, <2>1, LeftIs DEF StepsLeft
<1>13. CASE pc = "build" /\ Build /\ ~ Refuse("build")
  <2>1. pc' = "accepted"
    BY <1>13 DEF Build, GoTo
  <2> QED
    BY <1>13, <2>1, LeftIs DEF StepsLeft
<1>14. Begin => pc = "start"
  BY DEF Begin, Refuse, GoTo
<1> QED
  BY <1>4, <1>5, <1>6, <1>7, <1>8, <1>9, <1>10, <1>11, <1>12, <1>13, <1>14
     DEF Next, Parsing

(***************************************************************************)
(* Every step of the parser leaves fewer steps, and there are at most six  *)
(* more than four times the tokens of the text: what ParseEnds says of the *)
(* instance, without fairness, for texts of any length.                    *)
(***************************************************************************)
THEOREM ParseIsShort ==
    Spec => /\ [](StepsLeft \in Nat)
            /\ [][StepsLeft' < StepsLeft]_vars
            /\ link.scheme = "ngm" => StepsLeft = 4 * Len(text) + 6
<1>1. TypeInv => StepsLeft \in Nat
  BY LeftIsNat
<1>2. TypeInv /\ TypeInv' /\ [Next]_vars => [StepsLeft' < StepsLeft]_vars
  BY StepShortens
<1>3. Init => (link.scheme = "ngm" => StepsLeft = 4 * Len(text) + 6)
  <2> SUFFICES ASSUME Init, link.scheme = "ngm"
               PROVE  StepsLeft = 4 * Len(text) + 6
    OBVIOUS
  <2>1. pc = "start" /\ index = 1 /\ Len(text) \in Nat
    BY LinkFact DEF Init
  <2>2. Len(text) + 1 - index = Len(text)
    BY <2>1
  <2> QED
    BY <2>1, <2>2, LeftIs DEF StepsLeft
<1> QED
  BY <1>1, <1>2, <1>3, Invariants, PTL DEF Spec

=============================================================================
