-------------------------- MODULE LaunchTextProofs --------------------------
(***************************************************************************)
(* Lemmas about the texts of LaunchLink, for texts of any length: where a  *)
(* token is first found, what a field is in terms of positions, and that a *)
(* text can be cut into fields in one way at most.                         *)
(*                                                                         *)
(* A piece of a cut is a subsequence found by a minimum and a maximum.  To *)
(* reason about it, the lemmas speak of its last position instead: a field *)
(* from a to z, with its colon at c (FieldAt), and the place where the     *)
(* piece that starts at a ends (Extends).                                  *)
(***************************************************************************)
EXTENDS LaunchLink, TLAPS, SequenceTheorems, FiniteSetTheorems

-----------------------------------------------------------------------------
(* Least and greatest numbers *)

(***************************************************************************)
(* Min is the least element of a set of natural numbers that is not empty. *)
(***************************************************************************)
LEMMA MinIsLeast ==
    ASSUME NEW S \in SUBSET Nat, S # {}
    PROVE  Min(S) \in S /\ \A i \in S : Min(S) <= i
<1>1. PICK m \in S : \A i \in S : ~ (<<i, m>> \in OpToRel(<, Nat))
  BY NatLessThanWellFounded, WFMin
<1>2. ASSUME NEW i \in S PROVE m <= i
  <2>1. ~ (i < m)
    BY <1>1 DEF OpToRel
  <2> QED
    BY <2>1
<1> QED
  BY <1>1, <1>2 DEF Min

(***************************************************************************)
(* Max is the greatest element of a set of numbers up to n that is not     *)
(* empty: what remains above it is least where their distance to n is.     *)
(***************************************************************************)
LEMMA MaxIsGreatest ==
    ASSUME NEW n \in Nat, NEW S \in SUBSET (0 .. n), S # {}
    PROVE  Max(S) \in S /\ \A i \in S : i <= Max(S)
<1> DEFINE D == {d \in 0 .. n : n - d \in S}
<1>1. D \in SUBSET Nat /\ D # {}
  <2>1. PICK i \in S : TRUE
    OBVIOUS
  <2>2. n - i \in D
    <3>1. n - (n - i) = i
      BY <2>1
    <3> QED
      BY <3>1
  <2>3. D \in SUBSET Nat
    OBVIOUS
  <2> HIDE DEF D
  <2> QED
    BY <2>2, <2>3
<1> DEFINE m == n - Min(D)
<1>2. m \in S /\ \A i \in S : i <= m
  <2>1. Min(D) \in D /\ \A d \in D : Min(D) <= d
    BY <1>1, MinIsLeast
  <2>2. ASSUME NEW i \in S PROVE n - i \in D
    <3>1. n - (n - i) = i
      OBVIOUS
    <3> QED
      BY <3>1
  <2> QED
    BY <2>1, <2>2
<1> QED
  BY <1>2 DEF Max

-----------------------------------------------------------------------------
(* The first position of a token *)

(***************************************************************************)
(* A position is at or after i, is past the text if no token is found, and *)
(* no token before it is one of those looked for.                          *)
(***************************************************************************)
LEMMA PositionFact ==
    ASSUME NEW s \in Texts, NEW stops, NEW i \in 1 .. Len(s) + 1
    PROVE  LET p == Position(s, i, stops) IN
           /\ p \in i .. Len(s) + 1
           /\ p <= Len(s) => s[p] \in stops
           /\ \A j \in i .. p - 1 : s[j] \notin stops
<1> DEFINE P == {j \in i .. Len(s) : s[j] \in stops}
<1>1. Len(s) \in Nat
  BY DEF Texts
<1>2. CASE P = {}
  BY <1>1, <1>2 DEF Position
<1>3. CASE P # {}
  <2>1. Min(P) \in P /\ \A j \in P : Min(P) <= j
    <3>1. P \in SUBSET Nat
      BY <1>1
    <3> QED
      BY <1>3, <3>1, MinIsLeast
  <2>2. Position(s, i, stops) = Min(P)
    BY <1>3 DEF Position
  <2> DEFINE p == Min(P)
  <2>3. p \in i .. Len(s) /\ s[p] \in stops
    BY <2>1
  <2>4. ASSUME NEW j \in i .. p - 1 PROVE s[j] \notin stops
    <3>1. j \in i .. Len(s) /\ ~ (p <= j)
      BY <1>1, <2>3
    <3>2. j \notin P
      BY <2>1, <3>1
    <3> QED
      BY <3>1, <3>2
  <2> HIDE DEF P, p
  <2>5. Position(s, i, stops) = p
    BY <2>2 DEF p
  <2> QED
    BY <1>1, <2>3, <2>4, <2>5
<1> QED
  BY <1>2, <1>3

(***************************************************************************)
(* These three facts determine the position.                               *)
(***************************************************************************)
LEMMA PositionIs ==
    ASSUME NEW s \in Texts, NEW stops, NEW i \in 1 .. Len(s) + 1,
           NEW p \in i .. Len(s) + 1,
           p <= Len(s) => s[p] \in stops,
           \A j \in i .. p - 1 : s[j] \notin stops
    PROVE  Position(s, i, stops) = p
<1>1. Len(s) \in Nat
  BY DEF Texts
<1> DEFINE q == Position(s, i, stops)
<1>2. /\ q \in i .. Len(s) + 1
      /\ q <= Len(s) => s[q] \in stops
      /\ \A j \in i .. q - 1 : s[j] \notin stops
  BY PositionFact
<1> HIDE DEF q
<1>3. ~ (q < p)
  BY <1>1, <1>2
<1>4. ~ (p < q)
  BY <1>1, <1>2
<1> QED
  BY <1>1, <1>2, <1>3, <1>4 DEF q

-----------------------------------------------------------------------------
(* Parts of a text *)

(***************************************************************************)
(* A part of a text is a text, with the tokens at the same distances.      *)
(***************************************************************************)
LEMMA PartFact ==
    ASSUME NEW s \in Texts, NEW a \in 1 .. Len(s) + 1, NEW z \in a - 1 .. Len(s)
    PROVE  /\ SubSeq(s, a, z) \in Texts
           /\ Len(SubSeq(s, a, z)) = z - a + 1
           /\ \A i \in 1 .. z - a + 1 : SubSeq(s, a, z)[i] = s[a + i - 1]
<1>1. Len(s) \in Nat
  BY DEF Texts
<1>2. a \in Int /\ z \in Int
  BY <1>1
<1>3. \A i \in a .. z : s[i] \in Tokens
  BY <1>1, ElementOfSeq DEF Texts
<1>4. /\ SubSeq(s, a, z) \in Seq(Tokens)
      /\ Len(SubSeq(s, a, z)) = IF a <= z THEN z - a + 1 ELSE 0
      /\ \A i \in 1 .. z - a + 1 : SubSeq(s, a, z)[i] = s[a + i - 1]
  BY <1>2, <1>3, SubSeqProperties
<1> QED
  BY <1>1, <1>4 DEF Texts

(***************************************************************************)
(* A part of a part is a part.                                             *)
(***************************************************************************)
LEMMA PartOfPart ==
    ASSUME NEW s \in Texts, NEW a \in 1 .. Len(s) + 1, NEW z \in a - 1 .. Len(s),
           NEW m \in 1 .. z - a + 2, NEW n \in m - 1 .. z - a + 1
    PROVE  SubSeq(SubSeq(s, a, z), m, n) = SubSeq(s, a + m - 1, a + n - 1)
<1> DEFINE f == SubSeq(s, a, z)
           u == SubSeq(f, m, n)
           v == SubSeq(s, a + m - 1, a + n - 1)
<1>1. Len(s) \in Nat
  BY DEF Texts
<1>2. /\ f \in Texts /\ Len(f) = z - a + 1
      /\ \A i \in 1 .. z - a + 1 : f[i] = s[a + i - 1]
  BY PartFact
<1> HIDE DEF f
<1>3. /\ u \in Texts /\ Len(u) = n - m + 1
      /\ \A i \in 1 .. n - m + 1 : u[i] = f[m + i - 1]
  <2>1. m \in 1 .. Len(f) + 1 /\ n \in m - 1 .. Len(f)
    BY <1>1, <1>2
  <2> QED
    BY <1>2, <2>1, PartFact
<1>4. /\ v \in Texts /\ Len(v) = n - m + 1
      /\ \A i \in 1 .. n - m + 1 : v[i] = s[a + m - 1 + i - 1]
  <2> DEFINE b == a + m - 1
             y == a + n - 1
  <2>1. /\ b \in 1 .. Len(s) + 1 /\ y \in b - 1 .. Len(s)
        /\ y - b + 1 = n - m + 1
    BY <1>1
  <2> HIDE DEF b, y
  <2>2. /\ SubSeq(s, b, y) \in Texts /\ Len(SubSeq(s, b, y)) = y - b + 1
        /\ \A i \in 1 .. y - b + 1 : SubSeq(s, b, y)[i] = s[b + i - 1]
    BY <2>1, PartFact
  <2> QED
    BY <2>1, <2>2 DEF b, y
<1> HIDE DEF u, v
<1>5. ASSUME NEW i \in 1 .. Len(u) PROVE u[i] = v[i]
  <2>1. i \in 1 .. n - m + 1 /\ m + i - 1 \in 1 .. z - a + 1
    BY <1>1, <1>3
  <2>2. u[i] = f[m + i - 1] /\ v[i] = s[a + m - 1 + i - 1]
    BY <1>3, <1>4, <2>1
  <2>3. f[m + i - 1] = s[a + (m + i - 1) - 1]
    BY <1>2, <2>1
  <2>4. a + m - 1 + i - 1 = a + (m + i - 1) - 1
    BY <1>1, <2>1
  <2> QED
    BY <2>2, <2>3, <2>4
<1>6. u = v
  BY <1>3, <1>4, <1>5, SeqEqual DEF Texts
<1> QED
  BY <1>6 DEF f, u, v

-----------------------------------------------------------------------------
(* A field, from its dash at a over its colon at c to its last token at z *)

ValueAt(s, c, z) ==
    IF s[c + 1] = "'"
    THEN z >= c + 3 /\ s[z] = "'" /\ \A i \in c + 2 .. z - 1 : s[i] # "'"
    ELSE \A i \in c + 1 .. z : s[i] # "space"

FieldAt(s, a, c, z) ==
    /\ s[a] = "-" /\ s[a + 1] \in Letters /\ s[c] = ":"
    /\ \A i \in a + 1 .. c - 1 : s[i] \in NameChars
    /\ ValueAt(s, c, z)

MeaningAt(s, c, z) ==
    IF s[c + 1] = "'" THEN SubSeq(s, c + 2, z - 1) ELSE SubSeq(s, c + 1, z)

(***************************************************************************)
(* What NameOf, Given and Meaning say of a part whose first colon is at c. *)
(***************************************************************************)
LEMMA PartsOfField ==
    ASSUME NEW s \in Texts, NEW a \in 1 .. Len(s), NEW z \in a .. Len(s),
           NEW c \in a .. z, s[c] = ":", \A i \in a .. c - 1 : s[i] # ":"
    PROVE  LET f == SubSeq(s, a, z) IN
           /\ c > a => NameOf(f) = SubSeq(s, a + 1, c - 1)
           /\ Given(f) = SubSeq(s, c + 1, z)
<1> DEFINE f == SubSeq(s, a, z)
<1>1. Len(s) \in Nat
  BY DEF Texts
<1>2. /\ f \in Texts /\ Len(f) = z - a + 1
      /\ \A i \in 1 .. z - a + 1 : f[i] = s[a + i - 1]
  BY <1>1, PartFact
<1> DEFINE p == c - a + 1
<1>3. Position(f, 1, {":"}) = p
  <2> HIDE DEF f
  <2>1. 1 \in 1 .. Len(f) + 1 /\ p \in 1 .. Len(f) + 1
    BY <1>1, <1>2
  <2>2. f[p] \in {":"}
    <3>1. p \in 1 .. z - a + 1 /\ a + p - 1 = c
      BY <1>1
    <3> QED
      BY <1>2, <3>1
  <2>3. ASSUME NEW j \in 1 .. p - 1 PROVE f[j] \notin {":"}
    <3>1. j \in 1 .. z - a + 1 /\ a + j - 1 \in a .. c - 1
      BY <1>1
    <3> QED
      BY <1>2, <3>1
  <2> HIDE DEF p
  <2> QED
    BY <1>2, <2>1, <2>2, <2>3, PositionIs
<1>4. c > a => NameOf(f) = SubSeq(s, a + 1, c - 1)
  <2> SUFFICES ASSUME c > a PROVE NameOf(f) = SubSeq(s, a + 1, c - 1)
    OBVIOUS
  <2>1. NameOf(f) = SubSeq(f, 2, p - 1)
    BY <1>3 DEF NameOf
  <2>2. /\ a \in 1 .. Len(s) + 1 /\ z \in a - 1 .. Len(s)
        /\ 2 \in 1 .. z - a + 2 /\ p - 1 \in 2 - 1 .. z - a + 1
        /\ a + 2 - 1 = a + 1 /\ a + (p - 1) - 1 = c - 1
    BY <1>1
  <2>3. SubSeq(f, 2, p - 1) = SubSeq(s, a + 2 - 1, a + (p - 1) - 1)
    BY <2>2, PartOfPart
  <2> QED
    BY <2>1, <2>2, <2>3
<1>5. Given(f) = SubSeq(s, c + 1, z)
  <2>1. Given(f) = SubSeq(f, p + 1, z - a + 1)
    BY <1>2, <1>3 DEF Given
  <2>2. /\ a \in 1 .. Len(s) + 1 /\ z \in a - 1 .. Len(s)
        /\ p + 1 \in 1 .. z - a + 2 /\ z - a + 1 \in (p + 1) - 1 .. z - a + 1
        /\ a + (p + 1) - 1 = c + 1 /\ a + (z - a + 1) - 1 = z
    BY <1>1
  <2>3. SubSeq(f, p + 1, z - a + 1) = SubSeq(s, a + (p + 1) - 1, a + (z - a + 1) - 1)
    BY <2>2, PartOfPart
  <2> QED
    BY <2>1, <2>2, <2>3
<1> QED
  BY <1>4, <1>5

(***************************************************************************)
(* The names and the values of fields, by position.                        *)
(***************************************************************************)
LEMMA NameIs ==
    ASSUME NEW s \in Texts, NEW a \in 1 .. Len(s), NEW c \in a + 1 .. Len(s)
    PROVE  IsName(SubSeq(s, a + 1, c - 1)) <=>
               /\ c > a + 1
               /\ s[a + 1] \in Letters
               /\ \A i \in a + 1 .. c - 1 : s[i] \in NameChars
<1> DEFINE m == SubSeq(s, a + 1, c - 1)
<1>1. Len(s) \in Nat
  BY DEF Texts
<1>2. /\ m \in Texts /\ Len(m) = c - a - 1
      /\ \A i \in 1 .. c - a - 1 : m[i] = s[a + i]
  <2>1. a + 1 \in 1 .. Len(s) + 1 /\ c - 1 \in (a + 1) - 1 .. Len(s)
    BY <1>1
  <2>2. /\ m \in Texts /\ Len(m) = (c - 1) - (a + 1) + 1
        /\ \A i \in 1 .. (c - 1) - (a + 1) + 1 : m[i] = s[(a + 1) + i - 1]
    BY <2>1, PartFact
  <2> QED
    BY <1>1, <2>2
<1> HIDE DEF m
<1>3. m # <<>> <=> c > a + 1
  BY <1>1, <1>2 DEF Texts
<1>4. DOMAIN m = 1 .. c - a - 1
  BY <1>2 DEF Texts
<1>5. (\A i \in DOMAIN m : m[i] \in NameChars) <=>
          \A i \in a + 1 .. c - 1 : s[i] \in NameChars
  <2>1. ASSUME \A i \in DOMAIN m : m[i] \in NameChars, NEW i \in a + 1 .. c - 1
        PROVE  s[i] \in NameChars
    <3>1. i - a \in 1 .. c - a - 1 /\ a + (i - a) = i
      BY <1>1
    <3> QED
      BY <1>2, <1>4, <2>1, <3>1
  <2>2. ASSUME \A i \in a + 1 .. c - 1 : s[i] \in NameChars, NEW i \in DOMAIN m
        PROVE  m[i] \in NameChars
    <3>1. a + i \in a + 1 .. c - 1
      BY <1>1, <1>4
    <3> QED
      BY <1>2, <1>4, <2>2, <3>1
  <2> QED
    BY <2>1, <2>2
<1>6. c > a + 1 => m[1] = s[a + 1]
  BY <1>1, <1>2
<1> QED
  BY <1>3, <1>5, <1>6 DEF IsName, m

LEMMA ValueIs ==
    ASSUME NEW s \in Texts, NEW c \in 1 .. Len(s), NEW z \in c .. Len(s)
    PROVE  LET g == SubSeq(s, c + 1, z) IN
           /\ IsPlain(g) \/ IsQuoted(g) <=> z > c /\ ValueAt(s, c, z)
           /\ IsQuoted(g) => s[c + 1] = "'"
           /\ z > c => g \in Texts /\ Len(g) = z - c
<1> DEFINE g == SubSeq(s, c + 1, z)
<1>1. Len(s) \in Nat
  BY DEF Texts
<1>2. /\ g \in Texts /\ Len(g) = z - c
      /\ \A i \in 1 .. z - c : g[i] = s[c + i]
  <2>1. c + 1 \in 1 .. Len(s) + 1 /\ z \in (c + 1) - 1 .. Len(s)
    BY <1>1
  <2>2. /\ g \in Texts /\ Len(g) = z - (c + 1) + 1
        /\ \A i \in 1 .. z - (c + 1) + 1 : g[i] = s[(c + 1) + i - 1]
    BY <2>1, PartFact
  <2> QED
    BY <1>1, <2>2
<1> HIDE DEF g
<1>3. g # <<>> <=> z > c
  BY <1>1, <1>2 DEF Texts
<1>4. DOMAIN g = 1 .. z - c
  BY <1>2 DEF Texts
<1>5. IsPlain(g) <=> z > c /\ s[c + 1] # "'" /\ \A i \in c + 1 .. z : s[i] # "space"
  <2>1. ASSUME \A i \in DOMAIN g : g[i] # "space", NEW i \in c + 1 .. z
        PROVE  s[i] # "space"
    <3>1. i - c \in 1 .. z - c /\ c + (i - c) = i
      BY <1>1
    <3> QED
      BY <1>2, <1>4, <2>1, <3>1
  <2>2. ASSUME \A i \in c + 1 .. z : s[i] # "space", NEW i \in DOMAIN g
        PROVE  g[i] # "space"
    <3>1. c + i \in c + 1 .. z
      BY <1>1, <1>4
    <3> QED
      BY <1>2, <1>4, <2>2, <3>1
  <2>3. z > c => g[1] = s[c + 1]
    BY <1>1, <1>2
  <2> QED
    BY <1>3, <2>1, <2>2, <2>3 DEF IsPlain
<1>6. IsQuoted(g) <=> /\ z >= c + 3 /\ s[c + 1] = "'" /\ s[z] = "'"
                      /\ \A i \in c + 2 .. z - 1 : s[i] # "'"
  <2>1. ASSUME \A i \in 2 .. Len(g) - 1 : g[i] # "'", NEW i \in c + 2 .. z - 1
        PROVE  s[i] # "'"
    <3>1. i - c \in 1 .. z - c /\ i - c \in 2 .. Len(g) - 1 /\ c + (i - c) = i
      BY <1>1, <1>2
    <3> QED
      BY <1>2, <2>1, <3>1
  <2>2. ASSUME \A i \in c + 2 .. z - 1 : s[i] # "'", NEW i \in 2 .. Len(g) - 1
        PROVE  g[i] # "'"
    <3>1. i \in 1 .. z - c /\ c + i \in c + 2 .. z - 1
      BY <1>1, <1>2
    <3> QED
      BY <1>2, <2>2, <3>1
  <2>3. z >= c + 3 => g[1] = s[c + 1] /\ g[Len(g)] = s[z]
    <3> SUFFICES ASSUME z >= c + 3 PROVE g[1] = s[c + 1] /\ g[Len(g)] = s[z]
      OBVIOUS
    <3>1. 1 \in 1 .. z - c /\ z - c \in 1 .. z - c /\ c + (z - c) = z
      BY <1>1
    <3> QED
      BY <1>2, <3>1
  <2>4. Len(g) > 2 <=> z >= c + 3
    BY <1>1, <1>2
  <2> QED
    BY <2>1, <2>2, <2>3, <2>4 DEF IsQuoted
<1>7. IsPlain(g) \/ IsQuoted(g) <=> z > c /\ ValueAt(s, c, z)
  <2> c \in Int /\ z \in Int
    BY <1>1
  <2>1. CASE s[c + 1] = "'"
    <3>1. ~ IsPlain(g)
      BY <1>5, <2>1
    <3>2. IsQuoted(g) <=> z > c /\ ValueAt(s, c, z)
      BY <1>6, <2>1 DEF ValueAt
    <3> QED
      BY <3>1, <3>2
  <2>2. CASE s[c + 1] # "'"
    <3>1. ~ IsQuoted(g)
      BY <1>6, <2>2
    <3>2. IsPlain(g) <=> z > c /\ ValueAt(s, c, z)
      BY <1>5, <2>2 DEF ValueAt
    <3> QED
      BY <3>1, <3>2
  <2> QED
    BY <2>1, <2>2
<1> QED
  BY <1>2, <1>6, <1>7 DEF g

(***************************************************************************)
(* A part is a field exactly if it is one by position, and then its name   *)
(* and its meaning are the parts between the positions.                    *)
(***************************************************************************)
LEMMA FieldHasColon ==
    ASSUME NEW s \in Texts, NEW a \in 1 .. Len(s), NEW z \in a .. Len(s),
           IsField(SubSeq(s, a, z))
    PROVE  \E c \in a + 2 .. z - 1 : FieldAt(s, a, c, z)
<1> DEFINE f == SubSeq(s, a, z)
<1>1. Len(s) \in Nat
  BY DEF Texts
<1>2. /\ f \in Texts /\ Len(f) = z - a + 1
      /\ \A i \in 1 .. z - a + 1 : f[i] = s[a + i - 1]
  BY <1>1, PartFact
<1> DEFINE p == Position(f, 1, {":"})
           c == a + p - 1
<1>3. /\ p \in 1 .. z - a + 1 /\ f[p] = ":"
      /\ \A j \in 1 .. p - 1 : f[j] # ":"
  <2>1. PICK i \in DOMAIN f : f[i] = ":"
    BY DEF IsField
  <2>2. i \in 1 .. Len(f)
    BY <1>2 DEF Texts
  <2> HIDE DEF f
  <2>3. /\ p \in 1 .. Len(f) + 1
        /\ p <= Len(f) => f[p] \in {":"}
        /\ \A j \in 1 .. p - 1 : f[j] \notin {":"}
    <3>1. 1 \in 1 .. Len(f) + 1
      BY <1>1, <1>2
    <3> QED
      BY <1>2, <3>1, PositionFact
  <2> QED
    BY <1>1, <1>2, <2>1, <2>2, <2>3
<1>4. s[a] = "-" /\ f[1] = s[a]
  <2>1. f[1] = s[a]
    BY <1>1, <1>2
  <2> QED
    BY <2>1 DEF IsField
<1>5. p # 1
  BY <1>3, <1>4
<1> HIDE DEF f, p
<1>6. c \in a + 1 .. z /\ s[c] = ":" /\ \A i \in a .. c - 1 : s[i] # ":"
  <2>1. c \in a + 1 .. z
    BY <1>1, <1>3, <1>5
  <2>2. s[c] = ":"
    BY <1>1, <1>2, <1>3
  <2>3. ASSUME NEW i \in a .. c - 1 PROVE s[i] # ":"
    <3>1. i - a + 1 \in 1 .. p - 1 /\ i - a + 1 \in 1 .. z - a + 1
          /\ a + (i - a + 1) - 1 = i
      BY <1>1, <1>3
    <3> QED
      BY <1>2, <1>3, <3>1
  <2> QED
    BY <2>1, <2>2, <2>3
<1> HIDE DEF c
<1>7. NameOf(f) = SubSeq(s, a + 1, c - 1) /\ Given(f) = SubSeq(s, c + 1, z)
  <2>1. c \in a .. z /\ c > a
    BY <1>1, <1>6
  <2> QED
    BY <1>6, <2>1, PartsOfField DEF f
<1>8. /\ c > a + 1 /\ s[a + 1] \in Letters
      /\ \A i \in a + 1 .. c - 1 : s[i] \in NameChars
  <2>1. c \in a + 1 .. Len(s)
    BY <1>1, <1>6
  <2>2. IsName(SubSeq(s, a + 1, c - 1))
    BY <1>7 DEF IsField, f
  <2> QED
    BY <2>1, <2>2, NameIs
<1>9. z > c /\ ValueAt(s, c, z)
  <2>1. c \in 1 .. Len(s) /\ z \in c .. Len(s)
    BY <1>1, <1>6
  <2>2. IsPlain(Given(f)) \/ IsQuoted(Given(f))
    BY DEF IsField, f
  <2> QED
    BY <1>7, <2>1, <2>2, ValueIs
<1>10. c \in a + 2 .. z - 1 /\ FieldAt(s, a, c, z)
  BY <1>1, <1>4, <1>6, <1>8, <1>9 DEF FieldAt
<1> QED
  BY <1>10

LEMMA FieldFact ==
    ASSUME NEW s \in Texts, NEW a \in 1 .. Len(s), NEW z \in a .. Len(s),
           NEW c \in a + 2 .. z - 1, FieldAt(s, a, c, z)
    PROVE  /\ IsField(SubSeq(s, a, z))
           /\ NameOf(SubSeq(s, a, z)) = SubSeq(s, a + 1, c - 1)
           /\ Meaning(SubSeq(s, a, z)) = MeaningAt(s, c, z)
<1> DEFINE f == SubSeq(s, a, z)
<1>1. Len(s) \in Nat
  BY DEF Texts
<1>2. /\ f \in Texts /\ Len(f) = z - a + 1
      /\ \A i \in 1 .. z - a + 1 : f[i] = s[a + i - 1]
  BY <1>1, PartFact
<1>3. \A i \in a .. c - 1 : s[i] # ":"
  BY <1>1 DEF FieldAt, NameChars, Letters, Digits
<1>4. NameOf(f) = SubSeq(s, a + 1, c - 1) /\ Given(f) = SubSeq(s, c + 1, z)
  <2>1. c \in a .. z /\ c > a /\ s[c] = ":"
    BY <1>1 DEF FieldAt
  <2> QED
    BY <1>3, <2>1, PartsOfField
<1> HIDE DEF f
<1>5. IsName(NameOf(f))
  <2>1. c \in a + 1 .. Len(s) /\ c > a + 1
    BY <1>1
  <2> QED
    BY <1>4, <2>1, NameIs DEF FieldAt
<1>6. /\ IsPlain(Given(f)) \/ IsQuoted(Given(f))
      /\ IsQuoted(Given(f)) => s[c + 1] = "'"
      /\ Len(Given(f)) = z - c
  <2>1. c \in 1 .. Len(s) /\ z \in c .. Len(s) /\ z > c
    BY <1>1
  <2>2. ValueAt(s, c, z)
    BY DEF FieldAt
  <2> QED
    BY <1>4, <2>1, <2>2, ValueIs
<1>7. f # <<>> /\ f[1] = "-" /\ \E i \in DOMAIN f : f[i] = ":"
  <2>1. c - a + 1 \in 1 .. z - a + 1 /\ a + (c - a + 1) - 1 = c /\ Len(f) > 0
    BY <1>1, <1>2
  <2>2. f[1] = "-" /\ f[c - a + 1] = ":"
    BY <1>1, <1>2, <2>1 DEF FieldAt
  <2>3. DOMAIN f = 1 .. z - a + 1 /\ f # <<>>
    BY <1>2, <2>1 DEF Texts
  <2> QED
    BY <2>1, <2>2, <2>3
<1>8. IsField(f)
  BY <1>5, <1>6, <1>7 DEF IsField
<1>9. Meaning(f) = MeaningAt(s, c, z)
  <2>1. CASE s[c + 1] = "'"
    <3>1. IsQuoted(Given(f))
      <4>1. Given(f)[1] = "'"
        <5>1. c + 1 \in 1 .. Len(s) + 1 /\ z \in (c + 1) - 1 .. Len(s)
              /\ 1 \in 1 .. z - (c + 1) + 1 /\ (c + 1) + 1 - 1 = c + 1
          BY <1>1
        <5> QED
          BY <1>4, <2>1, <5>1, PartFact
      <4> QED
        BY <1>6, <4>1 DEF IsPlain
    <3>2. Meaning(f) = SubSeq(SubSeq(s, c + 1, z), 2, z - c - 1)
      BY <1>4, <1>6, <3>1 DEF Meaning
    <3>3. z >= c + 3
      BY <2>1 DEF FieldAt, ValueAt
    <3>4. /\ c + 1 \in 1 .. Len(s) + 1 /\ z \in (c + 1) - 1 .. Len(s)
          /\ 2 \in 1 .. z - (c + 1) + 2 /\ z - c - 1 \in 2 - 1 .. z - (c + 1) + 1
          /\ (c + 1) + 2 - 1 = c + 2 /\ (c + 1) + (z - c - 1) - 1 = z - 1
      BY <1>1, <3>3
    <3>5. SubSeq(SubSeq(s, c + 1, z), 2, z - c - 1)
            = SubSeq(s, (c + 1) + 2 - 1, (c + 1) + (z - c - 1) - 1)
      BY <3>4, PartOfPart
    <3> QED
      BY <2>1, <3>2, <3>4, <3>5 DEF MeaningAt
  <2>2. CASE s[c + 1] # "'"
    BY <1>4, <1>6, <2>2 DEF Meaning, MeaningAt
  <2> QED
    BY <2>1, <2>2
<1> QED
  BY <1>4, <1>8, <1>9 DEF f

(***************************************************************************)
(* A field that starts at a, of which another goes on past a space, would  *)
(* have that space in its value: two fields from one start cannot differ   *)
(* by a space.                                                             *)
(***************************************************************************)
LEMMA NoLongerField ==
    ASSUME NEW s \in Texts, NEW a \in 1 .. Len(s),
           NEW z \in a .. Len(s), NEW c \in a + 2 .. z - 1, FieldAt(s, a, c, z),
           NEW w \in a .. Len(s), NEW d \in a + 2 .. w - 1, FieldAt(s, a, d, w)
    PROVE  /\ c = d
           /\ \A i \in z + 1 .. w : s[i] # "space"
<1>1. Len(s) \in Nat
  BY DEF Texts
<1>2. s[c] \notin NameChars /\ s[d] \notin NameChars
  BY DEF FieldAt, NameChars, Letters, Digits
<1>3. ~ (c < d) /\ ~ (d < c)
  BY <1>1, <1>2 DEF FieldAt
<1>4. c = d
  BY <1>1, <1>3
<1>5. ASSUME NEW i \in z + 1 .. w PROVE s[i] # "space"
  <2> /\ z \in Int /\ w \in Int /\ i \in Int /\ z < i /\ i <= w
     /\ c \in Int /\ c < z
    BY <1>1
  <2>1. CASE s[c + 1] = "'"
    <3>1. /\ z >= c + 3 /\ s[z] = "'" /\ w >= c + 3 /\ s[w] = "'"
          /\ \A j \in c + 2 .. z - 1 : s[j] # "'"
          /\ \A j \in c + 2 .. w - 1 : s[j] # "'"
      BY <1>4, <2>1 DEF FieldAt, ValueAt
    <3>2. ~ (z < w)
      BY <3>1
    <3>3. z < w
      OBVIOUS
    <3> QED
      BY <3>2, <3>3
  <2>2. CASE s[c + 1] # "'"
    <3>1. \A j \in c + 1 .. w : s[j] # "space"
      BY <1>4, <2>2 DEF FieldAt, ValueAt
    <3>2. i \in c + 1 .. w
      OBVIOUS
    <3> QED
      BY <3>1, <3>2
  <2> QED
    BY <2>1, <2>2
<1> QED
  BY <1>4, <1>5

-----------------------------------------------------------------------------
(* The pieces of the first e tokens of a text, cut at K *)

Prefix(s, e) == SubSeq(s, 1, e)

(* The dashes a field may start at. *)
Starts(s, e) == {i \in 1 .. e : s[i] = "-" /\ (i = 1 \/ s[i - 1] = "space")}

(* The piece that starts at a ends at z: between it and the next start, or *)
(* the end, there are only spaces, and before the next start at least one. *)
Extends(s, e, K, a, z) ==
    /\ z \in a .. e
    /\ s[z] # "space"
    /\ \A b \in K : b <= a \/ b > z + 1
    /\ z = e \/ \E b \in K : b > z + 1 /\ \A i \in z + 1 .. b - 1 : s[i] = "space"

Tiled(s, e, K) ==
    /\ K \subseteq Starts(s, e)
    /\ \A a \in K : \E z \in a .. e : \E c \in a + 2 .. z - 1 :
           Extends(s, e, K, a, z) /\ FieldAt(s, a, c, z)

(***************************************************************************)
(* Every piece ends somewhere, and at one place only.                      *)
(***************************************************************************)
LEMMA PrefixFact ==
    ASSUME NEW s \in Texts, NEW e \in 0 .. Len(s)
    PROVE  /\ Prefix(s, e) \in Texts
           /\ Len(Prefix(s, e)) = e
           /\ \A i \in 1 .. e : Prefix(s, e)[i] = s[i]
<1>1. Len(s) \in Nat
  BY DEF Texts
<1>2. 1 \in 1 .. Len(s) + 1 /\ e \in 1 - 1 .. Len(s) /\ e - 1 + 1 = e
  BY <1>1
<1>3. /\ Prefix(s, e) \in Texts /\ Len(Prefix(s, e)) = e - 1 + 1
      /\ \A i \in 1 .. e - 1 + 1 : Prefix(s, e)[i] = s[1 + i - 1]
  BY <1>2, PartFact DEF Prefix
<1>4. \A i \in 1 .. e : 1 + i - 1 = i
  BY <1>1
<1> QED
  BY <1>2, <1>3, <1>4

LEMMA PieceEnds ==
    ASSUME NEW s \in Texts, NEW e \in 1 .. Len(s), s[e] # "space",
           NEW K, K \subseteq Starts(s, e), NEW a \in K
    PROVE  \E z \in a .. e : /\ Extends(s, e, K, a, z)
                             /\ Piece(Prefix(s, e), K, a) = SubSeq(s, a, z)
<1> DEFINE p == Prefix(s, e)
<1>1. Len(s) \in Nat /\ e \in 0 .. Len(s) /\ e \in Nat
  BY DEF Texts
<1>2. p \in Texts /\ Len(p) = e /\ \A i \in 1 .. e : p[i] = s[i]
  BY <1>1, PrefixFact
<1> HIDE DEF p
<1>3. /\ K \subseteq 1 .. e /\ a \in 1 .. e /\ s[a] = "-"
      /\ \A i \in K : i = 1 \/ s[i - 1] = "space"
  BY DEF Starts
<1> DEFINE B == {i \in K : i > a} \cup {Len(p) + 1}
           b == Min(B)
<1>4. b \in B /\ \A i \in B : b <= i
  <2>1. B \subseteq Nat
    <3>1. Len(p) + 1 \in Nat /\ \A i \in K : i \in Nat
      BY <1>1, <1>2, <1>3
    <3> QED
      BY <3>1
  <2>2. B # {}
    OBVIOUS
  <2> HIDE DEF B
  <2> QED
    BY <2>1, <2>2, MinIsLeast
<1>5. /\ b \in a + 1 .. e + 1
      /\ b = e + 1 \/ (b \in K /\ s[b - 1] = "space")
      /\ \A i \in K : i <= a \/ i >= b
  <2>1. b = e + 1 \/ (b \in K /\ b > a)
    BY <1>2, <1>4
  <2>2. ASSUME NEW i \in K PROVE i <= a \/ i >= b
    <3>1. CASE i > a
      <4>1. i \in B
        BY <3>1
      <4> QED
        BY <1>3, <1>4, <4>1
    <3> QED
      BY <1>3, <3>1
  <2> HIDE DEF b
  <2>3. b \in a + 1 .. e + 1
    <3>1. a \in 1 .. e /\ \A i \in K : i \in 1 .. e
      BY <1>3
    <3>2. CASE b = e + 1
      BY <1>1, <3>1, <3>2
    <3>3. CASE b \in K /\ b > a
      BY <1>1, <3>1, <3>3
    <3> QED
      BY <2>1, <3>2, <3>3
  <2>4. b \in K => s[b - 1] = "space"
    BY <1>3, <2>3
  <2> QED
    BY <2>1, <2>2, <2>3, <2>4
<1> HIDE DEF b, B
<1> DEFINE S == {i \in a .. b - 1 : p[i] # "space"}
           z == Max(S)
<1>6. z \in S /\ \A i \in S : i <= z
  <2>1. S \in SUBSET (0 .. e)
    BY <1>1, <1>3, <1>5
  <2>2. a \in S
    BY <1>1, <1>2, <1>3, <1>5
  <2> HIDE DEF S
  <2> QED
    BY <1>1, <2>1, <2>2, MaxIsGreatest
<1>7. /\ z \in a .. b - 1 /\ s[z] # "space"
      /\ \A i \in z + 1 .. b - 1 : s[i] = "space"
  <2>1. z \in a .. b - 1 /\ p[z] # "space"
    BY <1>6
  <2>2. ASSUME NEW i \in z + 1 .. b - 1 PROVE s[i] = "space"
    <3>1. i \in a .. b - 1 /\ i \in 1 .. e /\ ~ (i <= z)
      BY <1>1, <1>3, <1>5, <2>1
    <3>2. i \notin S
      BY <1>6, <3>1
    <3> QED
      BY <1>2, <3>1, <3>2
  <2>3. z \in 1 .. e
    BY <1>1, <1>3, <1>5, <2>1
  <2> QED
    BY <1>2, <2>1, <2>2, <2>3
<1>8. Piece(p, K, a) = SubSeq(p, a, z)
  BY DEF Piece, b, B
<1> HIDE DEF S, z
<1>9. SubSeq(p, a, z) = SubSeq(s, a, z)
  <2>1. /\ 1 \in 1 .. Len(s) + 1 /\ e \in 1 - 1 .. Len(s)
        /\ a \in 1 .. e - 1 + 2 /\ z \in a - 1 .. e - 1 + 1
        /\ 1 + a - 1 = a /\ 1 + z - 1 = z
    BY <1>1, <1>3, <1>5, <1>7
  <2>2. SubSeq(SubSeq(s, 1, e), a, z) = SubSeq(s, 1 + a - 1, 1 + z - 1)
    BY <2>1, PartOfPart
  <2> QED
    BY <2>1, <2>2 DEF p, Prefix
<1>10. Extends(s, e, K, a, z)
  <2>1. CASE b = e + 1
    <3>1. z = e
      <4>1. ~ (z < e)
        BY <1>1, <1>7, <2>1
      <4> QED
        BY <1>1, <1>5, <1>7, <2>1, <4>1
    <3>2. \A i \in K : i <= a
      BY <1>1, <1>3, <1>5, <2>1
    <3> QED
      BY <1>3, <1>7, <2>1, <3>1, <3>2 DEF Extends
  <2>2. CASE b \in K /\ s[b - 1] = "space"
    <3>1. b > z + 1
      BY <1>1, <1>5, <1>7, <2>2
    <3>2. \A i \in K : i <= a \/ i > z + 1
      BY <1>1, <1>3, <1>5, <1>7, <3>1
    <3>3. z \in a .. e
      BY <1>1, <1>3, <1>5, <1>7
    <3> QED
      BY <1>7, <2>2, <3>1, <3>2, <3>3 DEF Extends
  <2> QED
    BY <1>5, <2>1, <2>2
<1>11. z \in a .. e
  BY <1>10 DEF Extends
<1> QED
  BY <1>8, <1>9, <1>10, <1>11 DEF p

LEMMA OneEnd ==
    ASSUME NEW e \in Nat, NEW K, K \subseteq 1 .. e, NEW a \in K, NEW s,
           NEW z, Extends(s, e, K, a, z), NEW w, Extends(s, e, K, a, w)
    PROVE  z = w
<1>1. ASSUME NEW x, NEW y, Extends(s, e, K, a, x), Extends(s, e, K, a, y), x < y
      PROVE  FALSE
  <2>1. x \in a .. e /\ y \in a .. e /\ s[y] # "space"
    BY <1>1 DEF Extends
  <2>2. PICK b \in K : b > x + 1 /\ \A i \in x + 1 .. b - 1 : s[i] = "space"
    BY <1>1, <2>1 DEF Extends
  <2>3. b > y + 1
    BY <1>1, <2>1, <2>2 DEF Extends
  <2> QED
    BY <1>1, <2>1, <2>2, <2>3
<1>2. z \in a .. e /\ w \in a .. e
  BY DEF Extends
<1>3. ~ (z < w) /\ ~ (w < z)
  BY <1>1
<1> QED
  BY <1>2, <1>3

LEMMA PieceIs ==
    ASSUME NEW s \in Texts, NEW e \in 1 .. Len(s), s[e] # "space",
           NEW K, K \subseteq Starts(s, e), NEW a \in K,
           NEW z, Extends(s, e, K, a, z)
    PROVE  Piece(Prefix(s, e), K, a) = SubSeq(s, a, z)
<1>1. PICK w \in a .. e : /\ Extends(s, e, K, a, w)
                          /\ Piece(Prefix(s, e), K, a) = SubSeq(s, a, w)
  BY PieceEnds
<1>2. e \in Nat /\ K \subseteq 1 .. e
  BY DEF Texts, Starts
<1>3. z = w
  BY <1>1, <1>2, OneEnd
<1> QED
  BY <1>1, <1>3

(***************************************************************************)
(* The cuts of the first e tokens, by position.                            *)
(***************************************************************************)
LEMMA CutIsTiled ==
    ASSUME NEW s \in Texts, NEW e \in 1 .. Len(s), NEW K
    PROVE  K \in Cuts(Prefix(s, e)) <=> 1 \in K /\ s[e] # "space" /\ Tiled(s, e, K)
<1> DEFINE p == Prefix(s, e)
<1>1. Len(s) \in Nat /\ e \in 0 .. Len(s) /\ e \in Nat
  BY DEF Texts
<1>2. p \in Texts /\ Len(p) = e /\ \A i \in 1 .. e : p[i] = s[i]
  BY <1>1, PrefixFact
<1> HIDE DEF p
<1>3. {i \in 1 .. Len(p) : p[i] = "-" /\ (i = 1 \/ p[i - 1] = "space")} = Starts(s, e)
  <2>1. ASSUME NEW i \in 1 .. e
        PROVE  (i = 1 \/ p[i - 1] = "space") <=> (i = 1 \/ s[i - 1] = "space")
    <3>1. i = 1 \/ i - 1 \in 1 .. e
      BY <1>1
    <3> QED
      BY <1>2, <3>1
  <2> QED
    BY <1>2, <2>1 DEF Starts
<1>4. K \in Cuts(p) <=> /\ K \subseteq Starts(s, e) /\ 1 \in K /\ s[e] # "space"
                        /\ \A a \in K : IsField(Piece(p, K, a))
  <2>1. p[Len(p)] = s[e]
    BY <1>1, <1>2
  <2> QED
    BY <1>3, <2>1 DEF Cuts
<1>5. ASSUME K \subseteq Starts(s, e), s[e] # "space", NEW a \in K
      PROVE  IsField(Piece(p, K, a)) <=>
                 \E z \in a .. e : \E c \in a + 2 .. z - 1 :
                     Extends(s, e, K, a, z) /\ FieldAt(s, a, c, z)
  <2>1. a \in 1 .. Len(s) /\ \A z \in a .. e : z \in a .. Len(s)
    BY <1>1, <1>5 DEF Starts
  <2>2. ASSUME IsField(Piece(p, K, a))
        PROVE  \E z \in a .. e : \E c \in a + 2 .. z - 1 :
                   Extends(s, e, K, a, z) /\ FieldAt(s, a, c, z)
    <3>1. PICK z \in a .. e : /\ Extends(s, e, K, a, z)
                              /\ Piece(p, K, a) = SubSeq(s, a, z)
      BY <1>5, PieceEnds DEF p
    <3>2. \E c \in a + 2 .. z - 1 : FieldAt(s, a, c, z)
      BY <2>1, <2>2, <3>1, FieldHasColon
    <3> QED
      BY <3>1, <3>2
  <2>3. ASSUME NEW z \in a .. e, NEW c \in a + 2 .. z - 1,
               Extends(s, e, K, a, z), FieldAt(s, a, c, z)
        PROVE  IsField(Piece(p, K, a))
    <3>1. Piece(p, K, a) = SubSeq(s, a, z)
      BY <1>5, <2>3, PieceIs DEF p
    <3>2. IsField(SubSeq(s, a, z))
      BY <2>1, <2>3, FieldFact
    <3> QED
      BY <3>1, <3>2
  <2> QED
    BY <2>2, <2>3
<1> QED
  BY <1>4, <1>5 DEF Tiled, p

-----------------------------------------------------------------------------
(* One way to cut a text *)

(* Where the first e tokens of a text may be followed by another field. *)
Ends(s, e, f) == e = f \/ (e < f /\ s[e + 1] = "space")

TileFact(s, e, K) ==
    \A a \in K :
        /\ a \in 1 .. e
        /\ s[a] = "-"
        /\ a = 1 \/ s[a - 1] = "space"

LEMMA TilesStart ==
    ASSUME NEW s, NEW e, NEW K, Tiled(s, e, K)
    PROVE  TileFact(s, e, K) /\ K \subseteq 1 .. e
BY DEF Tiled, Starts, TileFact

(***************************************************************************)
(* A piece that starts at the same place ends at the same place in any cut *)
(* of any beginning of the text that a space follows.                      *)
(***************************************************************************)
LEMMA SameEnd ==
    ASSUME NEW s \in Texts, NEW e \in 1 .. Len(s), NEW f \in 1 .. Len(s), Ends(s, e, f),
           NEW K, Tiled(s, e, K), NEW L, Tiled(s, f, L),
           NEW a, a \in K, a \in L,
           NEW z, Extends(s, e, K, a, z), NEW w, Extends(s, f, L, a, w)
    PROVE  z = w
<1>1. Len(s) \in Nat /\ e \in Nat /\ f \in Nat /\ e <= f /\ f <= Len(s)
  <2>1. Len(s) \in Nat
    BY DEF Texts
  <2> QED
    BY <2>1 DEF Ends
<1>2. K \subseteq 1 .. e /\ L \subseteq 1 .. f /\ a \in 1 .. e
  BY TilesStart
<1>3. z \in a .. e /\ w \in a .. f
  BY DEF Extends
<1>4. PICK c \in a + 2 .. z - 1 : FieldAt(s, a, c, z)
  <2>1. PICK y \in a .. e : \E c \in a + 2 .. y - 1 :
            Extends(s, e, K, a, y) /\ FieldAt(s, a, c, y)
    BY DEF Tiled
  <2>2. y = z
    BY <1>1, <1>2, <2>1, OneEnd
  <2> QED
    BY <2>1, <2>2
<1>5. PICK d \in a + 2 .. w - 1 : FieldAt(s, a, d, w)
  <2>1. PICK y \in a .. f : \E d \in a + 2 .. y - 1 :
            Extends(s, f, L, a, y) /\ FieldAt(s, a, d, y)
    BY DEF Tiled
  <2>2. y = w
    BY <1>1, <1>2, <2>1, OneEnd
  <2> QED
    BY <2>1, <2>2
<1>6. a \in 1 .. Len(s) /\ z \in a .. Len(s) /\ w \in a .. Len(s)
  BY <1>1, <1>2, <1>3
<1>7. /\ \A i \in z + 1 .. w : s[i] # "space"
      /\ \A i \in w + 1 .. z : s[i] # "space"
  BY <1>4, <1>5, <1>6, NoLongerField
<1>8. z = e \/ (z < e /\ s[z + 1] = "space")
  <2>1. ASSUME NEW b \in K, b > z + 1, \A i \in z + 1 .. b - 1 : s[i] = "space"
        PROVE  z < e /\ s[z + 1] = "space"
    BY <1>1, <1>2, <1>3, <2>1
  <2> QED
    BY <2>1 DEF Extends
<1>9. w = f \/ (w < f /\ s[w + 1] = "space")
  <2>1. ASSUME NEW b \in L, b > w + 1, \A i \in w + 1 .. b - 1 : s[i] = "space"
        PROVE  w < f /\ s[w + 1] = "space"
    BY <1>1, <1>2, <1>3, <2>1
  <2> QED
    BY <2>1 DEF Extends
<1>10. ~ (z < w)
  <2>1. z < w => s[z + 1] = "space"
    BY <1>1, <1>3, <1>8 DEF Ends
  <2> QED
    BY <1>1, <1>6, <1>7, <2>1
<1>11. ~ (w < z)
  <2>1. w < z => s[w + 1] = "space"
    BY <1>1, <1>3, <1>9
  <2> QED
    BY <1>1, <1>6, <1>7, <2>1
<1> QED
  BY <1>1, <1>6, <1>10, <1>11

(***************************************************************************)
(* The cuts of a beginning and of the text agree on the beginning: at the  *)
(* first start on which they differ, the piece before it would end before  *)
(* it in one and go on over it in the other.                               *)
(***************************************************************************)
LEMMA CutsAgree ==
    ASSUME NEW s \in Texts, NEW e \in 1 .. Len(s), NEW f \in 1 .. Len(s), Ends(s, e, f),
           NEW K, Tiled(s, e, K), 1 \in K, NEW L, Tiled(s, f, L), 1 \in L
    PROVE  K = {i \in L : i <= e}
<1>1. Len(s) \in Nat /\ e \in Nat /\ f \in Nat /\ e <= f /\ f <= Len(s)
  <2>1. Len(s) \in Nat
    BY DEF Texts
  <2> QED
    BY <2>1 DEF Ends
<1>2. /\ K \subseteq 1 .. e /\ TileFact(s, e, K)
      /\ L \subseteq 1 .. f /\ TileFact(s, f, L)
  BY TilesStart
<1> DEFINE D == {i \in 1 .. e : ~ (i \in K <=> i \in L)}
<1>3. SUFFICES ASSUME D # {} PROVE FALSE
  <2>1. ASSUME D = {}, NEW i PROVE i \in K <=> i \in L /\ i <= e
    <3>1. i \in K => i \in 1 .. e
      BY <1>2
    <3>2. i \in L /\ i <= e => i \in 1 .. e
      BY <1>1, <1>2
    <3>3. i \in 1 .. e => i <= e /\ (i \in K <=> i \in L)
      BY <1>1, <2>1
    <3> QED
      BY <3>1, <3>2, <3>3
  <2> QED
    BY <2>1
<1> DEFINE x == Min(D)
<1>4. /\ x \in 1 .. e /\ ~ (x \in K <=> x \in L)
      /\ \A i \in 1 .. x - 1 : i \in K <=> i \in L
  <2>1. x \in D /\ \A i \in D : x <= i
    <3>1. D \in SUBSET Nat
      BY <1>1
    <3> HIDE DEF D
    <3> QED
      BY <1>3, <3>1, MinIsLeast
  <2> HIDE DEF x
  <2>2. ASSUME NEW i \in 1 .. x - 1 PROVE i \in K <=> i \in L
    <3>1. i \in 1 .. e /\ ~ (x <= i)
      BY <1>1, <2>1
    <3> QED
      BY <2>1, <3>1
  <2> QED
    BY <2>1, <2>2
<1> HIDE DEF x, D
<1>5. x > 1 /\ s[x] = "-" /\ s[x - 1] = "space"
  BY <1>1, <1>2, <1>4 DEF TileFact
(* The start before x, in both. *)
<1> DEFINE P == {i \in L : i < x}
           a == Max(P)
<1>6. /\ a \in L /\ a \in K /\ a < x /\ a >= 1
      /\ \A i \in L : i <= a \/ i >= x
      /\ \A i \in K : i <= a \/ i >= x
  <2>1. P \subseteq 0 .. f /\ 1 \in P
    <3>1. \A i \in L : i \in 0 .. f
      BY <1>1, <1>2
    <3> QED
      BY <1>5, <3>1
  <2> HIDE DEF P
  <2>2. a \in P /\ \A i \in P : i <= a
    BY <1>1, <2>1, MaxIsGreatest
  <2> USE DEF P
  <2> HIDE DEF a
  <2>3. a \in L /\ a < x /\ a \in 1 .. f
    BY <1>2, <2>2
  <2>4. a \in K
    BY <1>1, <1>4, <2>3
  <2>5. ASSUME NEW i \in L PROVE i <= a \/ i >= x
    <3>1. i \in 1 .. f
      BY <1>2
    <3>2. CASE i < x
      BY <2>2, <3>2
    <3> QED
      BY <1>4, <3>1, <3>2
  <2>6. ASSUME NEW i \in K PROVE i <= a \/ i >= x
    <3>1. i \in 1 .. e
      BY <1>2
    <3>2. CASE i < x
      <4>1. i \in L
        BY <1>4, <3>1, <3>2
      <4> QED
        BY <2>2, <3>2, <4>1
    <3> QED
      BY <1>4, <3>1, <3>2
  <2> QED
    BY <1>1, <2>3, <2>4, <2>5, <2>6
<1> HIDE DEF P, a
<1>7. PICK z \in a .. e : Extends(s, e, K, a, z)
  BY <1>6 DEF Tiled
<1>8. PICK w \in a .. f : Extends(s, f, L, a, w)
  BY <1>6 DEF Tiled
<1>9. z = w
  BY <1>6, <1>7, <1>8, SameEnd
<1>10. ASSUME NEW g, NEW J, NEW y, g \in Nat, x <= g, J \subseteq 1 .. g,
              Extends(s, g, J, a, y), \A i \in J : i <= a \/ i >= x
       PROVE  x \in J <=> y < x
  <2>0. a \in Int /\ x \in Int /\ y \in Int /\ a <= y /\ y <= g /\ s[y] # "space"
    BY <1>1, <1>2, <1>4, <1>6, <1>10 DEF Extends
  <2>1. ASSUME x \in J PROVE y < x
    <3>1. x > y + 1
      BY <1>6, <1>10, <2>0, <2>1 DEF Extends
    <3> QED
      BY <2>0, <3>1
  <2>2. ASSUME y < x PROVE x \in J
    <3>1. y # g
      BY <1>10, <2>0, <2>2
    <3>2. PICK b \in J : b > y + 1 /\ \A i \in y + 1 .. b - 1 : s[i] = "space"
      BY <1>10, <3>1 DEF Extends
    <3>3. b \in Int /\ b >= x
      BY <1>10, <2>0, <3>2
    <3>4. ~ (x < b)
      BY <1>5, <2>0, <2>2, <3>2, <3>3
    <3> QED
      BY <2>0, <3>2, <3>3, <3>4
  <2> QED
    BY <2>1, <2>2
<1>11. x \in K <=> z < x
  <2>1. x <= e
    BY <1>1, <1>4
  <2> QED
    BY <1>1, <1>2, <1>6, <1>7, <1>10, <2>1
<1>12. x \in L <=> w < x
  <2>1. x <= f
    BY <1>1, <1>4
  <2> QED
    BY <1>1, <1>2, <1>6, <1>8, <1>10, <2>1
<1> QED
  BY <1>4, <1>9, <1>11, <1>12

(***************************************************************************)
(* No text can be cut into fields in two ways: neither a dash inside a     *)
(* value nor a space inside quotes lets a link say two things.             *)
(***************************************************************************)
THEOREM OneCut ==
    ASSUME NEW s \in Texts, NEW K \in Cuts(s), NEW L \in Cuts(s)
    PROVE  K = L
<1>1. Len(s) \in Nat
  BY DEF Texts
<1> DEFINE n == Len(s)
<1>2. n \in 1 .. n
  BY <1>1 DEF Cuts
<1>3. Prefix(s, n) = s
  BY SubSeqFull DEF Prefix, Texts
<1>4. Tiled(s, n, K) /\ 1 \in K /\ Tiled(s, n, L) /\ 1 \in L
  BY <1>2, <1>3, CutIsTiled
<1>5. K = {i \in L : i <= n}
  BY <1>2, <1>4, CutsAgree DEF Ends
<1>6. L \subseteq 1 .. n
  BY <1>4, TilesStart
<1>7. \A i \in L : i <= n
  BY <1>1, <1>6
<1> QED
  BY <1>5, <1>7

-----------------------------------------------------------------------------
(* From a beginning of a text to one more field *)

(* The cuts of the first e tokens; nothing is cut in one way. *)
CutsTo(s, e) == IF e = 0 THEN {{}} ELSE Cuts(Prefix(s, e))

(* A field of the text. *)
Spans(s, a, c, z) ==
    /\ a \in 1 .. Len(s) /\ c \in 1 .. Len(s) /\ z \in 1 .. Len(s)
    /\ a + 2 <= c /\ c < z
    /\ FieldAt(s, a, c, z)

With(K, a) == K \cup {a}

(* The field after the first e tokens would start at a. *)
Gap(s, e, a) ==
    \/ e = 0 /\ a = 1
    \/ e > 0 /\ a > e + 1 /\ \A i \in e + 1 .. a - 1 : s[i] = "space"

Follows(s, e, a) ==
    /\ Gap(s, e, a)
    /\ a \in 1 .. Len(s) + 1
    /\ e > 0 /\ a <= Len(s) => s[a] # "space"

LEMMA CutToIsTiled ==
    ASSUME NEW s \in Texts, NEW e \in 0 .. Len(s), NEW K, K \in CutsTo(s, e)
    PROVE  /\ e \in Nat /\ Len(s) \in Nat /\ e <= Len(s)
           /\ K \subseteq Starts(s, e) /\ K \subseteq 1 .. e /\ TileFact(s, e, K)
           /\ Tiled(s, e, K)
           /\ e > 0 => 1 \in K /\ s[e] # "space"
<1>1. Len(s) \in Nat
  BY DEF Texts
<1>2. e \in Nat /\ e <= Len(s)
  BY <1>1
<1>3. Tiled(s, e, K) /\ (e > 0 => 1 \in K /\ s[e] # "space")
  <2>1. CASE e = 0
    <3>1. K = {}
      BY <2>1 DEF CutsTo
    <3> QED
      BY <2>1, <3>1 DEF Tiled
  <2>2. CASE e > 0
    <3>1. e \in 1 .. Len(s) /\ K \in Cuts(Prefix(s, e))
      BY <1>1, <1>2, <2>2 DEF CutsTo
    <3> QED
      BY <3>1, CutIsTiled
  <2> QED
    BY <1>2, <2>1, <2>2
<1>4. K \subseteq Starts(s, e)
  BY <1>3 DEF Tiled
<1> QED
  BY <1>1, <1>2, <1>3, <1>4, TilesStart

(***************************************************************************)
(* A field after a cut beginning makes a longer one, with one more piece   *)
(* and the others as they were.                                            *)
(***************************************************************************)
LEMMA OneMoreField ==
    ASSUME NEW s \in Texts, NEW e \in 0 .. Len(s), NEW K, K \in CutsTo(s, e),
           NEW a, NEW c, NEW z, Gap(s, e, a), Spans(s, a, c, z),
           NEW M, M = With(K, a)
    PROVE  /\ a \notin K
           /\ M \in Cuts(Prefix(s, z))
           /\ Piece(Prefix(s, z), M, a) = SubSeq(s, a, z)
           /\ \A b \in K : Piece(Prefix(s, z), M, b) = Piece(Prefix(s, e), K, b)
<1>0. \A b : b \in M <=> b \in K \/ b = a
  BY DEF With
<1>1. /\ e \in Nat /\ Len(s) \in Nat /\ e <= Len(s)
      /\ K \subseteq Starts(s, e) /\ K \subseteq 1 .. e /\ TileFact(s, e, K)
      /\ Tiled(s, e, K)
      /\ e > 0 => 1 \in K /\ s[e] # "space"
  BY CutToIsTiled
<1>2. /\ a \in Nat /\ z \in Nat /\ c \in Nat /\ a <= z /\ z <= Len(s) /\ 1 <= a
      /\ e < a /\ c > a + 1 /\ c < z
      /\ e > 0 => e + 1 < a /\ \A i \in e + 1 .. a - 1 : s[i] = "space"
      /\ e = 0 => a = 1
      /\ FieldAt(s, a, c, z)
  <2>1. a \in Nat /\ z \in Nat /\ c \in Nat /\ a <= z /\ z <= Len(s) /\ 1 <= a
        /\ c > a + 1 /\ c < z /\ FieldAt(s, a, c, z)
    BY <1>1 DEF Spans
  <2> QED
    BY <1>1, <2>1 DEF Gap
<1>3. s[a] = "-" /\ (a = 1 \/ s[a - 1] = "space") /\ 1 \in M
  <2>1. e > 0 => s[a - 1] = "space"
    <3> SUFFICES ASSUME e > 0 PROVE s[a - 1] = "space"
      OBVIOUS
    <3>1. a - 1 \in e + 1 .. a - 1
      BY <1>1, <1>2
    <3> QED
      BY <1>2, <3>1
  <2>2. e = 0 \/ e > 0
    BY <1>1
  <2> QED
    BY <1>0, <1>1, <1>2, <2>1, <2>2 DEF FieldAt
<1>4. s[z] # "space"
  BY <1>2 DEF FieldAt, ValueAt
<1>5. a \notin K /\ M \subseteq Starts(s, z)
  <2>1. a \notin K
    BY <1>1, <1>2
  <2>2. a \in Starts(s, z)
    BY <1>2, <1>3 DEF Starts
  <2>3. ASSUME NEW i, i \in K PROVE i \in Starts(s, z)
    <3>1. i \in Starts(s, e) /\ i \in 1 .. e /\ i \in 1 .. z
      BY <1>1, <1>2, <2>3
    <3> QED
      BY <3>1 DEF Starts
  <2> QED
    BY <1>0, <2>1, <2>2, <2>3
<1>6. Extends(s, z, M, a, z)
  <2>1. ASSUME NEW b, b \in M PROVE b <= a \/ b > z + 1
    <3>1. b = a => b <= a
      BY <1>2
    <3>2. b \in K => b <= a
      BY <1>1, <1>2
    <3> QED
      BY <1>0, <2>1, <3>1, <3>2
  <2>2. z \in a .. z
    BY <1>2
  <2> QED
    BY <1>4, <2>1, <2>2 DEF Extends
<1>7. ASSUME NEW b, b \in K, NEW y, Extends(s, e, K, b, y) PROVE Extends(s, z, M, b, y)
  <2>1. b \in 1 .. e /\ y \in b .. e /\ s[y] # "space"
    BY <1>1, <1>7 DEF Extends
  <2>2. y \in b .. z
    BY <1>1, <1>2, <2>1
  <2>3. ASSUME NEW i, i \in M PROVE i <= b \/ i > y + 1
    <3>1. CASE i = a
      BY <1>1, <1>2, <2>1, <3>1
    <3>2. CASE i \in K
      BY <1>7, <3>2 DEF Extends
    <3> QED
      BY <1>0, <2>3, <3>1, <3>2
  <2>4. \E i \in M : i > y + 1 /\ \A j \in y + 1 .. i - 1 : s[j] = "space"
    <3>1. CASE y = e
      <4>1. a \in M /\ a > y + 1 /\ \A j \in y + 1 .. a - 1 : s[j] = "space"
        BY <1>0, <1>1, <1>2, <2>1, <3>1
      <4> QED
        BY <4>1
    <3>2. CASE \E i \in K : i > y + 1 /\ \A j \in y + 1 .. i - 1 : s[j] = "space"
      BY <1>0, <3>2
    <3> QED
      BY <1>7, <3>1, <3>2 DEF Extends
  <2> QED
    BY <2>1, <2>2, <2>3, <2>4 DEF Extends
<1>8. Tiled(s, z, M)
  <2>1. ASSUME NEW b, b \in M
        PROVE  \E y \in b .. z : \E d \in b + 2 .. y - 1 :
                   Extends(s, z, M, b, y) /\ FieldAt(s, b, d, y)
    <3>1. CASE b = a
      <4>1. z \in a .. z /\ c \in a + 2 .. z - 1 /\ FieldAt(s, a, c, z)
        BY <1>2
      <4> QED
        BY <1>6, <3>1, <4>1
    <3>2. CASE b \in K
      <4>1. PICK y \in b .. e : \E d \in b + 2 .. y - 1 :
                Extends(s, e, K, b, y) /\ FieldAt(s, b, d, y)
        BY <1>1, <3>2 DEF Tiled
      <4>2. Extends(s, z, M, b, y)
        BY <1>7, <3>2, <4>1
      <4>3. y \in b .. z
        BY <4>2 DEF Extends
      <4> QED
        BY <4>1, <4>2, <4>3
    <3> QED
      BY <1>0, <2>1, <3>1, <3>2
  <2> QED
    BY <1>5, <2>1 DEF Tiled
<1>9. z \in 1 .. Len(s)
  BY <1>1, <1>2
<1>10. M \in Cuts(Prefix(s, z))
  BY <1>3, <1>4, <1>8, <1>9, CutIsTiled
<1>11. ASSUME NEW b, b \in M, NEW y, Extends(s, z, M, b, y)
       PROVE  Piece(Prefix(s, z), M, b) = SubSeq(s, b, y)
  <2>1. M \subseteq Starts(s, z)
    BY <1>5
  <2> QED
    BY <1>4, <1>9, <1>11, <2>1, PieceIs
<1>12. ASSUME NEW b, b \in K
       PROVE  Piece(Prefix(s, z), M, b) = Piece(Prefix(s, e), K, b)
  <2>1. e \in 1 .. Len(s) /\ s[e] # "space"
    BY <1>1, <1>12
  <2>2. PICK y \in b .. e : /\ Extends(s, e, K, b, y)
                            /\ Piece(Prefix(s, e), K, b) = SubSeq(s, b, y)
    <3>1. K \subseteq Starts(s, e) /\ b \in K
      BY <1>1, <1>12
    <3> QED
      BY <2>1, <3>1, PieceEnds
  <2>3. Extends(s, z, M, b, y) /\ b \in M
    BY <1>0, <1>7, <1>12, <2>2
  <2>4. Piece(Prefix(s, z), M, b) = SubSeq(s, b, y)
    BY <1>11, <2>3
  <2> QED
    BY <2>2, <2>4
<1> QED
  <2>1. Piece(Prefix(s, z), M, a) = SubSeq(s, a, z)
    BY <1>0, <1>6, <1>11
  <2> QED
    BY <1>5, <1>10, <1>12, <2>1

(***************************************************************************)
(* Every cut of the whole text goes on with a field where the text goes on *)
(* after the spaces, and has the pieces of the cut beginning before it.    *)
(***************************************************************************)
LEMMA CutGoesOn ==
    ASSUME NEW s \in Texts, NEW L, L \in Cuts(s),
           NEW e \in 0 .. Len(s), NEW K, K \in CutsTo(s, e),
           NEW a, Follows(s, e, a)
    PROVE  /\ a \in L /\ a \notin K /\ K \subseteq L
           /\ \A b \in K : Piece(Prefix(s, e), K, b) = Piece(s, L, b)
           /\ \E c, z : /\ Spans(s, a, c, z) /\ Ends(s, z, Len(s))
                        /\ Piece(s, L, a) = SubSeq(s, a, z)
<1> DEFINE n == Len(s)
<1>1. /\ e \in Nat /\ n \in Nat /\ e <= n
      /\ K \subseteq Starts(s, e) /\ K \subseteq 1 .. e /\ TileFact(s, e, K)
      /\ Tiled(s, e, K)
      /\ e > 0 => 1 \in K /\ s[e] # "space"
  BY CutToIsTiled
<1>2. Prefix(s, n) = s /\ n \in 1 .. Len(s)
  <2>1. Prefix(s, n) = s
    BY SubSeqFull DEF Prefix, Texts
  <2> QED
    BY <1>1, <2>1 DEF Cuts
<1>3. /\ 1 \in L /\ s[n] # "space" /\ Tiled(s, n, L)
      /\ L \subseteq Starts(s, n) /\ L \subseteq 1 .. n /\ TileFact(s, n, L)
  <2>1. 1 \in L /\ s[n] # "space" /\ Tiled(s, n, L)
    BY <1>2, CutIsTiled
  <2> QED
    BY <2>1, TilesStart DEF Tiled
<1> HIDE DEF n
<1>4. a \in Nat /\ e < a /\ (e > 0 => e + 1 < a) /\ (e = 0 => a = 1) /\ a <= n + 1
  <2>1. a \in Nat /\ a <= n + 1 /\ Gap(s, e, a)
    BY <1>1 DEF n, Follows
  <2> QED
    BY <1>1, <2>1 DEF Gap
<1>5. a \notin K
  BY <1>1, <1>4
(* The pieces of the beginning end where those of the text do. *)
<1>6. e > 0 => e \in 1 .. Len(s) /\ e < n /\ s[e + 1] = "space" /\ Ends(s, e, n)
  <2> SUFFICES ASSUME e > 0 PROVE e < n /\ s[e + 1] = "space"
    BY <1>1 DEF Ends, n
  <2>1. e + 1 \in e + 1 .. a - 1 /\ e < n
    BY <1>1, <1>4
  <2> QED
    BY <1>1, <2>1 DEF Follows, Gap
<1>7. e > 0 => K = {i \in L : i <= e}
  <2> SUFFICES ASSUME e > 0 PROVE K = {i \in L : i <= e}
    OBVIOUS
  <2>1. n \in 1 .. Len(s) /\ 1 \in K
    BY <1>1, <1>2
  <2> QED
    BY <1>1, <1>3, <1>6, <2>1, CutsAgree
<1>8. K \subseteq L
  <2>1. e = 0 => K = {}
    BY <1>1
  <2> QED
    BY <1>1, <1>7, <2>1
<1>9. ASSUME NEW b, b \in K, NEW z, Extends(s, e, K, b, z) PROVE Extends(s, n, L, b, z)
  <2>1. b \in 1 .. e /\ e > 0 /\ b \in L
    BY <1>1, <1>8, <1>9
  <2>2. PICK w \in b .. n : Extends(s, n, L, b, w)
    BY <1>3, <2>1 DEF Tiled
  <2>3. n \in 1 .. Len(s)
    BY <1>2
  <2>4. z = w
    BY <1>1, <1>3, <1>6, <1>9, <2>1, <2>2, <2>3, SameEnd
  <2> QED
    BY <2>2, <2>4
<1>10. ASSUME NEW b, b \in L, NEW z, Extends(s, n, L, b, z)
       PROVE  Piece(s, L, b) = SubSeq(s, b, z)
  <2>1. n \in 1 .. Len(s)
    BY <1>2
  <2>2. Piece(Prefix(s, n), L, b) = SubSeq(s, b, z)
    BY <1>3, <1>10, <2>1, PieceIs
  <2> QED
    BY <1>2, <2>2
<1>11. ASSUME NEW b, b \in K PROVE Piece(Prefix(s, e), K, b) = Piece(s, L, b)
  <2>1. e \in 1 .. Len(s) /\ s[e] # "space"
    BY <1>1, <1>6, <1>11
  <2>2. PICK z \in b .. e : /\ Extends(s, e, K, b, z)
                            /\ Piece(Prefix(s, e), K, b) = SubSeq(s, b, z)
    BY <1>1, <1>11, <2>1, PieceEnds
  <2>3. Piece(s, L, b) = SubSeq(s, b, z)
    BY <1>8, <1>9, <1>10, <1>11, <2>2
  <2> QED
    BY <2>2, <2>3
(* The last piece of the beginning is not the last of the text. *)
<1>12. a \in L
  <2>1. CASE e = 0
    BY <1>3, <1>4, <2>1
  <2>2. CASE e > 0
    <3> DEFINE m == Max(K)
    <3>1. m \in K /\ \A i \in K : i <= m
      <4>1. K \subseteq 0 .. e /\ K # {}
        <5>1. \A i \in K : i \in 0 .. e
          BY <1>1
        <5> QED
          BY <1>1, <2>2, <5>1
      <4> QED
        BY <1>1, <4>1, MaxIsGreatest
    <3> HIDE DEF m
    <3>2. PICK z \in m .. e : Extends(s, e, K, m, z)
      BY <1>1, <3>1 DEF Tiled
    <3>3. m \in 1 .. e /\ z \in Nat
      BY <1>1, <3>1, <3>2
    <3>4. z = e
      <4>1. ASSUME NEW b \in K, b > z + 1 PROVE FALSE
        <5>1. b <= m /\ b \in 1 .. e
          BY <1>1, <3>1
        <5> QED
          BY <1>1, <3>2, <3>3, <4>1, <5>1
      <4> QED
        BY <3>2, <4>1 DEF Extends
    <3>5. Extends(s, n, L, m, e)
      BY <1>9, <3>1, <3>2, <3>4
    <3>6. PICK b \in L : b > e + 1 /\ \A i \in e + 1 .. b - 1 : s[i] = "space"
      BY <1>1, <1>6, <2>2, <3>5 DEF Extends
    <3>7. b \in 1 .. n /\ s[b] = "-"
      BY <1>3 DEF TileFact
    <3>8. ~ (a < b)
      <4>1. a < b => a <= Len(s) /\ s[a] = "space"
        BY <1>1, <1>4, <2>2, <3>6, <3>7 DEF n
      <4>2. a <= Len(s) => s[a] # "space"
        BY <2>2 DEF Follows
      <4> QED
        BY <4>1, <4>2
    <3>9. ~ (b < a)
      <4>1. \A i \in e + 1 .. a - 1 : s[i] = "space"
        BY <1>1, <2>2 DEF Follows, Gap
      <4>2. b < a => s[b] = "space"
        BY <1>1, <1>4, <2>2, <3>6, <3>7, <4>1
      <4> QED
        BY <3>7, <4>2
    <3> QED
      BY <1>4, <3>7, <3>8, <3>9
  <2> QED
    BY <1>1, <2>1, <2>2
<1>13. \E c, z : /\ Spans(s, a, c, z) /\ Ends(s, z, Len(s))
                  /\ Piece(s, L, a) = SubSeq(s, a, z)
  <2>1. PICK z \in a .. n : \E d \in a + 2 .. z - 1 :
            Extends(s, n, L, a, z) /\ FieldAt(s, a, d, z)
    BY <1>3, <1>12 DEF Tiled
  <2>2. PICK c \in a + 2 .. z - 1 : Extends(s, n, L, a, z) /\ FieldAt(s, a, c, z)
    BY <2>1
  <2>3. Piece(s, L, a) = SubSeq(s, a, z)
    BY <1>10, <1>12, <2>1
  <2>4. z \in Nat /\ c \in Nat /\ a <= z /\ z <= n /\ a + 2 <= c /\ c < z
    BY <1>1, <1>4
  <2>5. z = n \/ (z < n /\ s[z + 1] = "space")
    <3>1. ASSUME NEW b \in L, b > z + 1, \A i \in z + 1 .. b - 1 : s[i] = "space"
          PROVE  z < n /\ s[z + 1] = "space"
      <4>1. b \in 1 .. n /\ z \in Nat
        BY <1>1, <1>3, <1>4, <2>1
      <4>2. z + 1 \in z + 1 .. b - 1 /\ z < n
        BY <1>1, <3>1, <4>1
      <4> QED
        BY <3>1, <4>2
    <3> QED
      BY <2>1, <3>1 DEF Extends
  <2>6. Ends(s, z, n)
    BY <2>5 DEF Ends
  <2>7. a \in 1 .. n /\ c \in 1 .. n /\ z \in 1 .. n
    BY <1>1, <1>3, <1>12, <2>4
  <2>8. Spans(s, a, c, z)
    BY <2>2, <2>4, <2>7 DEF Spans, n
  <2> QED
    BY <2>3, <2>6, <2>8 DEF n
<1> QED
  BY <1>5, <1>8, <1>11, <1>12, <1>13

(* What was said, and a value under a name, if the name is required. *)
Adding(old, new, value) ==
    [n \in DOMAIN old \cup ({new} \cap Required) |-> IF n = new THEN value ELSE old[n]]

(***************************************************************************)
(* What a longer beginning says: what it said before, and the meaning of   *)
(* the new field under its name, if the name is required and new.          *)
(***************************************************************************)
LEMMA SaysMore ==
    ASSUME NEW s \in Texts, NEW e \in 0 .. Len(s), NEW K, K \in CutsTo(s, e),
           NEW a, NEW c, NEW z, Gap(s, e, a), Spans(s, a, c, z),
           NEW new, new = FieldName(SubSeq(s, a + 1, c - 1)),
           NEW old, old = Says(Prefix(s, e), K), new \notin DOMAIN old,
           NEW M, M = With(K, a)
    PROVE  /\ Says(Prefix(s, z), M) = Adding(old, new, MeaningAt(s, c, z))
           /\ IsFiniteSet(K)
           /\ Cardinality(M) = Cardinality(K) + 1
           /\ \A n \in Required :
                  Cardinality(Naming(Prefix(s, e), K, n)) <= 1
                      => Cardinality(Naming(Prefix(s, z), M, n)) <= 1
<1> DEFINE P == Prefix(s, e)
           Q == Prefix(s, z)
<1>1. /\ a \notin K
      /\ Piece(Q, M, a) = SubSeq(s, a, z)
      /\ \A b \in K : Piece(Q, M, b) = Piece(P, K, b)
  BY OneMoreField
<1>0. M = K \cup {a} /\ \A b : b \in M <=> b \in K \/ b = a
  BY DEF With
<1>2. NameOf(SubSeq(s, a, z)) = SubSeq(s, a + 1, c - 1)
      /\ Meaning(SubSeq(s, a, z)) = MeaningAt(s, c, z)
  <2>1. a \in 1 .. Len(s) /\ z \in a .. Len(s) /\ c \in a + 2 .. z - 1
        /\ FieldAt(s, a, c, z)
    <3>1. Len(s) \in Nat
      BY DEF Texts
    <3> QED
      BY <3>1 DEF Spans
  <2> QED
    BY <2>1, FieldFact
<1> HIDE DEF P, Q
<1>3. ASSUME NEW n
      PROVE  Naming(Q, M, n) = Naming(P, K, n) \cup (IF n = new THEN {a} ELSE {})
  <2>1. FieldName(NameOf(Piece(Q, M, a))) = new
    BY <1>1, <1>2
  <2> QED
    BY <1>0, <1>1, <2>1 DEF Naming
<1>4. \A n \in Required : n = new => Naming(P, K, n) = {}
  <2>1. DOMAIN old = {m \in Required : Naming(P, K, m) # {}}
    BY DEF Says, P
  <2> QED
    BY <2>1
<1>5. Says(Q, M) = Adding(old, new, MeaningAt(s, c, z))
  <2>1. {m \in Required : Naming(Q, M, m) # {}} = DOMAIN old \cup ({new} \cap Required)
    <3>1. DOMAIN old = {m \in Required : Naming(P, K, m) # {}}
      BY DEF Says, P
    <3> QED
      BY <1>3, <3>1
  <2>2. ASSUME NEW n, n \in DOMAIN old \cup ({new} \cap Required)
        PROVE  Meaning(Piece(Q, M, CHOOSE b \in Naming(Q, M, n) : TRUE))
                 = IF n = new THEN MeaningAt(s, c, z) ELSE old[n]
    <3>1. CASE n = new
      <4>1. Naming(Q, M, n) = {a}
        <5>1. n \in Required
          BY <2>2, <3>1
        <5> QED
          BY <1>3, <1>4, <3>1, <5>1
      <4>2. (CHOOSE b \in Naming(Q, M, n) : TRUE) = a
        BY <4>1
      <4> QED
        BY <1>1, <1>2, <3>1, <4>2
    <3>2. CASE n # new
      <4>1. Naming(Q, M, n) = Naming(P, K, n)
        BY <1>3, <3>2
      <4>2. n \in Required /\ Naming(P, K, n) # {}
            /\ old[n] = Meaning(Piece(P, K, CHOOSE b \in Naming(P, K, n) : TRUE))
        BY <2>2, <3>2 DEF Says, P
      <4>3. (CHOOSE b \in Naming(P, K, n) : TRUE) \in K
        BY <4>2 DEF Naming
      <4> QED
        BY <1>1, <3>2, <4>1, <4>2, <4>3
    <3> QED
      BY <3>1, <3>2
  <2> QED
    BY <2>1, <2>2 DEF Says, Adding
<1>6. IsFiniteSet(K) /\ Cardinality(M) = Cardinality(K) + 1
  <2>1. e \in Nat /\ K \subseteq 1 .. e
    BY CutToIsTiled
  <2>2. IsFiniteSet(1 .. e)
    BY <2>1, FS_Interval
  <2>3. IsFiniteSet(K)
    BY <2>1, <2>2, FS_Subset
  <2> QED
    BY <1>0, <1>1, <2>3, FS_AddElement
<1>7. ASSUME NEW n \in Required, Cardinality(Naming(P, K, n)) <= 1
      PROVE  Cardinality(Naming(Q, M, n)) <= 1
  <2>1. CASE n = new
    <3>1. Naming(Q, M, n) = {a}
      BY <1>3, <1>4, <2>1
    <3>2. Cardinality({a}) = 1
      BY FS_Singleton
    <3> QED
      BY <3>1, <3>2
  <2>2. CASE n # new
    BY <1>3, <1>7, <2>2
  <2> QED
    BY <2>1, <2>2
<1> QED
  BY <1>5, <1>6, <1>7 DEF P, Q

-----------------------------------------------------------------------------
(* Arguments *)

(***************************************************************************)
(* The elements of a finite set of numbers have the ranks 1, 2, ...: the   *)
(* rank is one-to-one, as a greater element counts itself too, and so it   *)
(* takes every value up to the number of elements.                         *)
(***************************************************************************)
LEMMA EveryRank ==
    ASSUME NEW n \in Nat, NEW S \in SUBSET (1 .. n), NEW k \in 1 .. Cardinality(S)
    PROVE  \E i \in S : Cardinality({j \in S : j <= i}) = k
<1> DEFINE UpTo(i) == {j \in S : j <= i}
           m == Cardinality(S)
           rank == [i \in S |-> Cardinality(UpTo(i))]
<1>1. IsFiniteSet(S)
  <2>1. IsFiniteSet(1 .. n)
    BY FS_Interval
  <2> QED
    BY <2>1, FS_Subset
<1>2. m \in Nat
  BY <1>1, FS_CardinalityType
<1>3. ASSUME NEW i \in S
      PROVE  IsFiniteSet(UpTo(i)) /\ Cardinality(UpTo(i)) \in 1 .. m
  <2>1. UpTo(i) \in SUBSET S /\ i \in UpTo(i)
    OBVIOUS
  <2> HIDE DEF UpTo
  <2>2. IsFiniteSet(UpTo(i)) /\ Cardinality(UpTo(i)) <= m
    BY <1>1, <2>1, FS_Subset
  <2>3. Cardinality(UpTo(i)) \in Nat /\ Cardinality(UpTo(i)) # 0
    BY <2>1, <2>2, FS_CardinalityType, FS_EmptySet
  <2> QED
    BY <1>2, <2>2, <2>3
<1>4. ASSUME NEW i \in S, NEW j \in S, i < j
      PROVE  Cardinality(UpTo(i)) # Cardinality(UpTo(j))
  <2>1. UpTo(i) \in SUBSET UpTo(j) /\ j \in UpTo(j) /\ j \notin UpTo(i)
    <3>1. \A b \in S : b <= i => b <= j
      BY <1>4
    <3>2. j <= j /\ ~ (j <= i)
      BY <1>4
    <3> QED
      BY <3>1, <3>2
  <2> HIDE DEF UpTo
  <2> QED
    BY <1>3, <2>1, FS_Subset
<1> HIDE DEF UpTo, m
<1>5. rank \in Injection(S, 1 .. m)
  <2>1. rank \in [S -> 1 .. m]
    BY <1>3
  <2>2. ASSUME NEW i \in S, NEW j \in S, rank[i] = rank[j] PROVE i = j
    <3>1. ~ (i < j) /\ ~ (j < i)
      BY <1>4, <2>2
    <3> QED
      BY <3>1
  <2> HIDE DEF rank
  <2> QED
    BY <2>1, <2>2 DEF Injection, IsInjective
<1>6. IsFiniteSet(1 .. m) /\ Cardinality(1 .. m) = m
  BY <1>2, FS_Interval
<1>7. rank \in Surjection(S, 1 .. m)
  <2> HIDE DEF rank
  <2> QED
    BY <1>5, <1>6, FS_Injection DEF m
<1>8. PICK i \in S : rank[i] = k
  <2> HIDE DEF rank
  <2> QED
    BY <1>7 DEF Surjection, m
<1> QED
  BY <1>8 DEF UpTo

(***************************************************************************)
(* Arguments gives a sequence of texts.                                    *)
(***************************************************************************)
LEMMA ArgumentsAreTexts ==
    ASSUME NEW v \in Texts
    PROVE  Arguments(v) \in Seq(Texts)
<1> DEFINE n == Len(v)
           Begins == {i \in 1 .. n :
                        v[i] \notin Whitespace
                        /\ (i = 1 \/ v[i - 1] \in Whitespace)}
           Nth(k) == CHOOSE i \in Begins : Cardinality({j \in Begins : j <= i}) = k
           Piece1(k) == SubSeq(v, Nth(k), Position(v, Nth(k), Whitespace) - 1)
           m == Cardinality(Begins)
<1>1. n \in Nat
  BY DEF Texts
<1>2. Arguments(v) = [k \in 1 .. m |-> Piece1(k)]
  BY DEF Arguments
<1>3. Begins \in SUBSET (1 .. n)
  OBVIOUS
<1> HIDE DEF Begins
<1>4. m \in Nat
  <2>1. IsFiniteSet(Begins)
    <3>1. IsFiniteSet(1 .. n)
      BY <1>1, FS_Interval
    <3> QED
      BY <1>3, <3>1, FS_Subset
  <2> QED
    BY <2>1, FS_CardinalityType
<1>5. ASSUME NEW k \in 1 .. m PROVE Piece1(k) \in Texts
  <2>1. \E i \in Begins : Cardinality({j \in Begins : j <= i}) = k
    BY <1>1, <1>3, EveryRank
  <2>2. Nth(k) \in Begins
    BY <2>1
  <2> DEFINE i == Nth(k)
             p == Position(v, i, Whitespace)
  <2> HIDE DEF Nth
  <2>3. i \in 1 .. n
    BY <1>3, <2>2
  <2> HIDE DEF i
  <2>4. p \in i .. n + 1
    <3>1. i \in 1 .. Len(v) + 1
      BY <1>1, <2>3
    <3> QED
      BY <3>1, PositionFact
  <2> HIDE DEF p
  <2>5. SubSeq(v, i, p - 1) \in Texts
    <3>1. i \in 1 .. Len(v) + 1 /\ p - 1 \in i - 1 .. Len(v)
      BY <1>1, <2>3, <2>4
    <3> QED
      BY <3>1, PartFact
  <2> QED
    BY <2>5 DEF i, p
<1> HIDE DEF Piece1, m
<1>6. [k \in 1 .. m |-> Piece1(k)] \in [1 .. m -> Texts]
  BY <1>5
<1>7. [k \in 1 .. m |-> Piece1(k)] \in Seq(Texts)
  BY <1>4, <1>6, SeqDef
<1> QED
  BY <1>2, <1>7

=============================================================================
