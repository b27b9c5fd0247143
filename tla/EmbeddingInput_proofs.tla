------------------------- MODULE EmbeddingInput_proofs -------------------------
(***************************************************************************)
(* Theorems of EmbeddingInput: what the validator and ReadEmbeddingInput make  *)
(* of a form together is what openapi.yaml declares, for any number of parts    *)
(* and any limits.                                                         *)
(*                                                                         *)
(* Contents says at which position the n-th part of a field is and nothing     *)
(* about how one would find it, so that a part more is a set of positions with   *)
(* one element more: the induction over the parts is left to the invariant of    *)
(* ApiServer, where every part is a step.                                  *)
(***************************************************************************)
EXTENDS EmbeddingInput, FiniteSetTheorems, TLAPS

\* The positions of a field are finitely many, no more than the parts.
LEMMA PositionsFinite ==
    ASSUME NEW P, NEW parts \in Seq(P), NEW field
    PROVE  /\ Positions(field, parts) \subseteq 1 .. Len(parts)
           /\ IsFiniteSet(Positions(field, parts))
           /\ Cardinality(Positions(field, parts)) \in 0 .. Len(parts)
<1> DEFINE at == Positions(field, parts)
<1>1. at \subseteq 1 .. Len(parts)
  BY DEF Positions
<1>2. Len(parts) \in Nat
  OBVIOUS
<1>3. IsFiniteSet(1 .. Len(parts)) /\ Cardinality(1 .. Len(parts)) = Len(parts)
  BY <1>2, FS_Interval
<1>4. IsFiniteSet(at) /\ Cardinality(at) <= Len(parts)
  BY <1>1, <1>3, FS_Subset
<1>5. Cardinality(at) \in Nat
  BY <1>4, FS_CardinalityType
<1> QED
  BY <1>1, <1>2, <1>4, <1>5

\* A part of another field changes no position, one of the field adds the last.
LEMMA PositionsOfAppend ==
    ASSUME NEW P, NEW parts \in Seq(P), NEW p \in P, NEW field
    PROVE  Positions(field, Append(parts, p)) =
              Positions(field, parts) \cup (IF p.field = field THEN {Len(parts) + 1} ELSE {})
<1>1. /\ DOMAIN Append(parts, p) = 1 .. Len(parts) + 1
      /\ DOMAIN parts = 1 .. Len(parts) /\ Len(parts) \in Nat
      /\ \A i \in 1 .. Len(parts) : Append(parts, p)[i] = parts[i]
      /\ Append(parts, p)[Len(parts) + 1] = p
  OBVIOUS
<1> QED
  BY <1>1 DEF Positions

-----------------------------------------------------------------------------
(***************************************************************************)
(* The n-th position of a field.                                           *)
(***************************************************************************)
UpTo(at, i) == {j \in at : j <= i}

\* The positions that come as the n-th one of those at hand: Contents takes one.
Nth(at, n) == {i \in at : Cardinality(UpTo(at, i)) = n}

NthContent(parts, at, n) == parts[CHOOSE i \in Nth(at, n) : TRUE].content

LEMMA ContentsByPosition ==
    ASSUME NEW parts, NEW field
    PROVE  Contents(field, parts) =
              [n \in 1 .. Cardinality(Positions(field, parts)) |->
                  NthContent(parts, Positions(field, parts), n)]
BY DEF Contents, NthContent, Nth, UpTo

\* A set of natural numbers that is not empty has a least element.
LEMMA LeastNat ==
    ASSUME NEW T \in SUBSET Nat, T # {}
    PROVE  \E m \in T : \A k \in T : m <= k
<1>1. PICK m \in T : \A k \in T : ~(<<k, m>> \in OpToRel(<, Nat))
  BY NatLessThanWellFounded, WFMin
<1>2. \A k \in T : ~(k < m)
  BY <1>1 DEF OpToRel
<1> QED
  BY <1>2

\* There is one for every n up to the number of positions: the least i that has n
\* positions up to it.
LEMMA NthExists ==
    ASSUME NEW L \in Nat, NEW at \in SUBSET (1 .. L), NEW n \in 1 .. Cardinality(at)
    PROVE  Nth(at, n) # {}
<1> DEFINE T == {i \in Nat : Cardinality(UpTo(at, i)) >= n}
<1>0. \A j \in at : j \in Nat /\ 1 <= j /\ j <= L
  OBVIOUS
<1>1. /\ IsFiniteSet(at) /\ Cardinality(at) \in Nat
      /\ \A i \in Nat : IsFiniteSet(UpTo(at, i)) /\ Cardinality(UpTo(at, i)) \in Nat
  <2>1. IsFiniteSet(1 .. L)
    BY FS_Interval
  <2>2. \A S \in SUBSET (1 .. L) : IsFiniteSet(S) /\ Cardinality(S) \in Nat
    BY <2>1, FS_Subset, FS_CardinalityType
  <2>3. \A i \in Nat : UpTo(at, i) \in SUBSET (1 .. L)
    BY DEF UpTo
  <2> QED
    BY <2>2, <2>3
<1>2. L \in T
  <2>1. UpTo(at, L) = at
    BY <1>0 DEF UpTo
  <2> QED
    BY <1>1, <2>1
<1>3. PICK m \in T : \A k \in T : m <= k
  BY <1>2, LeastNat
<1>4. m # 0
  <2>1. \A j \in at : ~(j <= 0)
    BY <1>0
  <2>2. UpTo(at, 0) = {}
    BY <2>1 DEF UpTo
  <2> QED
    BY <2>2, FS_EmptySet
<1>5. m - 1 \in Nat /\ Cardinality(UpTo(at, m - 1)) < n
  BY <1>1, <1>3, <1>4
<1>6. UpTo(at, m) = IF m \in at THEN UpTo(at, m - 1) \cup {m} ELSE UpTo(at, m - 1)
  <2>1. \A j \in at : j <= m <=> j <= m - 1 \/ j = m
    BY <1>0, <1>3, <1>4
  <2> QED
    BY <2>1 DEF UpTo
<1>7. m \in at /\ Cardinality(UpTo(at, m)) = Cardinality(UpTo(at, m - 1)) + 1
  <2>1. m \notin UpTo(at, m - 1)
    BY DEF UpTo
  <2>2. Cardinality(UpTo(at, m)) >= n
    BY <1>3
  <2>3. CASE m \in at
    BY <1>1, <1>5, <1>6, <2>1, <2>3, FS_AddElement
  <2>4. CASE m \notin at
    BY <1>1, <1>5, <1>6, <2>2, <2>4
  <2> QED
    BY <2>3, <2>4
<1>8. m \in Nth(at, n)
  BY <1>1, <1>3, <1>5, <1>7 DEF Nth
<1> QED
  BY <1>8

\* A last position changes none of the others, and is the one after them.
LEMMA NthOfMore ==
    ASSUME NEW L \in Nat, NEW at \in SUBSET (1 .. L)
    PROVE  /\ Cardinality(at \cup {L + 1}) = Cardinality(at) + 1
           /\ \A n \in 1 .. Cardinality(at) : Nth(at \cup {L + 1}, n) = Nth(at, n)
           /\ Nth(at \cup {L + 1}, Cardinality(at) + 1) = {L + 1}
<1> DEFINE more == at \cup {L + 1}
<1>0. \A j \in at : j \in Nat /\ 1 <= j /\ j <= L /\ j # L + 1
  OBVIOUS
<1>1. /\ IsFiniteSet(at) /\ Cardinality(at) \in Nat
      /\ \A S \in SUBSET at : IsFiniteSet(S) /\ Cardinality(S) \in Nat /\ Cardinality(S) <= Cardinality(at)
  <2>1. IsFiniteSet(1 .. L)
    BY FS_Interval
  <2>2. IsFiniteSet(at)
    BY <2>1, FS_Subset
  <2> QED
    BY <2>2, FS_Subset, FS_CardinalityType
<1>2. Cardinality(more) = Cardinality(at) + 1
  BY <1>0, <1>1, FS_AddElement
<1>3. \A i \in at : UpTo(more, i) = UpTo(at, i)
  <2>1. \A i \in at : ~(L + 1 <= i)
    BY <1>0
  <2> QED
    BY <2>1 DEF UpTo
<1>4. UpTo(more, L + 1) = more
  <2>1. \A j \in more : j <= L + 1
    BY <1>0
  <2> QED
    BY <2>1 DEF UpTo
<1>5. \A i \in at : Cardinality(UpTo(more, i)) \in Nat /\ Cardinality(UpTo(more, i)) <= Cardinality(at)
  BY <1>1, <1>3 DEF UpTo
<1>6. ASSUME NEW n \in 1 .. Cardinality(at) PROVE Nth(more, n) = Nth(at, n)
  <2>1. Cardinality(UpTo(more, L + 1)) = Cardinality(at) + 1
    BY <1>2, <1>4
  <2>2. Cardinality(UpTo(more, L + 1)) # n
    BY <1>1, <2>1
  <2> QED
    BY <1>3, <2>2 DEF Nth
<1>7. Nth(more, Cardinality(at) + 1) = {L + 1}
  <2>1. \A i \in at : Cardinality(UpTo(more, i)) # Cardinality(at) + 1
    BY <1>1, <1>5
  <2> QED
    BY <1>2, <1>4, <2>1 DEF Nth
<1> QED
  BY <1>2, <1>6, <1>7

-----------------------------------------------------------------------------
(***************************************************************************)
(* What one more part does to the contents and to the input.                *)
(***************************************************************************)
ContentsLater(field, parts, p) ==
    IF p.field = field THEN Append(Contents(field, parts), p.content) ELSE Contents(field, parts)

LEMMA AppendsToFunction ==
    ASSUME NEW c \in Nat, NEW s, NEW e, s = [n \in 1 .. c |-> s[n]]
    PROVE  Append(s, e) = [n \in 1 .. c + 1 |-> IF n = c + 1 THEN e ELSE s[n]]
<1>1. s \in Seq({s[n] : n \in 1 .. c}) /\ Len(s) = c
  OBVIOUS
<1> QED
  BY <1>1

LEMMA ContentsOfAppend ==
    ASSUME NEW P, NEW parts \in Seq(P), NEW p \in P, NEW field
    PROVE  Contents(field, Append(parts, p)) = ContentsLater(field, parts, p)
<1> DEFINE at    == Positions(field, parts)
           later == Append(parts, p)
           L     == Len(parts)
<1>1. /\ L \in Nat /\ at \in SUBSET (1 .. L) /\ Cardinality(at) \in 0 .. L
      /\ \A i \in 1 .. L : later[i] = parts[i]
      /\ later[L + 1] = p
  BY PositionsFinite
<1>2. ASSUME NEW n \in 1 .. Cardinality(at)
      PROVE  NthContent(later, at, n) = NthContent(parts, at, n)
  <2>1. Nth(at, n) # {} /\ Nth(at, n) \subseteq at
    BY <1>1, NthExists DEF Nth
  <2>2. (CHOOSE i \in Nth(at, n) : TRUE) \in Nth(at, n)
    BY <2>1
  <2> QED
    BY <1>1, <2>1, <2>2 DEF NthContent
<1>3. Contents(field, parts) = [n \in 1 .. Cardinality(at) |-> NthContent(parts, at, n)]
  BY ContentsByPosition
<1>4. Contents(field, later) = [n \in 1 .. Cardinality(Positions(field, later)) |->
                                   NthContent(later, Positions(field, later), n)]
  BY ContentsByPosition
<1>5. Positions(field, later) = at \cup (IF p.field = field THEN {L + 1} ELSE {})
  BY PositionsOfAppend
<1>6. CASE p.field # field
  <2>1. Positions(field, later) = at
    <3>1. at \cup {} = at
      OBVIOUS
    <3> QED
      BY <1>5, <1>6, <3>1
  <2> HIDE DEF later, at
  <2>2. Contents(field, later) = Contents(field, parts)
    BY <1>2, <1>3, <1>4, <2>1
  <2> QED
    BY <1>6, <2>2 DEF ContentsLater, later
<1>7. CASE p.field = field
  <2> DEFINE c    == Cardinality(at)
             more == at \cup {L + 1}
  <2>1. Positions(field, later) = more
    BY <1>5, <1>7
  <2>2. /\ Cardinality(more) = c + 1
        /\ \A n \in 1 .. c : Nth(more, n) = Nth(at, n)
        /\ Nth(more, c + 1) = {L + 1}
    BY <1>1, NthOfMore
  <2>3. NthContent(later, more, c + 1) = p.content
    <3>1. (CHOOSE i \in {L + 1} : TRUE) = L + 1
      OBVIOUS
    <3> QED
      BY <1>1, <2>2, <3>1 DEF NthContent
  <2>4. \A n \in 1 .. c : NthContent(later, more, n) = NthContent(parts, at, n)
    BY <1>2, <2>2 DEF NthContent
  <2>5. c \in Nat
    BY <1>1
  <2> HIDE DEF later, at, more, c
  <2>6. Contents(field, later) = [n \in 1 .. c + 1 |-> NthContent(later, more, n)]
    BY <1>4, <2>1, <2>2
  <2>7. Contents(field, parts) = [n \in 1 .. c |-> NthContent(parts, at, n)]
    BY <1>3 DEF c
  <2>8. Append(Contents(field, parts), p.content) =
           [n \in 1 .. c + 1 |-> IF n = c + 1 THEN p.content ELSE NthContent(parts, at, n)]
    BY <2>5, <2>7, AppendsToFunction
  <2>9. \A n \in 1 .. c + 1 : NthContent(later, more, n) =
           IF n = c + 1 THEN p.content ELSE NthContent(parts, at, n)
    BY <2>3, <2>4, <2>5
  <2> QED
    BY <1>7, <2>6, <2>8, <2>9 DEF ContentsLater, later
<1> QED
  BY <1>6, <1>7

\* There is a content exactly if there is a part, and as many as there are parts.
LEMMA ContentsCounted ==
    ASSUME NEW P, NEW parts \in Seq(P), NEW field
    PROVE  /\ Contents(field, parts) = <<>> <=> Positions(field, parts) = {}
           /\ Len(Contents(field, parts)) = Cardinality(Positions(field, parts))
           /\ Len(Contents(field, parts)) \in 0 .. Len(parts)
<1> DEFINE at == Positions(field, parts)
           c  == Contents(field, parts)
           n  == Cardinality(at)
<1>1. n \in 0 .. Len(parts) /\ Len(parts) \in Nat /\ IsFiniteSet(at)
  BY PositionsFinite
<1>2. c = [k \in 1 .. n |-> NthContent(parts, at, k)]
  BY ContentsByPosition
<1>3. at = {} <=> n = 0
  BY <1>1, FS_EmptySet
<1> HIDE DEF at, c, n
<1>4. Len(c) = n /\ (c = <<>> <=> n = 0)
  BY <1>1, <1>2
<1> QED
  BY <1>1, <1>3, <1>4 DEF at, c, n

\* What is declared of no parts is what the code starts with.
LEMMA DeclaredOfNone == Declared(<<>>) = Nothing /\ Contents("images", <<>>) = <<>>
<1>1. \A field : Positions(field, <<>>) = {}
  BY DEF Positions
<1>2. Contents("images", <<>>) = <<>>
  <2>1. Cardinality(Positions("images", <<>>)) = 0
    BY <1>1, FS_EmptySet
  <2> QED
    BY <2>1, ContentsByPosition
<1> QED
  BY <1>1, <1>2 DEF Declared, Nothing, StringOr

-----------------------------------------------------------------------------
(***************************************************************************)
(* The input.                                                              *)
(***************************************************************************)

\* The first parts, and one more.
LEMMA PrefixOfMore ==
    ASSUME NEW P, NEW parts \in Seq(P), NEW n \in Nat, n < Len(parts)
    PROVE  /\ SubSeq(parts, 1, n) \in Seq(P) /\ parts[n + 1] \in P
           /\ SubSeq(parts, 1, n + 1) = Append(SubSeq(parts, 1, n), parts[n + 1])
           /\ StringsOnce(parts) => StringsOnce(SubSeq(parts, 1, n + 1))
<1>1. /\ Len(parts) \in Nat /\ DOMAIN parts = 1 .. Len(parts)
      /\ parts[n + 1] \in P /\ SubSeq(parts, 1, n) \in Seq(P)
  OBVIOUS
<1>2. /\ Len(SubSeq(parts, 1, n)) = n
      /\ \A i \in 1 .. n : SubSeq(parts, 1, n)[i] = parts[i]
  BY <1>1
<1>3. /\ SubSeq(parts, 1, n + 1) \in Seq(P) /\ Len(SubSeq(parts, 1, n + 1)) = n + 1
      /\ \A i \in 1 .. n + 1 : SubSeq(parts, 1, n + 1)[i] = parts[i]
  BY <1>1
<1>4. SubSeq(parts, 1, n + 1) = Append(SubSeq(parts, 1, n), parts[n + 1])
  BY <1>1, <1>2, <1>3
<1>5. ASSUME StringsOnce(parts) PROVE StringsOnce(SubSeq(parts, 1, n + 1))
  <2>1. /\ DOMAIN SubSeq(parts, 1, n + 1) = 1 .. n + 1
        /\ \A i \in 1 .. n + 1 : i \in DOMAIN parts
    BY <1>1, <1>3
  <2> QED
    BY <1>3, <1>5, <2>1 DEF StringsOnce
<1> QED
  BY <1>1, <1>4, <1>5

\* All of them.
LEMMA PrefixOfAll ==
    ASSUME NEW P, NEW parts \in Seq(P)
    PROVE  SubSeq(parts, 1, Len(parts)) = parts /\ SubSeq(parts, 1, 0) = <<>>
OBVIOUS

\* One more part does to the string of a field what Take does.
LEMMA StringOfAppend ==
    ASSUME NEW P, NEW parts \in Seq(P), NEW p \in P, NEW field \in {"text", "webhook_url"}, NEW default,
           StringsOnce(Append(parts, p))
    PROVE  StringOr(default, field, Append(parts, p)) =
              IF p.field = field THEN p.content ELSE StringOr(default, field, parts)
<1> DEFINE later == Append(parts, p)
           at    == Positions(field, parts)
           L     == Len(parts)
<1>1. /\ L \in Nat /\ at \subseteq 1 .. L /\ DOMAIN later = 1 .. L + 1
      /\ \A i \in 1 .. L : later[i] = parts[i]
      /\ later[L + 1] = p
  BY PositionsFinite
<1>2. Positions(field, later) = at \cup (IF p.field = field THEN {L + 1} ELSE {})
  BY PositionsOfAppend
<1>3. CASE p.field = field
  <2>1. at = {}
    <3>1. ASSUME NEW i \in at PROVE FALSE
      <4>1. i \in DOMAIN later /\ i # L + 1 /\ later[i].field = field
        BY <1>1 DEF Positions
      <4>2. L + 1 \in DOMAIN later /\ later[L + 1].field = field
        BY <1>1, <1>3
      <4> QED
        BY <4>1, <4>2 DEF StringsOnce
    <3> QED
      BY <3>1
  <2>2. Positions(field, later) = {L + 1}
    BY <1>2, <1>3, <2>1
  <2>3. (CHOOSE i \in {L + 1} : TRUE) = L + 1
    OBVIOUS
  <2> QED
    BY <1>1, <1>3, <2>2, <2>3 DEF StringOr
<1>4. CASE p.field # field
  <2>1. Positions(field, later) = at
    BY <1>2, <1>4
  <2>2. CASE at = {}
    BY <1>4, <2>1, <2>2 DEF StringOr
  <2>3. CASE at # {}
    <3>1. (CHOOSE i \in at : TRUE) \in at
      BY <2>3
    <3>2. later[CHOOSE i \in at : TRUE] = parts[CHOOSE i \in at : TRUE]
      BY <1>1, <3>1
    <3> QED
      BY <1>4, <2>1, <2>3, <3>2 DEF StringOr
  <2> QED
    BY <2>2, <2>3
<1> QED
  BY <1>3, <1>4

\* ReadEmbeddingInput: a part that ends nothing leaves the input as the form of the
\* parts so far declares it, whatever parts those are and in which order, as long as
\* no string is given twice.
THEOREM TakeIsDeclared ==
    ASSUME NEW P, NEW parts \in Seq(P), NEW p \in P, NEW mode, PartError(mode, p) = "none",
           StringsOnce(Append(parts, p))
    PROVE  Declared(Append(parts, p)) = Take(Declared(parts), p)
<1>1. Contents("images", Append(parts, p)) = ContentsLater("images", parts, p)
  BY ContentsOfAppend
<1>2. p.field \in {"text", "images", "webhook_url"}
  BY DEF PartError
<1>3. /\ StringOr(NoText, "text", Append(parts, p)) =
            IF p.field = "text" THEN p.content ELSE StringOr(NoText, "text", parts)
      /\ StringOr(NoURL, "webhook_url", Append(parts, p)) =
            IF p.field = "webhook_url" THEN p.content ELSE StringOr(NoURL, "webhook_url", parts)
  BY StringOfAppend
<1>4. CASE p.field = "text"
  BY <1>1, <1>3, <1>4 DEF Declared, Take, ContentsLater
<1>5. CASE p.field = "images"
  BY <1>1, <1>3, <1>5 DEF Declared, Take, ContentsLater
<1>6. CASE p.field = "webhook_url"
  BY <1>1, <1>3, <1>6 DEF Declared, Take, ContentsLater
<1> QED
  BY <1>2, <1>4, <1>5, <1>6

\* The images are in order whatever else is given twice.
LEMMA TakeImages ==
    ASSUME NEW P, NEW parts \in Seq(P), NEW p \in P, NEW mode, PartError(mode, p) = "none",
           NEW it, DOMAIN it = {"text", "images", "webhook"}, it.images = Contents("images", parts)
    PROVE  Take(it, p).images = Contents("images", Append(parts, p))
<1>1. Contents("images", Append(parts, p)) = ContentsLater("images", parts, p)
  BY ContentsOfAppend
<1>2. p.field \in {"text", "images", "webhook_url"}
  BY DEF PartError
<1>3. CASE p.field = "images"
  BY <1>1, <1>3 DEF Take, ContentsLater
<1>4. CASE p.field = "text"
  BY <1>1, <1>4 DEF Take, ContentsLater
<1>5. CASE p.field = "webhook_url"
  BY <1>1, <1>5 DEF Take, ContentsLater
<1> QED
  BY <1>2, <1>3, <1>4, <1>5

\* What is said of all positions is said of those that are looked at.
LEMMA ConformsToLess ==
    ASSUME NEW mode, NEW parts, NEW S \in Examined(parts), Conforms(mode, parts, DOMAIN parts)
    PROVE  Conforms(mode, parts, S)
BY DEF Conforms, Examined

\* A text within the limit of openapi.yaml in characters is within the code's own in
\* bytes, and a valid part ends no reading.
LEMMA ValidParts ==
    ASSUME NEW parts \in Seq(Part), NEW mode, Valid(mode, parts), NEW i \in DOMAIN parts
    PROVE  PartError(mode, parts[i]) = "none"
<1> DEFINE p == parts[i]
<1>1. p \in Part
  OBVIOUS
<1>2. /\ p.field \in FieldsOf(mode) /\ p.chars <= MaxChars(p.field) /\ ~p.cut
      /\ p.field = "text" => p.content # NoText
      /\ p.field = "images" => p.content \in {"png", "jpeg", "webp"} /\ p.bytes <= MaxImageBytes
      /\ p.field = "webhook_url" => p.bytes <= MaxURLLength
  BY DEF Valid, Conforms
<1>3. p.chars \in Nat /\ p.bytes \in Nat /\ p.bytes <= 4 * p.chars
  BY <1>1 DEF Part, UTFMax
<1> HIDE DEF p
<1>4. CASE p.field = "text"
  <2>1. mode # "images" /\ p.chars <= MaxTextChars
    BY <1>2, <1>4 DEF FieldsOf, MaxChars
  <2>2. p.bytes <= MaxTextBytes
    BY <1>3, <2>1, EmbeddingInputAssumption DEF MaxTextBytes, UTFMax
  <2>3. ~(p.bytes > MaxTextBytes)
    BY <1>3, <2>2, EmbeddingInputAssumption DEF MaxTextBytes, UTFMax
  <2> QED
    BY <1>2, <1>4, <2>1, <2>3 DEF PartError, TextError, p
<1>5. CASE p.field = "images"
  <2>1. ~(p.bytes > MaxImageBytes)
    BY <1>2, <1>3, <1>5, EmbeddingInputAssumption
  <2> QED
    BY <1>2, <1>5, <2>1 DEF PartError, ImageError, Supported, p
<1>6. CASE p.field = "webhook_url"
  <2>1. ~(p.bytes > MaxURLLength)
    BY <1>2, <1>3, <1>6, EmbeddingInputAssumption
  <2> QED
    BY <1>2, <1>6, <2>1 DEF PartError, URLError, p
<1> QED
  BY <1>2, <1>4, <1>5, <1>6 DEF FieldsOf, p

\* The validator and ReadEmbeddingInput accept together what is declared valid and
\* nothing else, of forms that give no string twice: whatever positions the validator
\* looks at, a form that conforms there, of which no part is refused on the way and
\* whose input is complete at the end, is valid; and a valid one is all of that.
THEOREM AcceptedIsValid ==
    ASSUME NEW parts \in Seq(Part), StringsOnce(parts), NEW S \in Examined(parts),
           NEW mode \in {"images", "multimodal"}
    PROVE  Valid(mode, parts) <=>
              /\ Conforms(mode, parts, S)
              /\ \A i \in DOMAIN parts : PartError(mode, parts[i]) = "none"
              /\ Complete(mode, Declared(parts))
<1>1. ASSUME Valid(mode, parts)
      PROVE  /\ Conforms(mode, parts, S)
             /\ \A i \in DOMAIN parts : PartError(mode, parts[i]) = "none"
             /\ Complete(mode, Declared(parts))
  <2>1. Conforms(mode, parts, S)
    BY <1>1, ConformsToLess DEF Valid
  <2>2. \A i \in DOMAIN parts : PartError(mode, parts[i]) = "none"
    BY <1>1, ValidParts
  <2>3. PICK k \in DOMAIN parts : parts[k].field \in RequiredOf(mode)
    BY <1>1 DEF Valid, Conforms
  <2>4. CASE parts[k].field = "images"
    <3>1. k \in Positions("images", parts)
      BY <2>4 DEF Positions
    <3>2. Contents("images", parts) # <<>>
      BY <3>1, ContentsCounted
    <3> QED
      BY <2>1, <2>2, <3>2 DEF Complete, Declared
  <2>5. CASE parts[k].field = "text"
    <3>1. mode = "multimodal" /\ k \in Positions("text", parts)
      BY <2>3, <2>5 DEF RequiredOf, Positions
    <3>2. (CHOOSE i \in Positions("text", parts) : TRUE) \in Positions("text", parts)
      BY <3>1
    <3>3. \A i \in Positions("text", parts) : parts[i].content # NoText
      BY <1>1 DEF Valid, Positions
    <3>4. Declared(parts).text # NoText
      BY <3>1, <3>2, <3>3 DEF Declared, StringOr
    <3> QED
      BY <2>1, <2>2, <3>1, <3>4 DEF Complete
  <2> QED
    BY <2>3, <2>4, <2>5 DEF RequiredOf
<1>2. ASSUME Conforms(mode, parts, S), \A i \in DOMAIN parts : PartError(mode, parts[i]) = "none"
      PROVE  Valid(mode, parts)
  <2>1. S = DOMAIN parts
    <3>1. S \subseteq DOMAIN parts
      BY DEF Examined
    <3>2. ASSUME NEW i \in DOMAIN parts PROVE i \in S
      <4>1. parts[i].field \in {"images", "webhook_url", "text"}
        BY <1>2 DEF Conforms, FieldsOf
      <4>2. CASE parts[i].field = "images"
        BY <4>2 DEF Examined, Positions
      <4>3. CASE parts[i].field \in {"text", "webhook_url"}
        <5>1. PICK j \in S : parts[j].field = parts[i].field
          BY DEF Examined
        <5> QED
          BY <3>1, <4>3, <5>1 DEF StringsOnce
      <4> QED
        BY <4>1, <4>2, <4>3
    <3> QED
      BY <3>1, <3>2
  <2>2. ASSUME NEW i \in DOMAIN parts
        PROVE  /\ ~parts[i].cut
               /\ parts[i].field = "text" => parts[i].content # NoText
               /\ parts[i].field = "images" =>
                     parts[i].content \in {"png", "jpeg", "webp"} /\ parts[i].bytes <= MaxImageBytes
               /\ parts[i].field = "webhook_url" => parts[i].bytes <= MaxURLLength
    <3> DEFINE p == parts[i]
    <3>1. p \in Part
      OBVIOUS
    <3>2. PartError(mode, p) = "none" /\ p.bytes \in Nat
      BY <1>2, <3>1 DEF Part
    <3>3. p.field \in {"images", "webhook_url", "text"}
      BY <1>2 DEF Conforms, FieldsOf
    <3> HIDE DEF p
    <3>4. CASE p.field = "text"
      BY <3>2, <3>4 DEF PartError, TextError, p
    <3>5. CASE p.field = "images"
      <4>1. ~p.cut /\ ~(p.bytes > MaxImageBytes) /\ Supported(p.content)
        BY <3>2, <3>5 DEF PartError, ImageError
      <4> QED
        BY <3>2, <3>5, <4>1, EmbeddingInputAssumption DEF Supported, p
    <3>6. CASE p.field = "webhook_url"
      <4>1. ~p.cut /\ ~(p.bytes > MaxURLLength)
        BY <3>2, <3>6 DEF PartError, URLError
      <4> QED
        BY <3>2, <3>6, <4>1, EmbeddingInputAssumption DEF p
    <3> QED
      BY <3>3, <3>4, <3>5, <3>6
  <2> QED
    BY <1>2, <2>1, <2>2 DEF Valid
<1> QED
  BY <1>1, <1>2
=============================================================================
