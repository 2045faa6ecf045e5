----------------------------- MODULE Inputs_proofs -----------------------------
(***************************************************************************)
(* Proofs about the texts: what the client reads of a telemetry file and   *)
(* what the server reads of its packets (Common, Packet, TelemetryParser), *)
(* for files of any length over any tokens, what both programs read of     *)
(* their configuration files (Config), and the run of MCInputs.            *)
(* The number that digits stand for is a fold (FoldTheorems), the digits   *)
(* of a number and the body of a configuration file are recursive          *)
(* functions that are shown to exist by induction, and the fields of a     *)
(* text are found by counting their ends.                                  *)
(***************************************************************************)
EXTENDS MCInputs, FoldTheorems
LOCAL INSTANCE SequencesExt
LOCAL INSTANCE FiniteSetsExt

-----------------------------------------------------------------------------
(* Texts                                                                   *)

\* Texts with the same tokens are the same.
LEMMA SameText ==
  ASSUME NEW T, NEW one \in Seq(T), NEW other \in Seq(T), Len(one) = Len(other),
         \A i \in 1..Len(one) : one[i] = other[i]
  PROVE  one = other
OBVIOUS

\* The tokens of a part of a text.
LEMMA Part ==
  ASSUME NEW T, NEW text \in Seq(T), NEW m \in 1..(Len(text) + 1), NEW n \in (m - 1)..Len(text)
  PROVE  /\ SubSeq(text, m, n) \in Seq(T)
         /\ Len(SubSeq(text, m, n)) = n - m + 1
         /\ \A i \in 1..(n - m + 1) : SubSeq(text, m, n)[i] = text[m + i - 1]
OBVIOUS

\* And of two texts joined.
LEMMA Concatenation ==
  ASSUME NEW T, NEW one \in Seq(T), NEW other \in Seq(T)
  PROVE  /\ one \o other \in Seq(T)
         /\ Len(one \o other) = Len(one) + Len(other)
         /\ \A i \in 1..Len(one) : (one \o other)[i] = one[i]
         /\ \A i \in 1..Len(other) : (one \o other)[Len(one) + i] = other[i]
OBVIOUS

\* The least and the greatest of some positions.
LEMMA LeastPosition ==
  ASSUME NEW S, NEW n \in S, S \subseteq Nat, \A m \in S : n <= m
  PROVE  Min(S) = n
<1>1. Min(S) \in S /\ \A m \in S : Min(S) <= m
  BY DEF Min
<1>2. Min(S) <= n /\ n <= Min(S) /\ n \in Nat /\ Min(S) \in Nat
  BY <1>1
<1> QED  BY <1>2

LEMMA GreatestPosition ==
  ASSUME NEW S, NEW n \in S, S \subseteq Nat, \A m \in S : m <= n
  PROVE  Max(S) = n
<1>1. \A m \in S : n >= m
  OBVIOUS
<1>2. Max(S) \in S /\ \A m \in S : Max(S) >= m
  BY <1>1 DEF Max
<1>3. Max(S) <= n /\ n <= Max(S) /\ n \in Nat /\ Max(S) \in Nat
  BY <1>2
<1> QED  BY <1>3

LEMMA HasLeast ==
  ASSUME NEW S, S \subseteq Nat, S # {}
  PROVE  Min(S) \in S /\ \A m \in S : Min(S) <= m
<1>1. \E n \in S : \A m \in S : n <= m
  BY LeastNumber
<1> QED  BY <1>1 DEF Min

LEMMA HasGreatest ==
  ASSUME NEW S, NEW n \in Nat, S \subseteq 0..n, S # {}
  PROVE  Max(S) \in S /\ \A m \in S : m <= Max(S)
<1> DEFINE T == {n - i : i \in S}
<1>1. T \subseteq Nat /\ T # {}
  <2>1. \A i \in S : n - i \in Nat
    OBVIOUS
  <2>2. PICK i \in S : TRUE
    OBVIOUS
  <2>3. n - i \in T
    BY <2>2
  <2> QED  BY <2>1, <2>3, Zenon
<1>2. PICK k \in T : \A m \in T : k <= m
  <2> HIDE DEF T
  <2> QED  BY <1>1, LeastNumber
<1>3. PICK i \in S : k = n - i
  OBVIOUS
<1>4. \A j \in S : i >= j
  <2> TAKE j \in S
  <2>1. n - j \in T
    OBVIOUS
  <2>2. n - i <= n - j
    BY <1>2, <1>3, <2>1
  <2> QED  BY <2>2
<1>5. Max(S) \in S /\ \A m \in S : Max(S) >= m
  BY <1>4 DEF Max
<1>6. \A m \in S : m \in Nat
  OBVIOUS
<1> QED  BY <1>5, <1>6

-----------------------------------------------------------------------------
(* Finding and trimming                                                    *)

LEMMA FoundAt ==
  ASSUME NEW T, NEW text \in Seq(T), NEW tokens, NEW n \in Nat,
         NEW i \in (n + 1)..Len(text), text[i] \in tokens,
         \A j \in (n + 1)..(i - 1) : text[j] \notin tokens
  PROVE  FindOneOf(text, tokens, n) = i
<1> DEFINE I == {j \in (n + 1)..Len(text) : text[j] \in tokens}
<1>1. i \in I /\ I \subseteq Nat /\ \A j \in I : i <= j
  OBVIOUS
<1>2. FindOneOf(text, tokens, n) = Min(I)
  BY <1>1 DEF FindOneOf, SelectInSubSeq
<1> HIDE DEF I
<1> QED  BY <1>1, <1>2, LeastPosition

LEMMA NotFound ==
  ASSUME NEW T, NEW text \in Seq(T), NEW tokens, NEW n \in Nat,
         \A i \in (n + 1)..Len(text) : text[i] \notin tokens
  PROVE  FindOneOf(text, tokens, n) = 0
BY DEF FindOneOf, SelectInSubSeq

\* What is left of a text whose first and last token that are no blanks are at
\* two places.
LEMMA Trimmed ==
  ASSUME NEW T, NEW text \in Seq(T),
         NEW first \in 1..Len(text), NEW last \in first..Len(text),
         text[first] \notin Blanks, text[last] \notin Blanks,
         \A i \in 1..Len(text) : (i < first \/ last < i) => text[i] \in Blanks
  PROVE  Trim(text) = SubSeq(text, first, last)
<1> DEFINE kept == {i \in DOMAIN text : text[i] \notin Blanks}
<1>1. /\ first \in kept /\ last \in kept /\ kept \subseteq Nat
      /\ \A i \in kept : first <= i /\ i <= last
  OBVIOUS
<1>2. Trim(text) = SubSeq(text, Min(kept), Max(kept))
  BY <1>1 DEF Trim
<1> HIDE DEF kept
<1> QED  BY <1>1, <1>2, LeastPosition, GreatestPosition

LEMMA TrimmedAway ==
  ASSUME NEW T, NEW text \in Seq(T), \A i \in 1..Len(text) : text[i] \in Blanks
  PROVE  Trim(text) = <<>>
BY DEF Trim

\* A text that is not all blanks has a first and a last token that is none.
LEMMA Ends ==
  ASSUME NEW T, NEW text \in Seq(T), NEW k \in 1..Len(text), text[k] \notin Blanks
  PROVE  \E first \in 1..Len(text) : \E last \in first..Len(text) :
           /\ text[first] \notin Blanks /\ text[last] \notin Blanks
           /\ \A i \in 1..Len(text) : (i < first \/ last < i) => text[i] \in Blanks
<1> DEFINE kept == {i \in 1..Len(text) : text[i] \notin Blanks}
<1>1. kept \subseteq Nat /\ kept \subseteq 0..Len(text) /\ kept # {} /\ Len(text) \in Nat
  OBVIOUS
<1>2. /\ Min(kept) \in kept /\ Max(kept) \in kept
      /\ \A i \in kept : Min(kept) <= i /\ i <= Max(kept)
  <2> HIDE DEF kept
  <2> QED  BY <1>1, HasLeast, HasGreatest
<1>3. \A i \in 1..Len(text) : (i < Min(kept) \/ Max(kept) < i) => text[i] \in Blanks
  BY <1>2
<1>4. Min(kept) \in 1..Len(text) /\ Max(kept) \in Min(kept)..Len(text)
  BY <1>2
<1>5. text[Min(kept)] \notin Blanks /\ text[Max(kept)] \notin Blanks
  BY <1>2
<1> QED  BY <1>3, <1>4, <1>5

-----------------------------------------------------------------------------
(* A line with a header                                                    *)

\* The characters are different tokens, and no words.
LEMMA TokensDiffer ==
  /\ Comma \notin Blanks /\ HeaderText \notin Blanks /\ Space \in Blanks
  /\ HeaderText # Comma
<1>1. Comma # Space /\ Comma # Newline
  BY Zenon DEF Comma, Space, Newline
<1>2. HeaderText # Space /\ HeaderText # Newline /\ HeaderText # Comma
  BY Zenon DEF Comma, Space, Newline, HeaderText
<1> QED  BY <1>1, <1>2, Zenon DEF Blanks

\* The line with a header, and its tokens.
Decorated(line) == <<Space, HeaderText, Comma, Space>> \o line \o <<Space>>
WithDecoration(T) == T \cup {Space, HeaderText, Comma}

LEMMA DecoratedTokens ==
  ASSUME NEW T, NEW line \in Seq(T)
  PROVE  /\ Decorated(line) \in Seq(WithDecoration(T))
         /\ Len(Decorated(line)) = Len(line) + 5
         /\ Decorated(line)[1] = Space /\ Decorated(line)[2] = HeaderText
         /\ Decorated(line)[3] = Comma /\ Decorated(line)[4] = Space
         /\ \A i \in 1..Len(line) : Decorated(line)[4 + i] = line[i]
         /\ Decorated(line)[Len(line) + 5] = Space
<1> PICK U : U = WithDecoration(T)
  OBVIOUS
<1> PICK before : before = <<Space, HeaderText, Comma, Space>>
  OBVIOUS
<1> PICK after : after = <<Space>>
  OBVIOUS
<1> PICK text : text = before \o line
  OBVIOUS
<1>1. before \in Seq(U) /\ Len(before) = 4
  BY DEF WithDecoration
<1>2. before[1] = Space /\ before[2] = HeaderText /\ before[3] = Comma /\ before[4] = Space
  OBVIOUS
<1>3. line \in Seq(U) /\ after \in Seq(U) /\ Len(after) = 1 /\ after[1] = Space
  BY DEF WithDecoration
<1>4. Decorated(line) = text \o after
  BY DEF Decorated
<1>5. /\ text \in Seq(U) /\ Len(text) = 4 + Len(line)
      /\ \A i \in 1..4 : text[i] = before[i]
      /\ \A i \in 1..Len(line) : text[4 + i] = line[i]
  BY <1>1, <1>3
<1>6. /\ text \o after \in Seq(U) /\ Len(text \o after) = Len(line) + 5
      /\ \A i \in 1..(4 + Len(line)) : (text \o after)[i] = text[i]
      /\ (text \o after)[Len(line) + 5] = Space
  BY <1>3, <1>5
<1>7. Len(line) \in Nat
  OBVIOUS
<1> QED  BY <1>2, <1>4, <1>5, <1>6, <1>7

\* A text without a header is left as it is.
LEMMA NoHeader ==
  ASSUME NEW T, NEW text \in Seq(T), \A i \in 1..Len(text) : text[i] # HeaderText
  PROVE  WithoutHeader(text) = text
<1> DEFINE header == FindOneOf(text, {HeaderText}, 0)
<1>1. header = 0
  BY NotFound
<1> QED  BY <1>1, Zenon DEF WithoutHeader

\* A header at the beginning of a text goes, and the comma after it.
LEMMA HeaderOff ==
  ASSUME NEW T, NEW text \in Seq(T), Len(text) > 1, text[1] = HeaderText, text[2] = Comma
  PROVE  WithoutHeader(text) = Trim(SubSeq(text, 3, Len(text)))
<1> DEFINE header == FindOneOf(text, {HeaderText}, 0)
           comma  == FindOneOf(text, {Comma}, header)
<1>1. WithoutHeader(text) = IF header = 0 THEN text
                            ELSE IF comma = 0 THEN <<>> ELSE Trim(Rest(text, comma))
  BY Zenon DEF WithoutHeader
<1>2. header = 1
  <2> PICK tokens : tokens = {HeaderText}
    OBVIOUS
  <2>1. FindOneOf(text, tokens, 0) = 1
    BY FoundAt
  <2> QED  BY <2>1, Zenon
<1> HIDE DEF header
<1>3. comma = 2
  <2> PICK tokens : tokens = {Comma}
    OBVIOUS
  <2>1. FindOneOf(text, tokens, header) = 2
    BY <1>2, FoundAt
  <2> QED  BY <2>1, Zenon
<1> HIDE DEF comma
<1> QED  BY <1>1, <1>2, <1>3 DEF Rest

LEMMA HeaderOverBlanks ==
  ASSUME NEW T, NEW line \in Seq(T), \A i \in 1..Len(line) : line[i] \in Blanks
  PROVE  WithoutHeader(Trim(Decorated(line))) = <<>>
<1> DEFINE U    == WithDecoration(T)
           text == Decorated(line)
           core == SubSeq(text, 2, 3)
<1>1. /\ text \in Seq(U) /\ Len(text) = Len(line) + 5
      /\ text[1] = Space /\ text[2] = HeaderText /\ text[3] = Comma /\ text[4] = Space
      /\ \A i \in 1..Len(line) : text[4 + i] = line[i]
      /\ text[Len(line) + 5] = Space
  BY DecoratedTokens, Zenon
<1>0. Len(line) \in Nat
  OBVIOUS
<1> HIDE DEF text, U
<1>2. Trim(text) = core
  <2>1. text[2] \notin Blanks /\ text[3] \notin Blanks
    BY <1>1, TokensDiffer
  <2>2. \A i \in 1..Len(text) : (i < 2 \/ 3 < i) => text[i] \in Blanks
    <3>1. ASSUME NEW i \in 5..(Len(line) + 4)
          PROVE  text[i] \in Blanks
      <4>1. i - 4 \in 1..Len(line) /\ 4 + (i - 4) = i
        BY <1>1
      <4> QED  BY <1>1, <4>1
    <3> QED  BY <1>0, <1>1, <3>1, TokensDiffer
  <2>3. 2 \in 1..Len(text) /\ 3 \in 2..Len(text) /\ text \in Seq(U)
    BY <1>0, <1>1
  <2> QED  BY <2>1, <2>2, <2>3, Trimmed
<1>3. core \in Seq(U) /\ Len(core) = 2 /\ core[1] = HeaderText /\ core[2] = Comma
  BY <1>1
<1> HIDE DEF core
<1>4. WithoutHeader(core) = Trim(SubSeq(core, 3, Len(core)))
  <2>1. core \in Seq(U) /\ Len(core) > 1 /\ core[1] = HeaderText /\ core[2] = Comma
    BY <1>3
  <2> QED  BY <2>1, HeaderOff
<1>5. SubSeq(core, 3, Len(core)) = <<>>
  BY <1>3
<1>6. Trim(<<>>) = <<>>
  BY DEF Trim
<1> QED  BY <1>2, <1>4, <1>5, <1>6 DEF text

LEMMA HeaderOverText ==
  ASSUME NEW T, NEW line \in Seq(T), NEW first \in 1..Len(line), NEW last \in first..Len(line),
         line[first] \notin Blanks, line[last] \notin Blanks,
         \A i \in 1..Len(line) : (i < first \/ last < i) => line[i] \in Blanks
  PROVE  WithoutHeader(Trim(Decorated(line))) = SubSeq(line, first, last)
<1> DEFINE U    == WithDecoration(T)
           text == Decorated(line)
           core == SubSeq(text, 2, 4 + last)
           body == SubSeq(core, 3, Len(core))
<1>1. /\ text \in Seq(U) /\ Len(text) = Len(line) + 5
      /\ text[1] = Space /\ text[2] = HeaderText /\ text[3] = Comma /\ text[4] = Space
      /\ \A i \in 1..Len(line) : text[4 + i] = line[i]
      /\ text[Len(line) + 5] = Space
  BY DecoratedTokens, Zenon
<1>0. Len(line) \in Nat
  OBVIOUS
<1> HIDE DEF text, U
<1>2. Trim(text) = core
  <2>1. text[2] \notin Blanks /\ text[4 + last] \notin Blanks
    BY <1>1, TokensDiffer
  <2>2. \A i \in 1..Len(text) : (i < 2 \/ 4 + last < i) => text[i] \in Blanks
    <3>1. ASSUME NEW i \in (5 + last)..(Len(line) + 4)
          PROVE  text[i] \in Blanks
      <4>1. i - 4 \in 1..Len(line) /\ 4 + (i - 4) = i /\ last < i - 4
        BY <1>1
      <4> QED  BY <1>1, <4>1
    <3>2. text[1] \in Blanks /\ text[Len(line) + 5] \in Blanks
      BY <1>1, TokensDiffer
    <3>3. \A i \in 1..Len(text) :
            (i < 2 \/ 4 + last < i) => i = 1 \/ i = Len(line) + 5 \/ i \in (5 + last)..(Len(line) + 4)
      BY <1>0, <1>1
    <3> QED  BY ONLY <3>1, <3>2, <3>3
  <2>3. 2 \in 1..Len(text) /\ 4 + last \in 2..Len(text) /\ text \in Seq(U)
    BY <1>0, <1>1
  <2> QED  BY <2>1, <2>2, <2>3, Trimmed
<1>3. core \in Seq(U) /\ Len(core) = last + 3 /\ \A i \in 1..(last + 3) : core[i] = text[i + 1]
  <2>1. 2 \in 1..(Len(text) + 1) /\ 4 + last \in (2 - 1)..Len(text)
    BY <1>1
  <2>2. \A i \in 1..(last + 3) : core[i] = text[2 + i - 1] /\ 2 + i - 1 = i + 1
    BY <1>1, <2>1, Part
  <2> QED  BY <1>1, <2>1, <2>2, Part
<1> HIDE DEF core
<1>4. WithoutHeader(core) = Trim(body)
  <2>1. core \in Seq(U) /\ Len(core) > 1 /\ core[1] = HeaderText /\ core[2] = Comma
    BY <1>1, <1>3
  <2> QED  BY <2>1, HeaderOff DEF body
<1>5. body \in Seq(U) /\ Len(body) = last + 1 /\ \A i \in 1..(last + 1) : body[i] = core[i + 2]
  BY <1>3
<1> HIDE DEF body
<1>6. body[1] = Space
  BY <1>1, <1>3, <1>5
<1>7. ASSUME NEW i \in 1..last
      PROVE  body[i + 1] = line[i]
  <2>0. /\ i + 1 \in 1..(last + 1) /\ (i + 1) + 2 = i + 3
        /\ i + 3 \in 1..(last + 3) /\ (i + 3) + 1 = 4 + i /\ i \in 1..Len(line)
    OBVIOUS
  <2>1. body[i + 1] = core[i + 3]
    BY ONLY <1>5, <2>0
  <2>2. core[i + 3] = text[4 + i]
    BY ONLY <1>3, <2>0
  <2>3. text[4 + i] = line[i]
    BY ONLY <1>1, <2>0
  <2> QED  BY <2>1, <2>2, <2>3
<1>8. Trim(body) = SubSeq(body, first + 1, last + 1)
  <2>1. body[first + 1] \notin Blanks /\ body[last + 1] \notin Blanks
    BY <1>7
  <2>2. \A i \in 1..Len(body) : (i < first + 1 \/ last + 1 < i) => body[i] \in Blanks
    <3>1. ASSUME NEW i \in 2..first
          PROVE  body[i] \in Blanks
      <4>1. i - 1 \in 1..last /\ i - 1 \in 1..Len(line) /\ i - 1 < first /\ (i - 1) + 1 = i
        OBVIOUS
      <4>2. line[i - 1] \in Blanks
        BY <4>1
      <4>3. body[(i - 1) + 1] = line[i - 1]
        BY <1>7, <4>1
      <4> QED  BY <4>1, <4>2, <4>3
    <3>2. body[1] \in Blanks
      BY <1>6, TokensDiffer
    <3>3. ASSUME NEW i \in 1..Len(body), i < first + 1 \/ last + 1 < i
          PROVE  i = 1 \/ i \in 2..first
      BY <1>5, <3>3
    <3> QED  BY <3>1, <3>2, <3>3
  <2>3. first + 1 \in 1..Len(body) /\ last + 1 \in (first + 1)..Len(body) /\ body \in Seq(U)
    BY <1>5
  <2> QED  BY <2>1, <2>2, <2>3, Trimmed
<1>9. SubSeq(body, first + 1, last + 1) = SubSeq(line, first, last)
  <2> DEFINE one == SubSeq(body, first + 1, last + 1)
             other == SubSeq(line, first, last)
  <2>1. /\ one \in Seq(U) /\ Len(one) = last - first + 1
        /\ \A i \in 1..(last - first + 1) : one[i] = body[first + i]
    BY <1>5
  <2>2. /\ other \in Seq(T) /\ Len(other) = last - first + 1
        /\ \A i \in 1..(last - first + 1) : other[i] = line[first + i - 1]
    BY Part
  <2>3. other \in Seq(U)
    <3>1. T \subseteq U
      BY DEF U, WithDecoration
    <3> HIDE DEF other
    <3> QED  BY <2>2, <3>1
  <2>4. ASSUME NEW i \in 1..(last - first + 1)
        PROVE  one[i] = other[i]
    <3>1. first + i - 1 \in 1..last /\ (first + i - 1) + 1 = first + i
      OBVIOUS
    <3> QED  BY <1>7, <2>1, <2>2, <3>1
  <2> HIDE DEF one, other
  <2>5. one = other
    BY <2>1, <2>2, <2>3, <2>4, SameText
  <2> QED  BY <2>5 DEF one, other
<1> QED  BY <1>2, <1>4, <1>8, <1>9 DEF text

LEMMA HeaderNeverMatters ==
  ASSUME NEW T, NEW line \in Seq(T), \A i \in 1..Len(line) : line[i] # HeaderText
  PROVE  WithoutHeader(Trim(Decorated(line))) = WithoutHeader(Trim(line))
<1>1. \A i \in 1..Len(line) : line[i] # HeaderText
  OBVIOUS
<1>2. CASE \A i \in 1..Len(line) : line[i] \in Blanks
  <2>1. Trim(line) = <<>>
    BY <1>2, TrimmedAway
  <2>2. WithoutHeader(<<>>) = <<>>
    <3> PICK empty : empty = <<>>
      OBVIOUS
    <3>1. empty \in Seq(T) /\ \A i \in 1..Len(empty) : empty[i] # HeaderText
      OBVIOUS
    <3>2. WithoutHeader(empty) = empty
      BY <3>1, NoHeader
    <3> QED  BY <3>2
  <2> QED  BY <1>2, <2>1, <2>2, HeaderOverBlanks
<1>3. CASE \E k \in 1..Len(line) : line[k] \notin Blanks
  <2>1. PICK first \in 1..Len(line) : \E last \in first..Len(line) :
           /\ line[first] \notin Blanks /\ line[last] \notin Blanks
           /\ \A i \in 1..Len(line) : (i < first \/ last < i) => line[i] \in Blanks
    BY <1>3, Ends
  <2>2. PICK last \in first..Len(line) :
           /\ line[first] \notin Blanks /\ line[last] \notin Blanks
           /\ \A i \in 1..Len(line) : (i < first \/ last < i) => line[i] \in Blanks
    BY <2>1
  <2> DEFINE core == SubSeq(line, first, last)
  <2>3. Trim(line) = core
    BY <2>2, Trimmed
  <2>4. /\ core \in Seq(T) /\ Len(core) = last - first + 1
        /\ \A i \in 1..(last - first + 1) : core[i] = line[first + i - 1]
    BY Part
  <2>5. \A i \in 1..Len(core) : core[i] # HeaderText
    <3> TAKE i \in 1..Len(core)
    <3>1. first + i - 1 \in 1..Len(line)
      BY <2>4
    <3> QED  BY <1>1, <2>4, <3>1
  <2> HIDE DEF core
  <2>6. WithoutHeader(core) = core
    BY <2>4, <2>5, NoHeader
  <2>7. WithoutHeader(Trim(Decorated(line))) = core
    BY <2>2, HeaderOverText DEF core
  <2> QED  BY <2>3, <2>6, <2>7
<1> QED  BY <1>2, <1>3

-----------------------------------------------------------------------------
(* Places in the order they come                                           *)

\* The numbers of a set up to one of them.
UpTo(S, n) == {i \in S : i <= n}

LEMMA UpToFinite ==
  ASSUME NEW S, IsFiniteSet(S), NEW n
  PROVE  /\ IsFiniteSet(UpTo(S, n))
         /\ Cardinality(UpTo(S, n)) \in Nat /\ Cardinality(UpTo(S, n)) <= Cardinality(S)
<1>1. UpTo(S, n) \subseteq S
  BY DEF UpTo
<1> QED  BY <1>1, FS_Subset, FS_CardinalityType

\* There are more up to a greater one.
LEMMA MoreUpTo ==
  ASSUME NEW S, IsFiniteSet(S), S \subseteq Nat, NEW m \in S, NEW n \in S, m < n
  PROVE  Cardinality(UpTo(S, m)) < Cardinality(UpTo(S, n))
<1>1. UpTo(S, m) \subseteq UpTo(S, n) /\ n \in UpTo(S, n) /\ n \notin UpTo(S, m)
  <2>1. m \in Nat /\ n \in Nat /\ \A i \in S : i \in Nat
    OBVIOUS
  <2>2. \A i \in S : i <= m => i <= n
    BY <2>1
  <2>3. ~(n <= m) /\ n <= n
    BY <2>1
  <2> QED  BY <2>2, <2>3 DEF UpTo
<1>2. IsFiniteSet(UpTo(S, n)) /\ IsFiniteSet(UpTo(S, m))
  BY UpToFinite
<1>3. Cardinality(UpTo(S, m)) <= Cardinality(UpTo(S, n)) /\ UpTo(S, m) # UpTo(S, n)
      /\ Cardinality(UpTo(S, m)) # Cardinality(UpTo(S, n))
  BY <1>1, <1>2, FS_Subset
<1>4. Cardinality(UpTo(S, m)) \in Nat /\ Cardinality(UpTo(S, n)) \in Nat
  BY UpToFinite
<1> QED  BY <1>3, <1>4

\* There is a k-th.
LEMMA KthExists ==
  ASSUME NEW S, IsFiniteSet(S), NEW bound \in Nat, S \subseteq 0..bound, NEW k \in 1..Cardinality(S)
  PROVE  \E n \in S : Cardinality(UpTo(S, n)) = k
<1> DEFINE Size(n) == Cardinality(UpTo(S, n))
           High == {n \in S : k <= Size(n)}
<1>0. S \subseteq Nat /\ Cardinality(S) \in Nat
  BY FS_CardinalityType
<1>1. High # {}
  <2>1. S # {}
    BY FS_EmptySet
  <2>2. Max(S) \in S /\ \A m \in S : m <= Max(S)
    BY <2>1, HasGreatest
  <2>3. UpTo(S, Max(S)) = S
    BY <2>2 DEF UpTo
  <2> QED  BY <2>2, <2>3
<1>2. High \subseteq Nat
  BY <1>0
<1>3. PICK n \in High : \A m \in High : n <= m
  <2> HIDE DEF High
  <2> QED  BY <1>1, <1>2, LeastNumber
<1>4. n \in S /\ k <= Size(n) /\ Size(n) \in Nat
  BY <1>3, UpToFinite
<1>5. Size(n) <= k
  <2> SUFFICES ASSUME k < Size(n)
               PROVE  FALSE
    BY <1>4
  <2> DEFINE Below == UpTo(S, n) \ {n}
  <2>1. n \in UpTo(S, n) /\ IsFiniteSet(UpTo(S, n))
    BY <1>0, <1>4, UpToFinite DEF UpTo
  <2>2. IsFiniteSet(Below) /\ Cardinality(Below) = Size(n) - 1
    BY <2>1, FS_RemoveElement
  <2>3. Below # {}
    <3> HIDE DEF Below
    <3> QED  BY <1>4, <2>2, FS_EmptySet
  <2>4. Below \subseteq 0..bound /\ Below \subseteq S
    BY DEF UpTo
  <2>5. Max(Below) \in Below /\ \A m \in Below : m <= Max(Below)
    <3> HIDE DEF Below
    <3> QED  BY <2>3, <2>4, HasGreatest
  <2> PICK m : m = Max(Below)
    OBVIOUS
  <2>0. m \in Below /\ \A i \in Below : i <= m
    BY <2>5
  <2>6. m \in S /\ m < n /\ m \in Nat /\ n \in Nat
    <3>1. m \in S /\ m <= n /\ m # n
      BY <2>0 DEF UpTo
    <3>2. m \in Nat /\ n \in Nat
      BY <1>0, <1>4, <3>1
    <3> QED  BY <3>1, <3>2
  <2>7. UpTo(S, m) = Below
    <3>1. ASSUME NEW i \in UpTo(S, m)
          PROVE  i \in Below
      <4>1. i \in S /\ i <= m /\ i \in Nat
        BY <1>0 DEF UpTo
      <4>2. i <= n /\ i # n
        BY <2>6, <4>1
      <4> QED  BY <4>1, <4>2 DEF UpTo
    <3>2. Below \subseteq UpTo(S, m)
      BY <2>4, <2>0 DEF UpTo
    <3> QED  BY <3>1, <3>2
  <2>8. Size(m) = Size(n) - 1
    BY <2>2, <2>7
  <2>9. m \in High
    BY <1>4, <2>6, <2>8
  <2> QED  BY <1>0, <1>3, <2>6, <2>9
<1> QED  BY <1>4, <1>5

-----------------------------------------------------------------------------
(* Fields                                                                  *)

\* The place where the k-th field ends, as Split has it.
EndOf(text, delimiter, k) ==
  CHOOSE e \in FieldEnds(text, delimiter) : Cardinality(UpTo(FieldEnds(text, delimiter), e)) = k

LEMMA EndsAreFinite ==
  ASSUME NEW T, NEW text \in Seq(T), NEW delimiter
  PROVE  /\ FieldEnds(text, delimiter) \subseteq 1..(Len(text) + 1)
         /\ IsFiniteSet(FieldEnds(text, delimiter))
         /\ Cardinality(FieldEnds(text, delimiter)) \in Nat
<1>1. FieldEnds(text, delimiter) \subseteq 1..(Len(text) + 1)
  BY DEF FieldEnds
<1>2. IsFiniteSet(1..(Len(text) + 1))
  BY FS_Interval
<1> QED  BY <1>1, <1>2, FS_Subset, FS_CardinalityType

LEMMA EndOfField ==
  ASSUME NEW T, NEW text \in Seq(T), NEW delimiter,
         NEW k \in 1..Cardinality(FieldEnds(text, delimiter))
  PROVE  /\ EndOf(text, delimiter, k) \in FieldEnds(text, delimiter)
         /\ Cardinality(UpTo(FieldEnds(text, delimiter), EndOf(text, delimiter, k))) = k
<1> PICK S : S = FieldEnds(text, delimiter)
  OBVIOUS
<1>1. S \subseteq 1..(Len(text) + 1) /\ IsFiniteSet(S)
  BY EndsAreFinite
<1>2. Len(text) + 1 \in Nat /\ S \subseteq 0..(Len(text) + 1)
  BY <1>1
<1>3. \E e \in S : Cardinality(UpTo(S, e)) = k
  BY <1>1, <1>2, KthExists
<1> QED  BY <1>3 DEF EndOf

\* The one with k places up to it is the k-th.
LEMMA EndIs ==
  ASSUME NEW T, NEW text \in Seq(T), NEW delimiter, NEW e \in FieldEnds(text, delimiter)
  PROVE  /\ Cardinality(UpTo(FieldEnds(text, delimiter), e)) \in 1..Cardinality(FieldEnds(text, delimiter))
         /\ EndOf(text, delimiter, Cardinality(UpTo(FieldEnds(text, delimiter), e))) = e
<1> PICK S : S = FieldEnds(text, delimiter)
  OBVIOUS
<1>1. S \subseteq 1..(Len(text) + 1) /\ IsFiniteSet(S) /\ S \subseteq Nat
  BY EndsAreFinite
<1> PICK k : k = Cardinality(UpTo(S, e))
  OBVIOUS
<1>2. k \in Nat /\ k <= Cardinality(S) /\ k # 0
  <2>1. e \in UpTo(S, e)
    BY <1>1 DEF UpTo
  <2>2. IsFiniteSet(UpTo(S, e))
    BY <1>1, UpToFinite
  <2> QED  BY <1>1, <2>1, <2>2, UpToFinite, FS_EmptySet
<1>3. k \in 1..Cardinality(S)
  BY <1>1, <1>2, FS_CardinalityType
<1> PICK f : f = EndOf(text, delimiter, k)
  OBVIOUS
<1>4. f \in S /\ Cardinality(UpTo(S, f)) = k
  BY <1>3, EndOfField
<1>5. ~(e < f) /\ ~(f < e)
  BY <1>1, <1>2, <1>4, MoreUpTo
<1>6. e = f
  BY <1>1, <1>4, <1>5
<1> QED  BY <1>3, <1>6

\* What Split makes of a text.
LEMMA SplitFields ==
  ASSUME NEW T, NEW text \in Seq(T), NEW delimiter
  PROVE  /\ DOMAIN Split(text, delimiter) = 1..Cardinality(FieldEnds(text, delimiter))
         /\ Len(Split(text, delimiter)) = Cardinality(FieldEnds(text, delimiter))
         /\ \A k \in 1..Cardinality(FieldEnds(text, delimiter)) :
              Split(text, delimiter)[k]
                = SubSeq(text, IF k = 1 THEN 1 ELSE EndOf(text, delimiter, k - 1) + 1,
                         EndOf(text, delimiter, k) - 1)
<1> DEFINE ends   == FieldEnds(text, delimiter)
           End(k) == CHOOSE e \in ends : Cardinality({i \in ends : i <= e}) = k
           fields == [k \in 1..Cardinality(ends) |->
                        SubSeq(text, IF k = 1 THEN 1 ELSE End(k - 1) + 1, End(k) - 1)]
<1>1. Split(text, delimiter) = fields
  BY Zenon DEF Split
<1>2. \A k : End(k) = EndOf(text, delimiter, k)
  BY Zenon DEF EndOf, UpTo
<1> HIDE DEF End
<1>3. Cardinality(ends) \in Nat
  BY EndsAreFinite
<1>4. DOMAIN fields = 1..Cardinality(ends) /\ Len(fields) = Cardinality(ends)
  BY <1>3
<1> QED  BY <1>1, <1>2, <1>4

\* A field lies between two ends that follow each other: it has no delimiter.
LEMMA FieldOf ==
  ASSUME NEW T, NEW text \in Seq(T), NEW delimiter, NEW k \in DOMAIN Split(text, delimiter)
  PROVE  \E first \in 1..(Len(text) + 1) : \E after \in first..(Len(text) + 1) :
           /\ Split(text, delimiter)[k] = SubSeq(text, first, after - 1)
           /\ \A i \in first..(after - 1) : text[i] # delimiter
<1> PICK S : S = FieldEnds(text, delimiter)
  OBVIOUS
<1> DEFINE End(j) == EndOf(text, delimiter, j)
           after == End(k)
           first == IF k = 1 THEN 1 ELSE End(k - 1) + 1
<1>1. S \subseteq 1..(Len(text) + 1) /\ IsFiniteSet(S) /\ S \subseteq Nat /\ Cardinality(S) \in Nat
  BY EndsAreFinite
<1>2. k \in 1..Cardinality(S) /\ Split(text, delimiter)[k] = SubSeq(text, first, after - 1)
  BY SplitFields
<1>3. after \in S /\ Cardinality(UpTo(S, after)) = k
  BY <1>2, EndOfField
<1>4. ASSUME k # 1
      PROVE  End(k - 1) \in S /\ Cardinality(UpTo(S, End(k - 1))) = k - 1 /\ End(k - 1) < after
  <2>1. k - 1 \in 1..Cardinality(S)
    BY <1>1, <1>2, <1>4
  <2>2. End(k - 1) \in S /\ Cardinality(UpTo(S, End(k - 1))) = k - 1
    BY <2>1, EndOfField
  <2> PICK before : before = End(k - 1)
    OBVIOUS
  <2>3. before \in S /\ Cardinality(UpTo(S, before)) = k - 1
    BY <2>2
  <2> HIDE DEF End, after
  <2>4. before # after /\ ~(after < before)
    BY <1>1, <1>2, <1>3, <2>3, MoreUpTo
  <2>5. before < after
    BY <1>1, <1>3, <2>3, <2>4
  <2> QED  BY <2>2, <2>5
<1> HIDE DEF End, after
<1>5. first \in 1..(Len(text) + 1) /\ after \in first..(Len(text) + 1)
  BY <1>1, <1>3, <1>4
<1>6. ASSUME NEW i \in first..(after - 1), text[i] = delimiter
      PROVE  FALSE
  <2>1. i \in 1..Len(text) /\ i < after
    BY <1>5
  <2>2. i \in S
    BY <1>6, <2>1 DEF FieldEnds
  <2>3. Cardinality(UpTo(S, i)) < k /\ Cardinality(UpTo(S, i)) \in Nat
    BY <1>1, <1>3, <2>1, <2>2, MoreUpTo, UpToFinite
  <2>4. CASE k = 1
    <3>0. i <= i
      BY <2>1
    <3>1. i \in UpTo(S, i) /\ IsFiniteSet(UpTo(S, i))
      BY <1>1, <2>2, <3>0, UpToFinite DEF UpTo
    <3>2. Cardinality(UpTo(S, i)) = 0
      BY <2>3, <2>4
    <3> QED  BY <3>1, <3>2, FS_EmptySet
  <2>5. CASE k # 1
    <3>1. End(k - 1) < i
      BY <1>1, <1>4, <2>5
    <3>2. k - 1 < Cardinality(UpTo(S, i))
      BY <1>1, <1>4, <2>2, <2>5, <3>1, MoreUpTo
    <3> QED  BY <1>1, <1>2, <2>3, <3>2
  <2> QED  BY <2>4, <2>5
<1> HIDE DEF first
<1> QED  BY <1>2, <1>5, <1>6

-----------------------------------------------------------------------------
(* Digits                                                                  *)

LEMMA TenDigits ==
  /\ Digit(0) = "0" /\ Digit(1) = "1" /\ Digit(2) = "2" /\ Digit(3) = "3" /\ Digit(4) = "4"
  /\ Digit(5) = "5" /\ Digit(6) = "6" /\ Digit(7) = "7" /\ Digit(8) = "8" /\ Digit(9) = "9"
BY DEF Digit, DigitTexts

LEMMA DigitsDiffer ==
  ASSUME NEW m \in 0..9, NEW n \in 0..9, Digit(m) = Digit(n)
  PROVE  m = n
<1>1. m \in {0, 1, 2, 3, 4, 5, 6, 7, 8, 9} /\ n \in {0, 1, 2, 3, 4, 5, 6, 7, 8, 9}
  OBVIOUS
<1> QED  BY <1>1, TenDigits

\* No digit is one of the characters the program looks for.
LEMMA DigitsAreNoOthers ==
  ASSUME NEW digit \in Digits
  PROVE  /\ digit \notin Blanks /\ digit # Comma /\ digit # Dot /\ digit # Minus
         /\ digit # "nan"
<1>1. digit \in {"0", "1", "2", "3", "4", "5", "6", "7", "8", "9"}
  <2>1. PICK n \in 0..9 : digit = Digit(n)
    BY DEF Digits
  <2>2. n \in {0, 1, 2, 3, 4, 5, 6, 7, 8, 9}
    OBVIOUS
  <2> QED  BY <2>1, <2>2, TenDigits
<1> QED  BY <1>1, Zenon DEF Blanks, Space, Newline, Comma, Dot, Minus

LEMMA ValueOfDigit ==
  ASSUME NEW n \in 0..9
  PROVE  Digit(n) \in Digits /\ DigitValue(Digit(n)) = n
<1>1. Digit(n) \in Digits
  BY DEF Digits
<1>2. \E m \in 0..9 : Digit(m) = Digit(n)
  OBVIOUS
<1>3. DigitValue(Digit(n)) \in 0..9 /\ Digit(DigitValue(Digit(n))) = Digit(n)
  BY <1>2, Zenon DEF DigitValue
<1> QED  BY <1>1, <1>3, DigitsDiffer

LEMMA DigitValueType ==
  ASSUME NEW digit \in Digits
  PROVE  DigitValue(digit) \in 0..9
<1>1. PICK n \in 0..9 : digit = Digit(n)
  BY DEF Digits
<1> QED  BY <1>1, ValueOfDigit

-----------------------------------------------------------------------------
(* The number some digits stand for                                        *)

\* The fold behind ValueOf: from the last digit down.
Latest(S) == [s \in SUBSET S |-> Max(s)]
Reading(digits) == [p \in (DOMAIN digits) \X Nat |-> 10 * p[2] + DigitValue(digits[p[1]])]

LEMMA LatestPicks ==
  ASSUME NEW n \in Nat
  PROVE  Picks(Latest(1..n), 1..n)
<1>1. ASSUME NEW s \in SUBSET (1..n), s # {}
      PROVE  Max(s) \in s
  <2>1. s \subseteq 0..n
    OBVIOUS
  <2> QED  BY <1>1, <2>1, HasGreatest
<1> QED  BY <1>1 DEF Picks, Latest

LEMMA ReadingType ==
  ASSUME NEW digits \in Seq(Digits)
  PROVE  Reading(digits) \in [(1..Len(digits)) \X Nat -> Nat]
<1>1. ASSUME NEW i \in 1..Len(digits), NEW n \in Nat
      PROVE  10 * n + DigitValue(digits[i]) \in Nat
  <2>1. DigitValue(digits[i]) \in 0..9
    BY DigitValueType
  <2> QED  BY <2>1
<1>2. DOMAIN digits = 1..Len(digits)
  OBVIOUS
<1> QED  BY <1>1, <1>2 DEF Reading

LEMMA ValueIsFold ==
  ASSUME NEW digits \in Seq(Digits)
  PROVE  \E total \in [SUBSET (1..Len(digits)) -> Nat] :
           /\ FoldsUp(total, 1..Len(digits), Latest(1..Len(digits)), Reading(digits), 0)
           /\ ValueOf(digits) = total[1..Len(digits)]
<1> PICK S : S = 1..Len(digits)
  OBVIOUS
<1>0. S = DOMAIN digits /\ Len(digits) \in Nat
  OBVIOUS
<1>01. IsFiniteSet(S)
  <2>1. 1 \in Int /\ Len(digits) \in Int
    BY <1>0
  <2> QED  BY <2>1, FS_Interval
<1>1. Picks(Latest(S), S) /\ Reading(digits) \in [S \X Nat -> Nat]
  BY <1>0, LatestPicks, ReadingType
<1>2. \E total \in [SUBSET S -> Nat] : FoldsUp(total, S, Latest(S), Reading(digits), 0)
  BY <1>01, <1>1, FoldExists, 0 \in Nat
<1> DEFINE Equation(total) ==
             total = [s \in SUBSET S |->
                        IF s = {} THEN 0
                        ELSE 10 * total[s \ {Max(s)}] + DigitValue(digits[Max(s)])]
<1>3. ASSUME NEW total \in [SUBSET S -> Nat],
             FoldsUp(total, S, Latest(S), Reading(digits), 0)
      PROVE  Equation(total)
  <2>1. ASSUME NEW s \in SUBSET S, s # {}
        PROVE  total[s] = 10 * total[s \ {Max(s)}] + DigitValue(digits[Max(s)])
    <3> PICK x : x = Max(s)
      OBVIOUS
    <3>1. Latest(S)[s] = x
      BY DEF Latest
    <3>2. x \in s
      BY <1>1, <2>1, <3>1 DEF Picks
    <3>3. total[s] = Reading(digits)[<<x, total[s \ {x}]>>]
      BY <1>3, <2>1, <3>1 DEF FoldsUp
    <3>4. total[s \ {x}] \in Nat
      OBVIOUS
    <3>5. total[s] = 10 * total[s \ {x}] + DigitValue(digits[x])
      BY <1>0, <3>2, <3>3, <3>4 DEF Reading
    <3> QED  BY <3>5
  <2>2. {} \in SUBSET S /\ total[{}] = 0
    BY <1>3 DEF FoldsUp
  <2> QED  BY <2>1, <2>2
<1>4. ASSUME NEW one, NEW other, Equation(one), Equation(other)
      PROVE  one[S] = other[S]
  <2> DEFINE good == {s \in SUBSET S : one[s] = other[s]}
  <2>1. ASSUME NEW s \in SUBSET S, \A x \in s : s \ {x} \in good
        PROVE  s \in good
    <3>1. CASE s = {}
      BY <1>4, <3>1
    <3>2. CASE s # {}
      <4> PICK x : x = Max(s)
        OBVIOUS
      <4>1. x \in s
        BY <1>1, <3>2 DEF Picks, Latest
      <4>2. /\ one[s] = 10 * one[s \ {x}] + DigitValue(digits[x])
            /\ other[s] = 10 * other[s \ {x}] + DigitValue(digits[x])
        BY <1>4, <3>2
      <4>3. one[s \ {x}] = other[s \ {x}]
        BY <2>1, <4>1
      <4> QED  BY <4>2, <4>3
    <3> QED  BY <3>1, <3>2
  <2>2. SUBSET S \subseteq good
    <3> HIDE DEF good
    <3>1. \A s \in SUBSET S : (\A x \in s : s \ {x} \in good) => s \in good
      BY <2>1
    <3>2. IsFiniteSet(S)
      BY <1>01
    <3> HIDE DEF Equation
    <3>3. SUBSET S \subseteq good
      BY ONLY <3>1, <3>2, AllSubsets
    <3> QED  BY <3>3
  <2> QED  BY <2>2
<1>5. ValueOf(digits) = (CHOOSE total : Equation(total))[S]
  BY <1>0, Zenon DEF ValueOf, FoldLeft, MapThenFoldSet
<1>6. PICK total \in [SUBSET S -> Nat] : FoldsUp(total, S, Latest(S), Reading(digits), 0)
  BY <1>2
<1>7. Equation(total)
  BY <1>3, <1>6
<1> DEFINE chosen == CHOOSE t : Equation(t)
<1>8. Equation(chosen)
  <2> HIDE DEF Equation
  <2> QED  BY <1>7
<1>9. chosen[S] = total[S]
  <2> HIDE DEF Equation, chosen
  <2> QED  BY <1>4, <1>7, <1>8
<1> QED  BY <1>5, <1>6, <1>9

LEMMA ValueType ==
  ASSUME NEW digits \in Seq(Digits)
  PROVE  ValueOf(digits) \in Nat
<1> PICK S : S = 1..Len(digits)
  OBVIOUS
<1>1. PICK total \in [SUBSET S -> Nat] : ValueOf(digits) = total[S]
  BY ValueIsFold
<1> QED  BY <1>1

LEMMA ValueOfNone == ValueOf(<<>>) = 0
<1> PICK digits : digits = <<>>
  OBVIOUS
<1> PICK S : S = 1..Len(digits)
  OBVIOUS
<1>1. digits \in Seq(Digits) /\ S = {} /\ S = 1..Len(digits)
  OBVIOUS
<1>2. PICK total \in [SUBSET S -> Nat] :
        /\ FoldsUp(total, S, Latest(S), Reading(digits), 0)
        /\ ValueOf(digits) = total[S]
  BY ONLY <1>1, ValueIsFold
<1>3. total[{}] = 0
  BY <1>2 DEF FoldsUp
<1> QED  BY <1>1, <1>2, <1>3

\* Another digit.
LEMMA ValueOfMore ==
  ASSUME NEW digits \in Seq(Digits), NEW digit \in Digits
  PROVE  ValueOf(Append(digits, digit)) = 10 * ValueOf(digits) + DigitValue(digit)
<1> PICK more : more = Append(digits, digit)
  OBVIOUS
<1> PICK n : n = Len(digits)
  OBVIOUS
<1> PICK S : S = 1..n
  OBVIOUS
<1> PICK S1 : S1 = 1..(n + 1)
  OBVIOUS
<1>1. /\ n \in Nat /\ more \in Seq(Digits) /\ Len(more) = n + 1 /\ more[n + 1] = digit
      /\ \A i \in S : more[i] = digits[i]
  OBVIOUS
<1>01. IsFiniteSet(S)
  <2>1. 1 \in Int /\ n \in Int
    BY <1>1
  <2> QED  BY <2>1, FS_Interval
<1>2. S \subseteq S1 /\ n + 1 \in S1 /\ S1 \ {n + 1} = S
      /\ DOMAIN digits = S /\ DOMAIN more = S1 /\ S1 # {}
  BY <1>1
<1>3. PICK total \in [SUBSET S -> Nat] :
        /\ FoldsUp(total, S, Latest(S), Reading(digits), 0) /\ ValueOf(digits) = total[S]
  BY ValueIsFold
<1>4. PICK longer \in [SUBSET S1 -> Nat] :
        /\ FoldsUp(longer, S1, Latest(S1), Reading(more), 0) /\ ValueOf(more) = longer[S1]
  <2>1. more \in Seq(Digits) /\ S1 = 1..Len(more)
    BY <1>1
  <2> QED  BY ONLY <2>1, ValueIsFold
<1>5. FoldsUp(longer, S, Latest(S), Reading(digits), 0)
  <2>1. ASSUME NEW s \in SUBSET S, s # {}
        PROVE  longer[s] = Reading(digits)[<<Latest(S)[s], longer[s \ {Latest(S)[s]}]>>]
    <3> PICK x : x = Latest(S)[s]
      OBVIOUS
    <3>1. s \in SUBSET S1 /\ x = Latest(S1)[s] /\ x \in s
      <4>1. x \in s
        BY <1>1, <2>1, LatestPicks DEF Picks
      <4> QED  BY <1>2, <4>1 DEF Latest
    <3>2. longer[s] = Reading(more)[<<x, longer[s \ {x}]>>]
      BY ONLY <1>4, <2>1, <3>1 DEF FoldsUp
    <3>3. longer[s \ {x}] \in Nat
      BY <1>2
    <3>4. Reading(more)[<<x, longer[s \ {x}]>>] = 10 * longer[s \ {x}] + DigitValue(more[x])
      BY <1>2, <3>1, <3>3 DEF Reading
    <3>5. Reading(digits)[<<x, longer[s \ {x}]>>] = 10 * longer[s \ {x}] + DigitValue(digits[x])
      BY <1>2, <3>1, <3>3 DEF Reading
    <3> QED  BY <1>1, <3>1, <3>2, <3>4, <3>5
  <2>2. longer[{}] = 0
    BY <1>4 DEF FoldsUp
  <2> QED  BY <2>1, <2>2 DEF FoldsUp
<1>6. longer[S] = total[S]
  <2>1. S \in SUBSET S /\ Picks(Latest(S), S)
    BY <1>1, LatestPicks
  <2> QED  BY <1>01, <1>3, <1>5, <2>1, FoldUnique
<1>7. Latest(S1)[S1] = n + 1
  <2>1. \A m \in S1 : m <= n + 1
    BY <1>1
  <2>2. S1 \subseteq Nat
    BY <1>1
  <2>3. Max(S1) = n + 1
    BY <1>2, <2>1, <2>2, GreatestPosition
  <2> QED  BY <2>3 DEF Latest
<1>8. longer[S1] = Reading(more)[<<n + 1, longer[S]>>]
  <2> PICK x : x = Latest(S1)[S1]
    OBVIOUS
  <2>1. x = n + 1 /\ S1 \in SUBSET S1 /\ S1 # {}
    BY <1>2, <1>7
  <2>2. longer[S1] = Reading(more)[<<x, longer[S1 \ {x}]>>]
    BY <1>4, <2>1 DEF FoldsUp
  <2>3. S1 \ {x} = S
    BY <1>2, <2>1
  <2> QED  BY <2>1, <2>2, <2>3
<1>9. longer[S] \in Nat
  BY <1>2
<1>10. Reading(more)[<<n + 1, longer[S]>>] = 10 * longer[S] + DigitValue(more[n + 1])
  BY <1>2, <1>9 DEF Reading
<1> QED  BY <1>1, <1>3, <1>4, <1>6, <1>8, <1>10

-----------------------------------------------------------------------------
(* The digits of a number                                                  *)

\* What the equation of DigitsOf makes of the digits of smaller numbers.
Written(f, n) == IF n < 10 THEN <<Digit(n)>> ELSE Append(f[n \div 10], Digit(n % 10))

WrittenUpTo(f, n) == \A m \in 0..n : f[m] = Written(f, m)

LEMMA Tenth ==
  ASSUME NEW n \in Nat
  PROVE  /\ n \div 10 \in Nat /\ n % 10 \in 0..9 /\ n = 10 * (n \div 10) + (n % 10)
         /\ n >= 10 => n \div 10 < n
         /\ n < 10 => n \in 0..9
<1>1. n \div 10 \in Nat /\ n % 10 \in 0..9
  OBVIOUS
<1>2. n = 10 * (n \div 10) + (n % 10)
  OBVIOUS
<1> QED  BY <1>1, <1>2

LEMMA WrittenType ==
  ASSUME NEW f \in [Nat -> Seq(Digits)], NEW n \in Nat
  PROVE  Written(f, n) \in Seq(Digits)
<1>1. CASE n < 10
  <2>1. Digit(n) \in Digits
    BY <1>1, Tenth, ValueOfDigit
  <2> QED  BY <1>1, <2>1 DEF Written
<1>2. CASE ~(n < 10)
  <2>1. f[n \div 10] \in Seq(Digits) /\ Digit(n % 10) \in Digits
    BY Tenth, ValueOfDigit
  <2>2. Append(f[n \div 10], Digit(n % 10)) \in Seq(Digits)
    <3> PICK before : before = f[n \div 10]
      OBVIOUS
    <3> PICK last : last = Digit(n % 10)
      OBVIOUS
    <3> QED  BY <2>1
  <2> QED  BY <1>2, <2>2 DEF Written
<1> QED  BY <1>1, <1>2

\* Functions that follow the equation as far agree as far.
LEMMA WrittenAlike ==
  ASSUME NEW f, NEW g, NEW m \in Nat, NEW n \in Nat, WrittenUpTo(f, m), WrittenUpTo(g, n)
  PROVE  \A k \in Nat : k <= m /\ k <= n => f[k] = g[k]
<1> DEFINE Differ == {k \in Nat : k <= m /\ k <= n /\ f[k] # g[k]}
<1> SUFFICES ASSUME Differ # {}
             PROVE  FALSE
  OBVIOUS
<1>1. Differ \subseteq Nat
  OBVIOUS
<1>2. PICK k \in Differ : \A j \in Differ : k <= j
  <2> HIDE DEF Differ
  <2> QED  BY <1>1, LeastNumber
<1>3. f[k] = Written(f, k) /\ g[k] = Written(g, k) /\ k \in Nat /\ k <= m /\ k <= n /\ f[k] # g[k]
  BY DEF WrittenUpTo
<1>4. CASE k < 10
  BY <1>3, <1>4 DEF Written
<1>5. CASE k >= 10
  <2>1. k \div 10 \in Nat /\ k \div 10 < k
    BY <1>3, <1>5, Tenth
  <2>2. f[k \div 10] = g[k \div 10]
    BY <1>2, <1>3, <2>1
  <2> QED  BY <1>3, <1>5, <2>2 DEF Written
<1> QED  BY <1>3, <1>4, <1>5

LEMMA WrittenFar ==
  ASSUME NEW n \in Nat
  PROVE  \E f \in [Nat -> Seq(Digits)] : WrittenUpTo(f, n)
<1> DEFINE Reached == {m \in Nat : \E f \in [Nat -> Seq(Digits)] : WrittenUpTo(f, m)}
<1>1. 0 \in Reached
  <2> DEFINE f == [m \in Nat |-> <<Digit(0)>>]
  <2>1. f \in [Nat -> Seq(Digits)]
    BY ValueOfDigit
  <2>2. WrittenUpTo(f, 0)
    BY DEF WrittenUpTo, Written
  <2> HIDE DEF f
  <2> QED  BY <2>1, <2>2
<1>2. ASSUME NEW m \in Nat, m \in Reached
      PROVE  m + 1 \in Reached
  <2>1. PICK old \in [Nat -> Seq(Digits)] : WrittenUpTo(old, m)
    BY <1>2
  <2> DEFINE new == [k \in Nat |-> Written(old, k)]
  <2>2. new \in [Nat -> Seq(Digits)]
    BY WrittenType
  <2>3. ASSUME NEW k \in 0..(m + 1)
        PROVE  new[k] = Written(new, k)
    <3>1. new[k] = Written(old, k) /\ k \in Nat
      OBVIOUS
    <3>2. CASE k < 10
      BY <3>1, <3>2 DEF Written
    <3>3. CASE k >= 10
      <4>1. k \div 10 \in 0..m
        BY <3>1, <3>3, Tenth
      <4>2. new[k \div 10] = Written(old, k \div 10)
        BY <4>1
      <4>3. old[k \div 10] = Written(old, k \div 10)
        BY <2>1, <4>1 DEF WrittenUpTo
      <4> HIDE DEF new
      <4>4. Written(new, k) = Append(new[k \div 10], Digit(k % 10))
            /\ Written(old, k) = Append(old[k \div 10], Digit(k % 10))
        <5>1. ~(k < 10)
          BY <3>1, <3>3
        <5> QED  BY <5>1 DEF Written
      <4> QED  BY <3>1, <4>2, <4>3, <4>4
    <3> QED  BY <3>1, <3>2, <3>3
  <2>4. WrittenUpTo(new, m + 1)
    <3> HIDE DEF new
    <3> QED  BY <2>3 DEF WrittenUpTo
  <2> HIDE DEF new
  <2> QED  BY <2>2, <2>4
<1>3. Nat \subseteq Reached
  <2> HIDE DEF Reached
  <2> QED  BY <1>1, <1>2, Successors
<1> QED  BY <1>3

LEMMA DigitsOfNumber ==
  ASSUME NEW n \in Nat
  PROVE  DigitsOf[n] \in Seq(Digits) /\ DigitsOf[n] = Written(DigitsOf, n)
<1> DEFINE Far(m) == CHOOSE f : f \in [Nat -> Seq(Digits)] /\ WrittenUpTo(f, m)
           all == [m \in Nat |-> Far(m)[m]]
           Equation(f) == f = [m \in Nat |-> IF m < 10 THEN <<Digit(m)>>
                                             ELSE Append(f[m \div 10], Digit(m % 10))]
<1>1. \A m \in Nat : Far(m) \in [Nat -> Seq(Digits)] /\ WrittenUpTo(Far(m), m)
  BY WrittenFar, Zenon
<1> HIDE DEF Far
<1>2. all \in [Nat -> Seq(Digits)]
  BY <1>1
<1>3. ASSUME NEW m \in Nat
      PROVE  all[m] = Written(all, m)
  <2>1. all[m] = Written(Far(m), m)
    BY <1>1 DEF WrittenUpTo
  <2>2. CASE m < 10
    BY <2>1, <2>2 DEF Written
  <2>3. CASE m >= 10
    <3> PICK k : k = m \div 10
      OBVIOUS
    <3>1. k \in Nat /\ k <= m
      BY <2>3, Tenth
    <3>2. all[k] = Far(k)[k]
      BY <3>1
    <3>3. Far(k)[k] = Far(m)[k]
      <4> PICK f : f = Far(k)
        OBVIOUS
      <4> PICK g : g = Far(m)
        OBVIOUS
      <4>1. WrittenUpTo(f, k) /\ WrittenUpTo(g, m)
        BY <1>1, <3>1
      <4>2. f[k] = g[k]
        BY <3>1, <4>1, WrittenAlike
      <4> QED  BY <4>2
    <3> HIDE DEF all
    <3>4. Written(all, m) = Append(all[k], Digit(m % 10))
          /\ Written(Far(m), m) = Append(Far(m)[k], Digit(m % 10))
      BY <2>3 DEF Written
    <3> QED  BY <2>1, <3>2, <3>3, <3>4
  <2> QED  BY <2>2, <2>3
<1>4. Equation(all)
  BY <1>3 DEF Written
<1>5. Equation(DigitsOf)
  <2>1. DigitsOf = CHOOSE f : Equation(f)
    BY Zenon DEF DigitsOf
  <2> HIDE DEF Equation, all
  <2> QED  BY <1>4, <2>1
<1> PICK f : f = DigitsOf
  OBVIOUS
<1>6. \A m \in Nat : f[m] = Written(f, m)
  BY <1>5 DEF Written
<1>7. f[n] = all[n]
  <2>1. WrittenUpTo(f, n) /\ WrittenUpTo(all, n)
    <3> HIDE DEF all
    <3> QED  BY <1>3, <1>6 DEF WrittenUpTo
  <2> HIDE DEF all
  <2> QED  BY <2>1, WrittenAlike
<1> HIDE DEF all
<1> QED  BY <1>2, <1>6, <1>7

LEMMA ValueOfOne ==
  ASSUME NEW digit \in Digits
  PROVE  ValueOf(<<digit>>) = DigitValue(digit)
<1> PICK none : none = <<>>
  OBVIOUS
<1>1. none \in Seq(Digits) /\ Append(none, digit) = <<digit>>
  OBVIOUS
<1>2. ValueOf(none) = 0
  BY ValueOfNone
<1>3. DigitValue(digit) \in 0..9
  BY DigitValueType
<1>4. ValueOf(Append(none, digit)) = 10 * ValueOf(none) + DigitValue(digit)
  BY <1>1, ValueOfMore
<1> QED  BY <1>1, <1>2, <1>3, <1>4

\* Written and read again it is the same number.
LEMMA ValueOfDigitsOf ==
  ASSUME NEW n \in Nat
  PROVE  /\ DigitsOf[n] \in Seq(Digits) /\ Len(DigitsOf[n]) > 0
         /\ ValueOf(DigitsOf[n]) = n
<1>1. ASSUME NEW m \in Nat
      PROVE  Len(DigitsOf[m]) > 0
  <2>1. CASE m < 10
    <3>1. DigitsOf[m] = <<Digit(m)>>
      BY <2>1, DigitsOfNumber DEF Written
    <3> QED  BY <3>1
  <2>2. CASE ~(m < 10)
    <3> PICK before : before = DigitsOf[m \div 10]
      OBVIOUS
    <3> PICK last : last = Digit(m % 10)
      OBVIOUS
    <3>1. DigitsOf[m] = Append(before, last)
      BY <2>2, DigitsOfNumber DEF Written
    <3>2. before \in Seq(Digits)
      BY Tenth, DigitsOfNumber
    <3> QED  BY <3>1, <3>2
  <2> QED  BY <2>1, <2>2
<1> DEFINE Wrong == {m \in Nat : ValueOf(DigitsOf[m]) # m}
<1>2. Wrong = {}
  <2> SUFFICES ASSUME Wrong # {}
               PROVE  FALSE
    OBVIOUS
  <2>1. Wrong \subseteq Nat
    OBVIOUS
  <2>2. PICK m \in Wrong : \A j \in Wrong : m <= j
    <3> HIDE DEF Wrong
    <3> QED  BY <2>1, LeastNumber
  <2>3. m \in Nat /\ ValueOf(DigitsOf[m]) # m
    OBVIOUS
  <2>4. CASE m < 10
    <3>1. DigitsOf[m] = <<Digit(m)>>
      BY <2>3, <2>4, DigitsOfNumber DEF Written
    <3>2. m \in 0..9
      BY <2>3, <2>4
    <3>3. Digit(m) \in Digits /\ DigitValue(Digit(m)) = m
      BY <3>2, ValueOfDigit
    <3>4. ValueOf(<<Digit(m)>>) = m
      BY <3>3, ValueOfOne
    <3> QED  BY <2>3, <3>1, <3>4
  <2>5. CASE ~(m < 10)
    <3> PICK k : k = m \div 10
      OBVIOUS
    <3> PICK r : r = m % 10
      OBVIOUS
    <3>1. k \in Nat /\ k < m /\ r \in 0..9 /\ m = 10 * k + r
      BY <2>3, <2>5, Tenth
    <3> PICK before : before = DigitsOf[k]
      OBVIOUS
    <3>2. before \in Seq(Digits)
      BY <3>1, DigitsOfNumber
    <3>3. DigitsOf[m] = Append(before, Digit(r))
      BY <2>3, <2>5, DigitsOfNumber DEF Written
    <3>4. ValueOf(before) = k
      BY <2>2, <2>3, <3>1
    <3>5. Digit(r) \in Digits /\ DigitValue(Digit(r)) = r
      BY <3>1, ValueOfDigit
    <3>6. ValueOf(Append(before, Digit(r))) = 10 * k + r
      BY <3>2, <3>4, <3>5, ValueOfMore
    <3> QED  BY <2>3, <3>1, <3>3, <3>6
  <2> QED  BY <2>4, <2>5
<1>3. ValueOf(DigitsOf[n]) = n
  BY <1>2
<1> QED  BY <1>1, <1>3, DigitsOfNumber

\* The first digits of a number stand for no more than all of them.
LEMMA ValueOfFirst ==
  ASSUME NEW digits \in Seq(Digits), NEW n \in 0..Len(digits)
  PROVE  ValueOf(SubSeq(digits, 1, n)) <= ValueOf(digits)
<1> DEFINE First(k) == SubSeq(digits, 1, k)
           Short == {k \in Nat : k <= Len(digits) => ValueOf(First(Len(digits) - k)) <= ValueOf(digits)}
<1>0. Len(digits) \in Nat
  OBVIOUS
<1>1. 0 \in Short
  <2>1. First(Len(digits)) = digits
    OBVIOUS
  <2>2. ValueOf(digits) \in Nat /\ Len(digits) - 0 = Len(digits)
    BY <1>0, ValueType
  <2> HIDE DEF First
  <2> QED  BY <2>1, <2>2
<1>2. ASSUME NEW k \in Nat, k \in Short
      PROVE  k + 1 \in Short
  <2> SUFFICES ASSUME k + 1 <= Len(digits)
               PROVE  ValueOf(First(Len(digits) - (k + 1))) <= ValueOf(digits)
    BY <1>0
  <2> PICK m : m = Len(digits) - (k + 1)
    OBVIOUS
  <2>1. m \in Nat /\ m + 1 = Len(digits) - k /\ m + 1 \in 1..Len(digits)
    BY <1>0
  <2> PICK less : less = First(m)
    OBVIOUS
  <2>2. less \in Seq(Digits) /\ First(m + 1) = Append(less, digits[m + 1]) /\ digits[m + 1] \in Digits
    BY <2>1
  <2>3. ValueOf(First(m + 1)) <= ValueOf(digits)
    BY <1>0, <1>2, <2>1
  <2> HIDE DEF First
  <2>4. ValueOf(First(m + 1)) = 10 * ValueOf(less) + DigitValue(digits[m + 1])
    BY <2>2, ValueOfMore
  <2>5. ValueOf(less) \in Nat /\ DigitValue(digits[m + 1]) \in 0..9 /\ ValueOf(digits) \in Nat
    BY <2>2, ValueType, DigitValueType
  <2>6. ValueOf(less) <= ValueOf(digits)
    <3>1. 10 * ValueOf(less) + DigitValue(digits[m + 1]) <= ValueOf(digits)
      BY <2>3, <2>4
    <3>2. \A v \in Nat, d \in 0..9, w \in Nat : 10 * v + d <= w => v <= w
      BY ONLY TRUE
    <3> QED  BY ONLY <2>5, <3>1, <3>2
  <2> QED  BY <2>6
<1>3. Nat \subseteq Short
  <2> HIDE DEF Short
  <2> QED  BY <1>1, <1>2, Successors
<1>4. Len(digits) - n \in Nat /\ Len(digits) - n <= Len(digits) /\ Len(digits) - (Len(digits) - n) = n
  BY <1>0
<1>5. Len(digits) - n \in Short
  BY <1>3, <1>4
<1> QED  BY <1>4, <1>5

-----------------------------------------------------------------------------
(* Numbers in a text                                                       *)

\* The first n tokens of the text are digits, and no more.
DigitsUpTo(text, n) ==
  /\ \A i \in 1..n : text[i] \in Digits
  /\ n < Len(text) => text[n + 1] \notin Digits

LEMMA LeadingOf ==
  ASSUME NEW T, NEW text \in Seq(T), NEW n \in 0..Len(text), DigitsUpTo(text, n)
  PROVE  /\ LeadingDigits(text) = SubSeq(text, 1, n)
         /\ SubSeq(text, 1, n) \in Seq(Digits) /\ Len(SubSeq(text, 1, n)) = n
<1> DEFINE end == FindOneOf(text, {x \in {text[i] : i \in DOMAIN text} : x \notin Digits}, 0)
<1>1. LeadingDigits(text) = IF end = 0 THEN text ELSE SubSeq(text, 1, end - 1)
  BY Zenon DEF LeadingDigits, ToSet
<1> PICK others : others = {x \in {text[i] : i \in DOMAIN text} : x \notin Digits}
  OBVIOUS
<1>2. \A i \in 1..Len(text) : text[i] \in others <=> text[i] \notin Digits
  OBVIOUS
<1>3. end = FindOneOf(text, others, 0)
  BY Zenon
<1> HIDE DEF end
<1>0. SubSeq(text, 1, n) \in Seq(Digits) /\ Len(SubSeq(text, 1, n)) = n
  <2>1. Len(SubSeq(text, 1, n)) = n /\ \A i \in 1..n : SubSeq(text, 1, n)[i] = text[i]
    OBVIOUS
  <2> PICK part : part = SubSeq(text, 1, n)
    OBVIOUS
  <2>2. part \in Seq(T) /\ Len(part) = n /\ \A i \in 1..n : part[i] \in Digits
    BY <2>1 DEF DigitsUpTo
  <2> QED  BY <2>2
<1>4. CASE n = Len(text)
  <2>1. \A i \in (0 + 1)..Len(text) : text[i] \notin others
    BY <1>2, <1>4 DEF DigitsUpTo
  <2>2. FindOneOf(text, others, 0) = 0
    BY <2>1, NotFound
  <2>3. SubSeq(text, 1, n) = text
    BY <1>4
  <2> QED  BY <1>0, <1>1, <1>3, <2>2, <2>3
<1>5. CASE n # Len(text)
  <2>1. n + 1 \in (0 + 1)..Len(text) /\ text[n + 1] \in others
    BY <1>2, <1>5 DEF DigitsUpTo
  <2>2. \A i \in (0 + 1)..(n + 1 - 1) : text[i] \notin others
    BY <1>2 DEF DigitsUpTo
  <2>3. FindOneOf(text, others, 0) = n + 1
    BY <2>1, <2>2, FoundAt
  <2>4. LeadingDigits(text) = SubSeq(text, 1, n)
    <3>1. end # 0 /\ end - 1 = n
      BY <1>3, <2>3
    <3> QED  BY <1>1, <3>1, Zenon
  <2> QED  BY <1>0, <2>4
<1> QED  BY <1>4, <1>5

LEMMA LeadingType ==
  ASSUME NEW T, NEW text \in Seq(T)
  PROVE  LeadingDigits(text) \in Seq(Digits) /\ Len(LeadingDigits(text)) <= Len(text)
<1> DEFINE Others == {i \in 1..Len(text) : text[i] \notin Digits}
<1>1. \E n \in 0..Len(text) : DigitsUpTo(text, n)
  <2>1. CASE Others = {}
    <3>1. DigitsUpTo(text, Len(text)) /\ Len(text) \in 0..Len(text)
      BY <2>1 DEF DigitsUpTo
    <3> QED  BY <3>1
  <2>2. CASE Others # {}
    <3>1. Others \subseteq Nat
      OBVIOUS
    <3>2. PICK m \in Others : \A i \in Others : m <= i
      <4> HIDE DEF Others
      <4> QED  BY <2>2, <3>1, LeastNumber
    <3>3. DigitsUpTo(text, m - 1) /\ m - 1 \in 0..Len(text)
      BY <3>2 DEF DigitsUpTo
    <3> QED  BY <3>3
  <2> QED  BY <2>1, <2>2
<1>2. PICK n \in 0..Len(text) : DigitsUpTo(text, n)
  BY <1>1
<1>3. LeadingDigits(text) = SubSeq(text, 1, n) /\ SubSeq(text, 1, n) \in Seq(Digits)
      /\ Len(SubSeq(text, 1, n)) = n
  BY <1>2, LeadingOf
<1> QED  BY <1>3

\* The hundredths of a number whose fraction has these digits.
Hundredths(fraction) == SubSeq(fraction \o <<"0", "0">>, 1, 2)

LEMMA HundredthsType ==
  ASSUME NEW fraction \in Seq(Digits)
  PROVE  Hundredths(fraction) \in Seq(Digits)
<1> PICK zeros : zeros = <<"0", "0">>
  OBVIOUS
<1>1. zeros \in Seq(Digits) /\ Len(zeros) = 2
  BY ValueOfDigit, TenDigits
<1> PICK all : all = fraction \o zeros
  OBVIOUS
<1>2. all \in Seq(Digits) /\ Len(all) >= 2
  BY <1>1
<1>3. SubSeq(all, 1, 2) \in Seq(Digits)
  BY <1>2
<1> QED  BY <1>3 DEF Hundredths

LEMMA ValueOfTwoMore ==
  ASSUME NEW whole \in Seq(Digits), NEW a \in Digits, NEW b \in Digits
  PROVE  ValueOf(whole \o <<a, b>>) = 100 * ValueOf(whole) + 10 * DigitValue(a) + DigitValue(b)
<1> PICK one : one = Append(whole, a)
  OBVIOUS
<1>1. one \in Seq(Digits) /\ whole \o <<a, b>> = Append(one, b)
  OBVIOUS
<1>2. ValueOf(one) = 10 * ValueOf(whole) + DigitValue(a)
  BY ValueOfMore
<1>3. ValueOf(Append(one, b)) = 10 * ValueOf(one) + DigitValue(b)
  BY <1>1, ValueOfMore
<1>4. ValueOf(whole) \in Nat /\ DigitValue(a) \in 0..9 /\ DigitValue(b) \in 0..9
  BY ValueType, DigitValueType
<1>5. \A v \in Nat, d, e \in 0..9 : 10 * (10 * v + d) + e = 100 * v + 10 * d + e
  BY ONLY TRUE
<1>6. 10 * (10 * ValueOf(whole) + DigitValue(a)) + DigitValue(b)
        = 100 * ValueOf(whole) + 10 * DigitValue(a) + DigitValue(b)
  BY ONLY <1>4, <1>5
<1>7. 10 * ValueOf(one) + DigitValue(b) = 100 * ValueOf(whole) + 10 * DigitValue(a) + DigitValue(b)
  BY <1>2, <1>6
<1> QED  BY <1>1, <1>3, <1>7

\* What Stod computes of a text without a sign.
LEMMA StodUnsigned ==
  ASSUME NEW T, NEW text \in Seq(T), NEW n \in 1..Len(text), DigitsUpTo(text, n),
         NEW fraction \in Seq(Digits),
         \/ n = Len(text) /\ fraction = <<>>
         \/ n < Len(text) /\ text[n + 1] = Dot /\ fraction = SubSeq(text, n + 2, Len(text))
  PROVE  Stod(text) = {ValueOf(SubSeq(text, 1, n) \o Hundredths(fraction))}
<1>1. text[1] \in Digits /\ text # <<>>
  BY DEF DigitsUpTo
<1>2. ~Negative(text) /\ Unsigned(text) = text /\ text[1] # "nan"
  BY <1>1, DigitsAreNoOthers DEF Negative, Unsigned
<1> PICK whole : whole = SubSeq(text, 1, n)
  OBVIOUS
<1>3. LeadingDigits(text) = whole /\ whole \in Seq(Digits) /\ Len(whole) = n
  BY LeadingOf
<1> PICK rest : rest = SubSeq(text, n + 1, Len(text))
  OBVIOUS
<1>4. Rest(text, Len(whole)) = rest
  BY <1>3 DEF Rest
<1>5. (IF rest # <<>> /\ rest[1] = Dot THEN LeadingDigits(Tail(rest)) ELSE <<>>) = fraction
  <2>1. CASE n = Len(text) /\ fraction = <<>>
    <3>1. rest = <<>>
      BY <2>1
    <3> QED  BY <2>1, <3>1
  <2>2. CASE n < Len(text) /\ text[n + 1] = Dot /\ fraction = SubSeq(text, n + 2, Len(text))
    <3>0. /\ rest \in Seq(T) /\ Len(rest) = Len(text) - n
          /\ \A i \in 1..(Len(text) - n) : rest[i] = text[n + i]
      <4>1. /\ n + 1 \in 1..(Len(text) + 1) /\ Len(text) \in ((n + 1) - 1)..Len(text)
            /\ Len(text) - (n + 1) + 1 = Len(text) - n
        OBVIOUS
      <4>2. /\ rest \in Seq(T) /\ Len(rest) = Len(text) - (n + 1) + 1
            /\ \A i \in 1..(Len(text) - (n + 1) + 1) : rest[i] = text[(n + 1) + i - 1]
        BY <4>1, Part
      <4>3. \A i \in 1..(Len(text) - n) : (n + 1) + i - 1 = n + i
        OBVIOUS
      <4> QED  BY <4>1, <4>2, <4>3
    <3>1. /\ rest \in Seq(T) /\ rest # <<>> /\ rest[1] = Dot /\ Len(rest) = Len(text) - n
          /\ \A i \in 1..(Len(text) - n) : rest[i] = text[n + i]
      <4>1. 1 \in 1..(Len(text) - n)
        BY <2>2
      <4>2. rest[1] = text[n + 1]
        BY <3>0, <4>1
      <4>3. Len(rest) # 0
        BY <3>0, <4>1
      <4>4. rest # <<>>
        BY <4>3
      <4> QED  BY <2>2, <3>0, <4>2, <4>4
    <3>2. Tail(rest) = fraction
      <4>1. Tail(rest) = SubSeq(rest, 2, Len(rest))
        BY <3>1
      <4>2. /\ Tail(rest) \in Seq(T) /\ Len(Tail(rest)) = Len(text) - n - 1
            /\ \A i \in 1..(Len(text) - n - 1) : Tail(rest)[i] = rest[i + 1]
        BY <3>1
      <4>3. /\ fraction \in Seq(T) /\ Len(fraction) = Len(text) - n - 1
            /\ \A i \in 1..(Len(text) - n - 1) : fraction[i] = text[n + 1 + i]
        BY <2>2
      <4>4. ASSUME NEW i \in 1..(Len(text) - n - 1)
            PROVE  Tail(rest)[i] = fraction[i]
        <5>1. i + 1 \in 1..(Len(text) - n) /\ n + (i + 1) = n + 1 + i
          OBVIOUS
        <5>2. rest[i + 1] = text[n + (i + 1)]
          BY <3>1, <5>1
        <5> QED  BY <4>2, <4>3, <5>1, <5>2
      <4> QED  BY <4>2, <4>3, <4>4, SameText
    <3>3. LeadingDigits(fraction) = fraction
      <4>1. DigitsUpTo(fraction, Len(fraction)) /\ Len(fraction) \in 0..Len(fraction)
        BY DEF DigitsUpTo
      <4>2. LeadingDigits(fraction) = SubSeq(fraction, 1, Len(fraction))
        BY <4>1, LeadingOf
      <4> QED  BY <4>2
    <3> QED  BY <3>1, <3>2, <3>3
  <2> QED  BY <2>1, <2>2
<1>6. whole \o fraction # <<>>
  BY <1>3
<1> DEFINE value == ValueOf(whole \o Hundredths(fraction))
<1>7. Signed(text, value) = value
  BY <1>2 DEF Signed
<1> HIDE DEF value
<1>8. Stod(text) = {Signed(text, ValueOf(whole \o Hundredths(fraction)))}
  <2> DEFINE body   == Unsigned(text)
             first  == LeadingDigits(body)
             others == Rest(body, Len(first))
             after  == IF others # <<>> /\ others[1] = Dot THEN LeadingDigits(Tail(others)) ELSE <<>>
  <2>1. Stod(text) = IF body # <<>> /\ body[1] = "nan" THEN {NaN}
                     ELSE IF first \o after = <<>> THEN {}
                     ELSE {Signed(text, ValueOf(first \o Hundredths(after)))}
    BY Zenon DEF Stod, Hundredths
  <2>2. body = text
    BY <1>2
  <2> HIDE DEF body
  <2>3. first = whole
    BY <1>3, <2>2
  <2> HIDE DEF first
  <2>4. others = rest
    BY <1>4, <2>2, <2>3
  <2> HIDE DEF others
  <2>5. after = fraction
    BY <1>5, <2>4
  <2> HIDE DEF after
  <2> QED  BY <1>2, <1>6, <2>1, <2>2, <2>3, <2>5
<1> QED  BY <1>7, <1>8 DEF value

\* Whatever the text, stod returns a number or nan.
LEMMA StodType ==
  ASSUME NEW T, NEW text \in Seq(T)
  PROVE  Stod(text) \subseteq Int \cup {NaN}
<1> DEFINE body   == Unsigned(text)
           first  == LeadingDigits(body)
           others == Rest(body, Len(first))
           after  == IF others # <<>> /\ others[1] = Dot THEN LeadingDigits(Tail(others)) ELSE <<>>
<1>1. Stod(text) = IF body # <<>> /\ body[1] = "nan" THEN {NaN}
                   ELSE IF first \o after = <<>> THEN {}
                   ELSE {Signed(text, ValueOf(first \o Hundredths(after)))}
  BY Zenon DEF Stod, Hundredths
<1>2. body \in Seq(T)
  <2>1. text # <<>> => Tail(text) \in Seq(T)
    OBVIOUS
  <2> QED  BY <2>1 DEF Unsigned, Negative
<1> HIDE DEF body
<1>3. first \in Seq(Digits) /\ Len(first) <= Len(body)
  BY <1>2, LeadingType
<1> HIDE DEF first
<1>4. others \in Seq(T)
  BY <1>2, <1>3 DEF Rest
<1> HIDE DEF others
<1>5. after \in Seq(Digits)
  <2>1. others # <<>> => Tail(others) \in Seq(T)
    BY <1>4
  <2>2. others # <<>> => LeadingDigits(Tail(others)) \in Seq(Digits)
    BY <2>1, LeadingType
  <2> QED  BY <2>2
<1> HIDE DEF after
<1>6. Hundredths(after) \in Seq(Digits)
  BY <1>5, HundredthsType
<1>7. first \o Hundredths(after) \in Seq(Digits)
  BY <1>3, <1>6
<1>8. ValueOf(first \o Hundredths(after)) \in Nat
  BY <1>7, ValueType
<1>9. Signed(text, ValueOf(first \o Hundredths(after))) \in Int
  BY <1>8 DEF Signed
<1> QED  BY <1>1, <1>9

LEMMA HundredthsOfNone == Hundredths(<<>>) = <<"0", "0">>
<1> PICK zeros : zeros = <<"0", "0">>
  OBVIOUS
<1> PICK none : none = <<>>
  OBVIOUS
<1>1. zeros \in Seq({"0"}) /\ Len(zeros) = 2 /\ none \in Seq({"0"}) /\ Len(none) = 0
  OBVIOUS
<1> PICK all : all = none \o zeros
  OBVIOUS
<1>2. all \in Seq({"0"}) /\ Len(all) = 2 /\ \A i \in 1..2 : all[i] = zeros[i]
  BY <1>1
<1>3. all = zeros
  BY <1>1, <1>2, SameText
<1>4. SubSeq(zeros, 1, 2) = zeros
  <2> PICK part : part = SubSeq(zeros, 1, 2)
    OBVIOUS
  <2>1. part \in Seq({"0"}) /\ Len(part) = 2 /\ \A i \in 1..2 : part[i] = zeros[i]
    BY <1>1
  <2>2. part = zeros
    BY ONLY <1>1, <2>1, SameText
  <2> QED  BY <2>2
<1> QED  BY <1>1, <1>3, <1>4 DEF Hundredths

LEMMA HundredthsOfOne ==
  ASSUME NEW digit
  PROVE  Hundredths(<<digit>>) = <<digit, "0">>
<1> PICK U : U = {digit, "0"}
  OBVIOUS
<1> PICK one : one = <<digit>>
  OBVIOUS
<1> PICK two : two = <<digit, "0">>
  OBVIOUS
<1> PICK zeros : zeros = <<"0", "0">>
  OBVIOUS
<1>1. /\ one \in Seq(U) /\ Len(one) = 1 /\ one[1] = digit
      /\ two \in Seq(U) /\ Len(two) = 2 /\ two[1] = digit /\ two[2] = "0"
      /\ zeros \in Seq(U) /\ Len(zeros) = 2 /\ zeros[1] = "0"
  OBVIOUS
<1> PICK all : all = one \o zeros
  OBVIOUS
<1>2. all \in Seq(U) /\ Len(all) = 3 /\ all[1] = digit /\ all[2] = "0"
  BY <1>1
<1> PICK kept : kept = SubSeq(all, 1, 2)
  OBVIOUS
<1>3. kept \in Seq(U) /\ Len(kept) = 2 /\ kept[1] = digit /\ kept[2] = "0"
  BY <1>2
<1>4. \A i \in 1..2 : kept[i] = two[i]
  BY <1>1, <1>3
<1>5. kept = two
  BY ONLY <1>1, <1>3, <1>4, SameText
<1> QED  BY <1>5 DEF Hundredths

LEMMA ZeroDigit == "0" \in Digits /\ DigitValue("0") = 0
BY ValueOfDigit, TenDigits

\* A text of digits, with a point after them or without.
LEMMA StodOfWhole ==
  ASSUME NEW T, NEW text \in Seq(T), NEW n \in 1..Len(text), DigitsUpTo(text, n),
         n = Len(text) \/ (n + 1 = Len(text) /\ text[n + 1] = Dot)
  PROVE  Stod(text) = {100 * ValueOf(SubSeq(text, 1, n))}
<1> PICK whole : whole = SubSeq(text, 1, n)
  OBVIOUS
<1>1. whole \in Seq(Digits)
  BY LeadingOf
<1> PICK none : none = <<>>
  OBVIOUS
<1>2. none \in Seq(Digits) /\ Hundredths(none) = <<"0", "0">>
  BY HundredthsOfNone
<1>3. \/ n = Len(text) /\ none = <<>>
      \/ n < Len(text) /\ text[n + 1] = Dot /\ none = SubSeq(text, n + 2, Len(text))
  <2>1. n + 1 = Len(text) => SubSeq(text, n + 2, Len(text)) = <<>>
    OBVIOUS
  <2>2. n + 1 = Len(text) => n < Len(text)
    OBVIOUS
  <2> QED  BY <2>1, <2>2
<1>4. Stod(text) = {ValueOf(whole \o Hundredths(none))}
  <2>1. text \in Seq(T) /\ n \in 1..Len(text) /\ DigitsUpTo(text, n) /\ whole = SubSeq(text, 1, n)
    OBVIOUS
  <2> QED  BY ONLY <1>2, <1>3, <2>1, StodUnsigned
<1>5. ValueOf(whole \o <<"0", "0">>) = 100 * ValueOf(whole) + 10 * 0 + 0
  BY <1>1, ZeroDigit, ValueOfTwoMore
<1>6. ValueOf(whole) \in Nat
  BY <1>1, ValueType
<1>7. 100 * ValueOf(whole) + 10 * 0 + 0 = 100 * ValueOf(whole)
  BY <1>6
<1> QED  BY <1>2, <1>4, <1>5, <1>7

\* A text of digits with a point before the last.
LEMMA StodWithTenth ==
  ASSUME NEW T, NEW text \in Seq(T), NEW n \in 1..Len(text), DigitsUpTo(text, n),
         n + 2 = Len(text), text[n + 1] = Dot, text[n + 2] \in Digits
  PROVE  Stod(text) = {100 * ValueOf(SubSeq(text, 1, n)) + 10 * DigitValue(text[n + 2])}
<1> PICK whole : whole = SubSeq(text, 1, n)
  OBVIOUS
<1> PICK last : last = text[n + 2]
  OBVIOUS
<1>1. whole \in Seq(Digits) /\ last \in Digits
  BY LeadingOf
<1> PICK fraction : fraction = <<last>>
  OBVIOUS
<1>2. fraction \in Seq(Digits) /\ Hundredths(fraction) = <<last, "0">>
  BY <1>1, HundredthsOfOne
<1>3. n < Len(text) /\ text[n + 1] = Dot /\ fraction = SubSeq(text, n + 2, Len(text))
  <2> PICK rest : rest = SubSeq(text, n + 2, Len(text))
    OBVIOUS
  <2>1. rest \in Seq(T) /\ Len(rest) = 1 /\ rest[1] = last
    OBVIOUS
  <2>2. fraction \in Seq(Digits) /\ Len(fraction) = 1 /\ fraction[1] = last /\ last \in T
    BY <1>1
  <2>3. fraction \in Seq(T) /\ \A i \in 1..1 : rest[i] = fraction[i]
    BY <2>1, <2>2
  <2>4. rest = fraction
    BY <2>1, <2>2, <2>3, SameText
  <2> QED  BY <2>4
<1>4. Stod(text) = {ValueOf(whole \o Hundredths(fraction))}
  <2>1. text \in Seq(T) /\ n \in 1..Len(text) /\ DigitsUpTo(text, n) /\ whole = SubSeq(text, 1, n)
    OBVIOUS
  <2> QED  BY ONLY <1>2, <1>3, <2>1, StodUnsigned
<1>5. ValueOf(whole \o <<last, "0">>) = 100 * ValueOf(whole) + 10 * DigitValue(last) + 0
  <2> PICK zero : zero = "0"
    OBVIOUS
  <2>1. zero \in Digits /\ DigitValue(zero) = 0
    BY ZeroDigit
  <2>2. ValueOf(whole \o <<last, zero>>) = 100 * ValueOf(whole) + 10 * DigitValue(last) + DigitValue(zero)
    BY ONLY <1>1, <2>1, ValueOfTwoMore
  <2> QED  BY <2>1, <2>2
<1>6. ValueOf(whole) \in Nat /\ DigitValue(last) \in 0..9
  BY <1>1, ValueType, DigitValueType
<1>7. 100 * ValueOf(whole) + 10 * DigitValue(last) + 0 = 100 * ValueOf(whole) + 10 * DigitValue(last)
  <2>1. \A v \in Nat, d \in 0..9 : 100 * v + 10 * d + 0 = 100 * v + 10 * d
    BY ONLY TRUE
  <2> QED  BY ONLY <1>6, <2>1
<1> QED  BY <1>2, <1>4, <1>5, <1>7

-----------------------------------------------------------------------------
(* The quantity of a packet                                                *)

\* A quantity that a record can have.
IsQuantity(q) == q = NaN \/ (q \in Int /\ q >= 0)

NumberTokens == Digits \cup {Dot, "nan"}

LEMMA NumberTokensArePlain ==
  ASSUME NEW x \in NumberTokens
  PROVE  x \notin Blanks /\ x # Comma
<1>1. CASE x \in Digits
  BY <1>1, DigitsAreNoOthers
<1>2. CASE x = Dot
  BY <1>2, Zenon DEF Dot, Blanks, Space, Newline, Comma
<1>3. CASE x = "nan"
  BY <1>3, Zenon DEF Blanks, Space, Newline, Comma
<1> QED  BY <1>1, <1>2, <1>3 DEF NumberTokens

LEMMA RoundedIsTenths ==
  ASSUME NEW q \in Int, q >= 0, q # NaN
  PROVE  /\ Rounded(q) \div 10 \in Nat /\ Rounded(q) \in Nat
         /\ Rounded(q) = 10 * (Rounded(q) \div 10)
<1> PICK low : low = q \div 10
  OBVIOUS
<1>1. low \in Nat
  OBVIOUS
<1>2. Rounded(q) = 10 * (low + 1) \/ Rounded(q) = 10 * low
  BY DEF Rounded
<1>3. \A m \in Nat : 10 * m \in Nat /\ (10 * m) \div 10 = m
  OBVIOUS
<1>4. low + 1 \in Nat
  BY <1>1
<1> QED  BY <1>1, <1>2, <1>3, <1>4

\* The digits before the decimal point, and the one after it.
WholeDigits(q) == DigitsOf[(Rounded(q) \div 10) \div 10]
LastDigit(q) == Digit((Rounded(q) \div 10) % 10)

LEMMA DecimalDigits ==
  ASSUME NEW q \in Int, q >= 0, q # NaN
  PROVE  /\ WholeDigits(q) \in Seq(Digits) /\ Len(WholeDigits(q)) \in Nat \ {0}
         /\ LastDigit(q) \in Digits
         /\ Rounded(q) = 100 * ValueOf(WholeDigits(q)) + 10 * DigitValue(LastDigit(q))
<1> PICK t : t = Rounded(q) \div 10
  OBVIOUS
<1>1. t \in Nat /\ Rounded(q) = 10 * t
  BY RoundedIsTenths
<1>2. t \div 10 \in Nat /\ t % 10 \in 0..9 /\ t = 10 * (t \div 10) + (t % 10)
  BY <1>1, Tenth
<1>3. /\ DigitsOf[t \div 10] \in Seq(Digits) /\ Len(DigitsOf[t \div 10]) > 0
      /\ ValueOf(DigitsOf[t \div 10]) = t \div 10
  BY <1>2, ValueOfDigitsOf
<1>4. Digit(t % 10) \in Digits /\ DigitValue(Digit(t % 10)) = t % 10
  BY <1>2, ValueOfDigit
<1>5. WholeDigits(q) = DigitsOf[t \div 10] /\ LastDigit(q) = Digit(t % 10)
  BY DEF WholeDigits, LastDigit
<1>6. Rounded(q) = 100 * ValueOf(WholeDigits(q)) + 10 * DigitValue(LastDigit(q))
  <2>1. \A k, r \in Nat : 10 * (10 * k + r) = 100 * k + 10 * r
    OBVIOUS
  <2>2. 10 * t = 100 * (t \div 10) + 10 * (t % 10)
    BY <1>2, <2>1
  <2> QED  BY <1>1, <1>3, <1>4, <1>5, <2>2
<1>7. Len(DigitsOf[t \div 10]) \in Nat \ {0}
  BY <1>3
<1> QED  BY <1>3, <1>4, <1>5, <1>6, <1>7

LEMMA DecimalText ==
  ASSUME NEW q \in Int, q >= 0, q # NaN
  PROVE  /\ Decimal(q) \in Seq(NumberTokens)
         /\ Len(Decimal(q)) = Len(WholeDigits(q)) + 2
         /\ \A i \in 1..Len(WholeDigits(q)) : Decimal(q)[i] = WholeDigits(q)[i]
         /\ Decimal(q)[Len(WholeDigits(q)) + 1] = Dot
         /\ Decimal(q)[Len(WholeDigits(q)) + 2] = LastDigit(q)
<1> PICK whole : whole = WholeDigits(q)
  OBVIOUS
<1> PICK last : last = LastDigit(q)
  OBVIOUS
<1>1. whole \in Seq(Digits) /\ Len(whole) \in Nat /\ last \in Digits
  BY DecimalDigits
<1>2. Decimal(q) = whole \o <<Dot, last>>
  BY DEF Decimal, WholeDigits, LastDigit
<1>3. whole \in Seq(NumberTokens) /\ <<Dot, last>> \in Seq(NumberTokens)
  <2>1. Digits \subseteq NumberTokens /\ Dot \in NumberTokens
    BY DEF NumberTokens
  <2> QED  BY <1>1, <2>1
<1> QED  BY <1>2, <1>3

LEMMA QuantityText ==
  ASSUME NEW q, IsQuantity(q)
  PROVE  Decimal(q) \in Seq(NumberTokens) /\ Len(Decimal(q)) > 0
<1>1. CASE q = NaN
  <2>1. Decimal(q) = <<"nan">> /\ "nan" \in NumberTokens
    BY <1>1 DEF Decimal, NumberTokens
  <2> QED  BY <2>1
<1>2. CASE q # NaN
  <2>1. q \in Int /\ q >= 0
    BY <1>2 DEF IsQuantity
  <2> QED  BY <1>2, <2>1, DecimalText, DecimalDigits
<1> QED  BY <1>1, <1>2

\* The beginning of a decimal up to its last digit, before, at or after the
\* decimal point.
LEMMA StodOfDecimalUpTo ==
  ASSUME NEW q \in Int, q >= 0, q # NaN, NEW n \in 1..Len(Decimal(q))
  PROVE  Stod(SubSeq(Decimal(q), 1, n))
           = {IF n = Len(Decimal(q)) THEN Rounded(q)
              ELSE 100 * ValueOf(SubSeq(WholeDigits(q), 1,
                                        IF n > Len(WholeDigits(q)) THEN Len(WholeDigits(q)) ELSE n))}
<1> PICK text : text = Decimal(q)
  OBVIOUS
<1> PICK whole : whole = WholeDigits(q)
  OBVIOUS
<1> PICK last : last = LastDigit(q)
  OBVIOUS
<1> PICK w : w = Len(whole)
  OBVIOUS
<1>1. /\ whole \in Seq(Digits) /\ w \in Nat \ {0} /\ last \in Digits
      /\ Rounded(q) = 100 * ValueOf(whole) + 10 * DigitValue(last)
  BY DecimalDigits
<1>2. /\ text \in Seq(NumberTokens) /\ Len(text) = w + 2
      /\ \A i \in 1..w : text[i] = whole[i]
      /\ text[w + 1] = Dot /\ text[w + 2] = last
  BY DecimalText
<1> PICK cut : cut = SubSeq(text, 1, n)
  OBVIOUS
<1>3. cut \in Seq(NumberTokens) /\ Len(cut) = n /\ \A i \in 1..n : cut[i] = text[i]
  <2>1. n \in 1..Len(text)
    OBVIOUS
  <2> QED  BY <1>2, <2>1
<1>4. n \in Nat
  OBVIOUS
<1> DEFINE m == IF n > w THEN w ELSE n
<1>5. m \in 1..w /\ m \in 1..Len(cut) /\ m <= n
  BY <1>1, <1>3, <1>4
<1>6. ASSUME NEW i \in 1..m
      PROVE  cut[i] = whole[i] /\ whole[i] \in Digits
  <2>1. i \in 1..w /\ i \in 1..n
    BY <1>1, <1>4, <1>5
  <2> QED  BY <1>1, <1>2, <1>3, <2>1
<1>7. DigitsUpTo(cut, m)
  <2>1. CASE n > w
    <3>1. w + 1 \in 1..n /\ m = w
      BY <1>1, <1>4, <2>1
    <3>2. cut[w + 1] = Dot /\ Dot \notin Digits
      BY <1>2, <1>3, <3>1, DigitsAreNoOthers
    <3> QED  BY <1>6, <3>1, <3>2 DEF DigitsUpTo
  <2>2. CASE ~(n > w)
    <3>1. m = Len(cut)
      BY <1>3, <2>2
    <3> QED  BY <1>3, <1>4, <1>6, <3>1 DEF DigitsUpTo
  <2> QED  BY <2>1, <2>2
<1>8. SubSeq(cut, 1, m) = SubSeq(whole, 1, m)
  <2> PICK k : k = m
    OBVIOUS
  <2>1. /\ k \in 1..w /\ k \in 1..Len(cut) /\ \A i \in 1..k : cut[i] = whole[i]
    BY <1>5, <1>6
  <2> HIDE DEF m
  <2>2. SubSeq(cut, 1, k) = SubSeq(whole, 1, k)
    BY <1>1, <1>3, <2>1
  <2> QED  BY <2>2
<1>9. CASE n = Len(text)
  <2>1. m = w /\ m + 2 = Len(cut) /\ cut[m + 1] = Dot /\ cut[m + 2] = last
    <3>1. m = w /\ m + 1 \in 1..n /\ m + 2 \in 1..n /\ m + 2 = Len(cut)
      BY <1>1, <1>2, <1>3, <1>9
    <3> QED  BY <1>2, <1>3, <3>1
  <2>2. SubSeq(whole, 1, m) = whole
    BY <1>1, <2>1
  <2> PICK k : k = m
    OBVIOUS
  <2>3. /\ cut \in Seq(NumberTokens) /\ k \in 1..Len(cut) /\ DigitsUpTo(cut, k)
        /\ k + 2 = Len(cut) /\ cut[k + 1] = Dot /\ cut[k + 2] \in Digits
    BY <1>1, <1>3, <1>5, <1>7, <2>1
  <2>4. Stod(cut) = {100 * ValueOf(SubSeq(cut, 1, k)) + 10 * DigitValue(cut[k + 2])}
    BY ONLY <2>3, StodWithTenth
  <2>5. SubSeq(cut, 1, k) = whole /\ cut[k + 2] = last
    BY <1>8, <2>1, <2>2
  <2>6. Stod(cut) = {Rounded(q)}
    BY ONLY <1>1, <2>4, <2>5
  <2> QED  BY <1>9, <2>6
<1>10. CASE n # Len(text)
  <2>1. m = Len(cut) \/ (m + 1 = Len(cut) /\ cut[m + 1] = Dot)
    <3>1. CASE n = w + 1
      <4>1. m = w /\ m + 1 \in 1..n /\ m + 1 = Len(cut)
        BY <1>1, <1>3, <3>1
      <4> QED  BY <1>2, <1>3, <4>1
    <3>2. CASE n # w + 1
      <4>1. n <= w
        BY <1>1, <1>2, <1>4, <1>10, <3>2
      <4> QED  BY <1>1, <1>3, <1>4, <4>1
    <3> QED  BY <3>1, <3>2
  <2> PICK k : k = m
    OBVIOUS
  <2>2. /\ cut \in Seq(NumberTokens) /\ k \in 1..Len(cut) /\ DigitsUpTo(cut, k)
        /\ k = Len(cut) \/ (k + 1 = Len(cut) /\ cut[k + 1] = Dot)
    BY <1>3, <1>5, <1>7, <2>1
  <2>3. Stod(cut) = {100 * ValueOf(SubSeq(cut, 1, k))}
    BY ONLY <2>2, StodOfWhole
  <2>4. Stod(cut) = {100 * ValueOf(SubSeq(whole, 1, m))}
    BY <1>8, <2>3
  <2> QED  BY <1>10, <2>4
<1> QED  BY <1>9, <1>10

\* A quantity that was written is read again, with the decimals of a packet.
LEMMA StodOfDecimal ==
  ASSUME NEW q, IsQuantity(q)
  PROVE  Stod(Decimal(q)) = {Rounded(q)}
<1>1. CASE q = NaN
  <2> PICK text : text = <<"nan">>
    OBVIOUS
  <2>1. Decimal(q) = text /\ Rounded(q) = NaN
    BY <1>1 DEF Decimal, Rounded
  <2>2. text # <<>> /\ text[1] = "nan"
    OBVIOUS
  <2>3. "nan" # Minus
    BY Zenon DEF Minus
  <2>4. Unsigned(text) = text
    BY <2>2, <2>3 DEF Unsigned, Negative
  <2>5. Stod(text) = {NaN}
    BY <2>2, <2>4, Zenon DEF Stod
  <2> QED  BY <2>1, <2>5
<1>2. CASE q # NaN
  <2>1. q \in Int /\ q >= 0
    BY <1>2 DEF IsQuantity
  <2> PICK text : text = Decimal(q)
    OBVIOUS
  <2>2. text \in Seq(NumberTokens) /\ Len(text) > 0
    BY QuantityText
  <2>3. SubSeq(text, 1, Len(text)) = text /\ Len(text) \in 1..Len(text)
    BY <2>2
  <2>4. Stod(SubSeq(text, 1, Len(text))) = {Rounded(q)}
    BY <1>2, <2>1, <2>3, StodOfDecimalUpTo
  <2> QED  BY <2>3, <2>4
<1> QED  BY <1>1, <1>2

\* The first part of it is read as less.
LEMMA StodOfCut ==
  ASSUME NEW q, IsQuantity(q), NEW n \in 1..(Len(Decimal(q)) - 1)
  PROVE  q # NaN /\ Stod(SubSeq(Decimal(q), 1, n)) \subseteq 0..Rounded(q)
<1>1. q # NaN
  <2>1. q = NaN => Decimal(q) = <<"nan">>
    BY DEF Decimal
  <2> QED  BY <2>1
<1>2. q \in Int /\ q >= 0
  BY <1>1 DEF IsQuantity
<1> PICK whole : whole = WholeDigits(q)
  OBVIOUS
<1> PICK m : m = IF n > Len(whole) THEN Len(whole) ELSE n
  OBVIOUS
<1>3. /\ whole \in Seq(Digits) /\ Len(whole) \in Nat /\ LastDigit(q) \in Digits
      /\ Rounded(q) = 100 * ValueOf(whole) + 10 * DigitValue(LastDigit(q))
  BY <1>1, <1>2, DecimalDigits
<1>4. n \in 1..Len(Decimal(q)) /\ n # Len(Decimal(q)) /\ m \in 0..Len(whole)
  <2>1. Len(Decimal(q)) = Len(whole) + 2
    BY <1>1, <1>2, DecimalText
  <2> QED  BY <1>3, <2>1
<1>5. Stod(SubSeq(Decimal(q), 1, n)) = {100 * ValueOf(SubSeq(whole, 1, m))}
  BY <1>1, <1>2, <1>4, StodOfDecimalUpTo
<1> PICK v : v = ValueOf(SubSeq(whole, 1, m))
  OBVIOUS
<1> PICK x : x = ValueOf(whole)
  OBVIOUS
<1> PICK d : d = DigitValue(LastDigit(q))
  OBVIOUS
<1>6. v <= x /\ v \in Nat /\ x \in Nat /\ d \in 0..9
  <2>1. SubSeq(whole, 1, m) \in Seq(Digits)
    BY <1>3, <1>4
  <2> QED  BY <1>3, <1>4, <2>1, ValueOfFirst, ValueType, DigitValueType
<1>7. 100 * v \in 0..(100 * x + 10 * d)
  <2>1. \A j, k \in Nat, l \in 0..9 : j <= k => 100 * j \in 0..(100 * k + 10 * l)
    OBVIOUS
  <2> QED  BY ONLY <1>6, <2>1
<1>8. Stod(SubSeq(Decimal(q), 1, n)) = {100 * v} /\ Rounded(q) = 100 * x + 10 * d
  BY <1>3, <1>5
<1> QED  BY <1>1, <1>7, <1>8

-----------------------------------------------------------------------------
(* What is trimmed and split                                               *)

\* A text that starts and ends with something else than a blank.
IsTrimmed(text) == Len(text) > 0 /\ text[1] \notin Blanks /\ text[Len(text)] \notin Blanks

LEMMA TrimmedStays ==
  ASSUME NEW T, NEW text \in Seq(T), IsTrimmed(text)
  PROVE  Trim(text) = text
<1>1. 1 \in 1..Len(text) /\ Len(text) \in 1..Len(text)
  BY DEF IsTrimmed
<1>2. \A i \in 1..Len(text) : (i < 1 \/ Len(text) < i) => text[i] \in Blanks
  OBVIOUS
<1>3. Trim(text) = SubSeq(text, 1, Len(text))
  BY <1>1, <1>2, Trimmed DEF IsTrimmed
<1> QED  BY <1>3

\* Trim leaves nothing, or a trimmed part of the text.
LEMMA TrimPart ==
  ASSUME NEW T, NEW text \in Seq(T)
  PROVE  \/ Trim(text) = <<>>
         \/ /\ Trim(text) \in Seq(T) /\ IsTrimmed(Trim(text))
            /\ \A x : (\A i \in 1..Len(text) : text[i] # x)
                        => \A i \in 1..Len(Trim(text)) : Trim(text)[i] # x
<1>1. CASE \A i \in 1..Len(text) : text[i] \in Blanks
  BY <1>1, TrimmedAway
<1>2. CASE \E k \in 1..Len(text) : text[k] \notin Blanks
  <2>1. PICK first \in 1..Len(text) : \E last \in first..Len(text) :
           /\ text[first] \notin Blanks /\ text[last] \notin Blanks
           /\ \A i \in 1..Len(text) : (i < first \/ last < i) => text[i] \in Blanks
    BY <1>2, Ends
  <2>2. PICK last \in first..Len(text) :
           /\ text[first] \notin Blanks /\ text[last] \notin Blanks
           /\ \A i \in 1..Len(text) : (i < first \/ last < i) => text[i] \in Blanks
    BY <2>1
  <2> PICK core : core = SubSeq(text, first, last)
    OBVIOUS
  <2>3. Trim(text) = core
    BY <2>2, Trimmed
  <2>4. /\ core \in Seq(T) /\ Len(core) = last - first + 1
        /\ \A i \in 1..(last - first + 1) : core[i] = text[first + i - 1]
    BY Part
  <2>5. Len(core) > 0 /\ core[1] = text[first] /\ core[Len(core)] = text[last]
    <3>1. 1 \in 1..(last - first + 1) /\ first + 1 - 1 = first
      OBVIOUS
    <3>2. last - first + 1 \in 1..(last - first + 1) /\ first + (last - first + 1) - 1 = last
      OBVIOUS
    <3>3. core[1] = text[first + 1 - 1]
      BY ONLY <2>4, <3>1
    <3>4. core[last - first + 1] = text[first + (last - first + 1) - 1]
      BY ONLY <2>4, <3>2
    <3> QED  BY <2>4, <3>1, <3>2, <3>3, <3>4
  <2>6. ASSUME NEW x, \A i \in 1..Len(text) : text[i] # x, NEW i \in 1..Len(core)
        PROVE  core[i] # x
    <3>1. first + i - 1 \in 1..Len(text) /\ i \in 1..(last - first + 1)
      BY <2>4
    <3> QED  BY <2>4, <2>6, <3>1
  <2> QED  BY <2>2, <2>3, <2>4, <2>5, <2>6 DEF IsTrimmed
<1> QED  BY <1>1, <1>2

LEMMA TrimType ==
  ASSUME NEW T, NEW text \in Seq(T)
  PROVE  Trim(text) \in Seq(T)
<1>1. <<>> \in Seq(T)
  OBVIOUS
<1> QED  BY <1>1, TrimPart

LEMMA FindType ==
  ASSUME NEW T, NEW text \in Seq(T), NEW tokens, NEW n \in Nat
  PROVE  FindOneOf(text, tokens, n) \in 0..Len(text)
<1> DEFINE I == {j \in (n + 1)..Len(text) : text[j] \in tokens}
<1>1. FindOneOf(text, tokens, n) = IF I # {} THEN Min(I) ELSE 0
  BY DEF FindOneOf, SelectInSubSeq
<1>2. I \subseteq Nat /\ I \subseteq 0..Len(text)
  OBVIOUS
<1> HIDE DEF I
<1>3. I # {} => Min(I) \in I
  BY <1>2, HasLeast
<1>4. I # {} => Min(I) \in 0..Len(text)
  BY <1>2, <1>3
<1>5. 0 \in 0..Len(text)
  OBVIOUS
<1> QED  BY <1>1, <1>4, <1>5

LEMMA HeaderlessType ==
  ASSUME NEW T, NEW text \in Seq(T)
  PROVE  WithoutHeader(text) \in Seq(T)
<1> PICK headers : headers = {HeaderText}
  OBVIOUS
<1> PICK commas : commas = {Comma}
  OBVIOUS
<1> PICK header : header = FindOneOf(text, headers, 0)
  OBVIOUS
<1> PICK comma : comma = FindOneOf(text, commas, header)
  OBVIOUS
<1>1. WithoutHeader(text) = IF header = 0 THEN text
                            ELSE IF comma = 0 THEN <<>> ELSE Trim(Rest(text, comma))
  BY Zenon DEF WithoutHeader
<1>2. header \in 0..Len(text)
  BY FindType
<1>3. comma \in 0..Len(text)
  BY <1>2, FindType
<1>4. Rest(text, comma) \in Seq(T)
  <2>1. SubSeq(text, comma + 1, Len(text)) \in Seq(T)
    BY ONLY <1>3, text \in Seq(T)
  <2> QED  BY <2>1 DEF Rest
<1>5. Trim(Rest(text, comma)) \in Seq(T) /\ <<>> \in Seq(T)
  BY <1>4, TrimType
<1> QED  BY <1>1, <1>5

\* A field of a text is a text without the delimiter.
LEMMA FieldType ==
  ASSUME NEW T, NEW text \in Seq(T), NEW delimiter, NEW k \in DOMAIN Split(text, delimiter)
  PROVE  /\ Split(text, delimiter)[k] \in Seq(T)
         /\ \A i \in 1..Len(Split(text, delimiter)[k]) : Split(text, delimiter)[k][i] # delimiter
<1>1. PICK first \in 1..(Len(text) + 1) : \E after \in first..(Len(text) + 1) :
         /\ Split(text, delimiter)[k] = SubSeq(text, first, after - 1)
         /\ \A i \in first..(after - 1) : text[i] # delimiter
  BY FieldOf
<1>2. PICK after \in first..(Len(text) + 1) :
         /\ Split(text, delimiter)[k] = SubSeq(text, first, after - 1)
         /\ \A i \in first..(after - 1) : text[i] # delimiter
  BY <1>1
<1> PICK field : field = Split(text, delimiter)[k]
  OBVIOUS
<1>3. /\ field \in Seq(T) /\ Len(field) = after - first
      /\ \A i \in 1..(after - first) : field[i] = text[first + i - 1]
  <2>1. after - 1 \in (first - 1)..Len(text) /\ (after - 1) - first + 1 = after - first
    OBVIOUS
  <2> PICK stop : stop = after - 1
    OBVIOUS
  <2>2. /\ SubSeq(text, first, stop) \in Seq(T)
        /\ Len(SubSeq(text, first, stop)) = stop - first + 1
        /\ \A i \in 1..(stop - first + 1) : SubSeq(text, first, stop)[i] = text[first + i - 1]
    BY <2>1, Part
  <2> QED  BY <1>2, <2>1, <2>2
<1>4. ASSUME NEW i \in 1..Len(field)
      PROVE  field[i] # delimiter
  <2>1. first + i - 1 \in first..(after - 1) /\ i \in 1..(after - first)
    BY <1>3
  <2> QED  BY <1>2, <1>3, <2>1
<1> QED  BY <1>3, <1>4

-----------------------------------------------------------------------------
(* Packets                                                                 *)

\* A set with one member more.
LEMMA OneMore ==
  ASSUME NEW S, IsFiniteSet(S), NEW n \in Nat, Cardinality(S) = n, NEW x, NEW R, R = S \cup {x}
  PROVE  IsFiniteSet(R) /\ Cardinality(R) \in Nat /\ Cardinality(R) = IF x \in S THEN n ELSE n + 1
<1>1. /\ IsFiniteSet(S \cup {x})
      /\ Cardinality(S \cup {x}) = IF x \in S THEN Cardinality(S) ELSE Cardinality(S) + 1
  BY FS_AddElement
<1> QED  BY <1>1

LEMMA OneMember ==
  ASSUME NEW a, NEW A, A = {a}
  PROVE  IsFiniteSet(A) /\ Cardinality(A) = 1
BY FS_Singleton

LEMMA TwoMembers ==
  ASSUME NEW a, NEW b, a # b, NEW B, B = {a, b}
  PROVE  IsFiniteSet(B) /\ Cardinality(B) = 2
<1> PICK A : A = {a}
  OBVIOUS
<1>1. IsFiniteSet(A) /\ Cardinality(A) = 1
  BY FS_Singleton
<1>2. B = A \cup {b} /\ b \notin A
  OBVIOUS
<1>3. IsFiniteSet(B) /\ Cardinality(B) = IF b \in A THEN 1 ELSE 1 + 1
  BY ONLY <1>1, <1>2, OneMore
<1> QED  BY <1>2, <1>3

LEMMA ThreeMembers ==
  ASSUME NEW a, NEW b, NEW c, a # b, b # c, a # c, NEW C, C = {a, b, c}
  PROVE  IsFiniteSet(C) /\ Cardinality(C) = 3
<1> PICK B : B = {a, b}
  OBVIOUS
<1>1. IsFiniteSet(B) /\ Cardinality(B) = 2
  BY TwoMembers
<1>2. C = B \cup {c} /\ c \notin B
  OBVIOUS
<1>3. IsFiniteSet(C) /\ Cardinality(C) = IF c \in B THEN 2 ELSE 2 + 1
  BY ONLY <1>1, <1>2, OneMore
<1> QED  BY <1>2, <1>3

\* The places of the commas of a packet.
Commas(text) == {i \in 1..Len(text) : text[i] = Comma}

LEMMA PacketEnds ==
  ASSUME NEW T, NEW text \in Seq(T)
  PROVE  FieldEnds(text, Comma)
           = Commas(text) \cup (IF Len(text) > 0 /\ text[Len(text)] # Comma THEN {Len(text) + 1} ELSE {})
<1>1. DOMAIN text = 1..Len(text) /\ (text # <<>> <=> Len(text) > 0)
  OBVIOUS
<1> QED  BY <1>1, Zenon DEF FieldEnds, Commas, Last

\* A text with two commas, and more after them, has three fields.
LEMMA ThreeFields ==
  ASSUME NEW T, NEW text \in Seq(T),
         NEW one \in 1..Len(text), NEW two \in 1..Len(text), one < two, two < Len(text),
         Commas(text) = {one, two}
  PROVE  /\ Len(Split(text, Comma)) = 3
         /\ Split(text, Comma)[1] = SubSeq(text, 1, one - 1)
         /\ Split(text, Comma)[2] = SubSeq(text, one + 1, two - 1)
         /\ Split(text, Comma)[3] = SubSeq(text, two + 1, Len(text))
<1> PICK end : end = Len(text) + 1
  OBVIOUS
<1> PICK S : S = FieldEnds(text, Comma)
  OBVIOUS
<1>1. S = {one, two, end}
  <2>1. Len(text) \in 1..Len(text) /\ Len(text) # one /\ Len(text) # two
    OBVIOUS
  <2>2. text[Len(text)] # Comma
    BY <2>1 DEF Commas
  <2> QED  BY <2>1, <2>2, PacketEnds
<1>2. one \in Nat /\ two \in Nat /\ end \in Nat /\ one < two /\ two < end
  OBVIOUS
<1>3. UpTo(S, one) = {one} /\ UpTo(S, two) = {one, two} /\ UpTo(S, end) = {one, two, end}
  BY <1>1, <1>2 DEF UpTo
<1>4. one # two /\ two # end /\ one # end
  BY <1>2
<1>5. Cardinality(S) = 3 /\ Cardinality(UpTo(S, one)) = 1 /\ Cardinality(UpTo(S, two)) = 2
      /\ Cardinality(UpTo(S, end)) = 3
  <2>1. S = UpTo(S, end)
    BY <1>1, <1>3
  <2>2. Cardinality(UpTo(S, one)) = 1
    BY ONLY <1>3, OneMember
  <2>3. Cardinality(UpTo(S, two)) = 2
    BY ONLY <1>3, <1>4, TwoMembers
  <2>4. Cardinality(UpTo(S, end)) = 3
    BY ONLY <1>3, <1>4, ThreeMembers
  <2> QED  BY <2>1, <2>2, <2>3, <2>4
<1>6. EndOf(text, Comma, 1) = one /\ EndOf(text, Comma, 2) = two /\ EndOf(text, Comma, 3) = end
  <2>1. one \in S /\ two \in S /\ end \in S
    BY <1>1
  <2>2. \A e \in S : EndOf(text, Comma, Cardinality(UpTo(S, e))) = e
    BY EndIs
  <2> QED  BY <1>5, <2>1, <2>2
<1>7. /\ Len(Split(text, Comma)) = 3
      /\ \A k \in 1..3 :
           Split(text, Comma)[k]
             = SubSeq(text, IF k = 1 THEN 1 ELSE EndOf(text, Comma, k - 1) + 1, EndOf(text, Comma, k) - 1)
  <2>1. 1..Cardinality(FieldEnds(text, Comma)) = 1..3 /\ Cardinality(FieldEnds(text, Comma)) = 3
    BY <1>5
  <2> PICK count : count = Cardinality(FieldEnds(text, Comma))
    OBVIOUS
  <2>2. /\ Len(Split(text, Comma)) = count
        /\ \A k \in 1..count :
             Split(text, Comma)[k]
               = SubSeq(text, IF k = 1 THEN 1 ELSE EndOf(text, Comma, k - 1) + 1, EndOf(text, Comma, k) - 1)
    BY SplitFields
  <2> QED  BY ONLY <2>1, <2>2, count = Cardinality(FieldEnds(text, Comma))
<1>8. /\ Split(text, Comma)[1] = SubSeq(text, 1, EndOf(text, Comma, 1) - 1)
      /\ Split(text, Comma)[2] = SubSeq(text, EndOf(text, Comma, 1) + 1, EndOf(text, Comma, 2) - 1)
      /\ Split(text, Comma)[3] = SubSeq(text, EndOf(text, Comma, 2) + 1, EndOf(text, Comma, 3) - 1)
  BY <1>7
<1>9. end - 1 = Len(text)
  OBVIOUS
<1> QED  BY <1>6, <1>7, <1>8, <1>9

\* A text with fewer commas, or with nothing after the second, has fewer.
LEMMA FewFields ==
  ASSUME NEW T, NEW text \in Seq(T), NEW one \in Nat, NEW two \in Nat, one < two,
         Commas(text) \subseteq {one, two}, Len(text) <= two
  PROVE  Len(Split(text, Comma)) < 3
<1> PICK S : S = FieldEnds(text, Comma)
  OBVIOUS
<1> PICK end : end = Len(text) + 1
  OBVIOUS
<1>1. IsFiniteSet(S) /\ Cardinality(S) \in Nat /\ Len(Split(text, Comma)) = Cardinality(S)
  BY EndsAreFinite, SplitFields
<1>2. \E a, b : S \subseteq {a, b}
  <2>1. S \subseteq Commas(text) \cup {end}
    BY PacketEnds
  <2>2. CASE two \in Commas(text)
    <3>1. Len(text) = two /\ text[Len(text)] = Comma
      BY <2>2 DEF Commas
    <3>2. S = Commas(text)
      BY <3>1, PacketEnds
    <3> QED  BY <3>2
  <2>3. CASE two \notin Commas(text)
    <3>1. S \subseteq {one, end}
      BY <2>1, <2>3
    <3> QED  BY <3>1
  <2> QED  BY <2>2, <2>3
<1>3. PICK a, b : S \subseteq {a, b}
  BY <1>2
<1>4. IsFiniteSet({a, b}) /\ Cardinality({a, b}) <= 2
  <2> PICK A : A = {a}
    OBVIOUS
  <2> PICK B : B = {a, b}
    OBVIOUS
  <2>1. IsFiniteSet(A) /\ Cardinality(A) = 1
    BY FS_Singleton
  <2>2. B = A \cup {b}
    OBVIOUS
  <2>3. IsFiniteSet(B) /\ Cardinality(B) = IF b \in A THEN 1 ELSE 1 + 1
    BY ONLY <2>1, <2>2, OneMore
  <2> QED  BY <2>3
<1>5. Cardinality(S) <= Cardinality({a, b}) /\ Cardinality({a, b}) \in Nat
  BY <1>3, <1>4, FS_Subset, FS_CardinalityType
<1> QED  BY <1>1, <1>4, <1>5

-----------------------------------------------------------------------------
(* A line and what stands around it                                        *)

\* What ParseLine makes of a line whose header is off.
BodyRecords(body, aircraftId) ==
  LET fields == Split(body, Comma)
  IN  IF Len(fields) < 2
        THEN {}
        ELSE {record \in [AircraftId : {aircraftId}, Timestamp : {Trim(fields[1])},
                          FuelQuantity : Stod(Trim(fields[2]))] :
                /\ record.Timestamp # <<>>
                /\ record.FuelQuantity = NaN \/ record.FuelQuantity >= 0}

LEMMA ParseLineIs ==
  ASSUME NEW line, NEW aircraftId
  PROVE  ParseLine(line, aircraftId) = BodyRecords(WithoutHeader(Trim(line)), aircraftId)
BY Zenon DEF ParseLine, BodyRecords

\* The first two fields of a text, which are all that counts of it.
HasFields(text, stamp, amount) ==
  /\ ~(Len(Split(text, Comma)) < 2)
  /\ Split(text, Comma)[1] = stamp
  /\ Split(text, Comma)[2] = amount

LEMMA TwoFieldsCount ==
  ASSUME NEW one, NEW other, NEW aircraftId, NEW stamp, NEW amount, NEW stamp2, NEW amount2,
         HasFields(one, stamp, amount), HasFields(other, stamp2, amount2),
         Trim(stamp) = Trim(stamp2), Trim(amount) = Trim(amount2)
  PROVE  BodyRecords(one, aircraftId) = BodyRecords(other, aircraftId)
BY Zenon DEF BodyRecords, HasFields

LEMMA OneFieldIsNone ==
  ASSUME NEW body, NEW aircraftId, Len(Split(body, Comma)) < 2
  PROVE  BodyRecords(body, aircraftId) = {}
BY Zenon DEF BodyRecords

\* Without an amount there is no record.
LEMMA NoAmountIsNone ==
  ASSUME NEW body, NEW aircraftId, NEW stamp, NEW amount, HasFields(body, stamp, amount),
         Trim(amount) = <<>>
  PROVE  BodyRecords(body, aircraftId) = {}
<1> PICK first : first = Trim(stamp)
  OBVIOUS
<1> PICK second : second = Trim(amount)
  OBVIOUS
<1>1. Stod(<<>>) = {}
  <2>1. Unsigned(<<>>) = <<>>
    BY DEF Unsigned, Negative
  <2>2. LeadingDigits(<<>>) = <<>>
    BY DEF LeadingDigits
  <2> QED  BY <2>1, <2>2 DEF Stod, Rest
<1>2. BodyRecords(body, aircraftId)
        = {record \in [AircraftId : {aircraftId}, Timestamp : {first}, FuelQuantity : Stod(second)] :
             /\ record.Timestamp # <<>>
             /\ record.FuelQuantity = NaN \/ record.FuelQuantity >= 0}
  BY Zenon DEF BodyRecords, HasFields
<1>3. Stod(second) = {}
  BY <1>1
<1> QED  BY <1>2, <1>3

\* A text whose ends are at one place at most has no second field.
LEMMA OneEnd ==
  ASSUME NEW T, NEW text \in Seq(T), NEW one, FieldEnds(text, Comma) \subseteq {one}
  PROVE  Len(Split(text, Comma)) < 2
<1> PICK A : A = {one}
  OBVIOUS
<1>1. IsFiniteSet(A) /\ Cardinality(A) = 1
  BY OneMember
<1>2. Cardinality(FieldEnds(text, Comma)) <= 1
  BY <1>1, FS_Subset
<1>3. Len(Split(text, Comma)) = Cardinality(FieldEnds(text, Comma))
  BY SplitFields
<1>4. Cardinality(FieldEnds(text, Comma)) \in Nat
  BY EndsAreFinite
<1> QED  BY <1>2, <1>3, <1>4

\* The first two fields end at the first two ends.
LEMMA FirstTwoFields ==
  ASSUME NEW T, NEW text \in Seq(T),
         NEW one \in FieldEnds(text, Comma), NEW two \in FieldEnds(text, Comma), one < two,
         \A e \in FieldEnds(text, Comma) : e = one \/ two <= e
  PROVE  HasFields(text, SubSeq(text, 1, one - 1), SubSeq(text, one + 1, two - 1))
<1> PICK S : S = FieldEnds(text, Comma)
  OBVIOUS
<1> PICK count : count = Cardinality(S)
  OBVIOUS
<1>1. S \subseteq 1..(Len(text) + 1) /\ IsFiniteSet(S) /\ count \in Nat
  BY EndsAreFinite
<1>2. one \in S /\ two \in S /\ one \in Nat /\ two \in Nat /\ \A e \in S : e \in Nat
  BY <1>1
<1>3. UpTo(S, one) = {one} /\ UpTo(S, two) = {one, two}
  <2>1. \A e \in S : (e <= one => e = one) /\ (e <= two => e = one \/ e = two)
    BY <1>2
  <2>2. one <= one /\ one <= two /\ two <= two
    BY <1>2
  <2> QED  BY <1>2, <2>1, <2>2 DEF UpTo
<1>4. Cardinality(UpTo(S, one)) = 1 /\ Cardinality(UpTo(S, two)) = 2
  <2>1. one # two
    BY <1>2
  <2> QED  BY <1>3, <2>1, OneMember, TwoMembers
<1>5. /\ EndOf(text, Comma, 1) = one /\ EndOf(text, Comma, 2) = two
      /\ 2 \in 1..count
  <2>1. \A e \in S : /\ EndOf(text, Comma, Cardinality(UpTo(S, e))) = e
                     /\ Cardinality(UpTo(S, e)) \in 1..count
    BY EndIs
  <2> QED  BY <1>2, <1>4, <2>1
<1>6. /\ Len(Split(text, Comma)) = count
      /\ \A k \in 1..count :
           Split(text, Comma)[k]
             = SubSeq(text, IF k = 1 THEN 1 ELSE EndOf(text, Comma, k - 1) + 1, EndOf(text, Comma, k) - 1)
  BY SplitFields
<1>7. 1 \in 1..count /\ ~(count < 2)
  BY <1>1, <1>5
<1>8. /\ Split(text, Comma)[1] = SubSeq(text, 1, EndOf(text, Comma, 1) - 1)
      /\ Split(text, Comma)[2] = SubSeq(text, EndOf(text, Comma, 1) + 1, EndOf(text, Comma, 2) - 1)
  <2>1. 2 - 1 = 1 /\ 2 # 1
    OBVIOUS
  <2> QED  BY <1>5, <1>6, <1>7, <2>1
<1> QED  BY <1>5, <1>6, <1>7, <1>8 DEF HasFields

\* The tokens of a text between two places.
LEMMA Following ==
  ASSUME NEW T, NEW text \in Seq(T), NEW m \in 0..Len(text), NEW n \in m..Len(text)
  PROVE  /\ SubSeq(text, m + 1, n) \in Seq(T)
         /\ Len(SubSeq(text, m + 1, n)) = n - m
         /\ \A i \in 1..(n - m) : SubSeq(text, m + 1, n)[i] = text[m + i]
OBVIOUS

\* Blanks after a text do not matter.
LEMMA BlanksAfter ==
  ASSUME NEW T, NEW text \in Seq(T), NEW longer \in Seq(T), Len(text) <= Len(longer),
         \A i \in 1..Len(text) : longer[i] = text[i],
         \A i \in 1..Len(longer) : Len(text) < i => longer[i] \in Blanks
  PROVE  Trim(longer) = Trim(text)
<1>0. Len(text) \in Nat /\ Len(longer) \in Nat
  OBVIOUS
<1>1. CASE \A i \in 1..Len(text) : text[i] \in Blanks
  <2>1. \A i \in 1..Len(longer) : longer[i] \in Blanks
    BY <1>0, <1>1
  <2> QED  BY <1>1, <2>1, TrimmedAway
<1>2. CASE \E k \in 1..Len(text) : text[k] \notin Blanks
  <2>1. PICK first \in 1..Len(text) : \E last \in first..Len(text) :
           /\ text[first] \notin Blanks /\ text[last] \notin Blanks
           /\ \A i \in 1..Len(text) : (i < first \/ last < i) => text[i] \in Blanks
    BY <1>2, Ends
  <2>2. PICK last \in first..Len(text) :
           /\ text[first] \notin Blanks /\ text[last] \notin Blanks
           /\ \A i \in 1..Len(text) : (i < first \/ last < i) => text[i] \in Blanks
    BY <2>1
  <2>3. Trim(text) = SubSeq(text, first, last)
    BY <2>2, Trimmed
  <2>4. first \in 1..Len(longer) /\ last \in first..Len(longer)
        /\ longer[first] \notin Blanks /\ longer[last] \notin Blanks
    BY <1>0, <2>2
  <2>5. \A i \in 1..Len(longer) : (i < first \/ last < i) => longer[i] \in Blanks
    BY <1>0, <2>2
  <2>6. Trim(longer) = SubSeq(longer, first, last)
    BY <2>4, <2>5, Trimmed
  <2>7. SubSeq(longer, first, last) = SubSeq(text, first, last)
    BY <1>0, <2>2
  <2> QED  BY <2>3, <2>6, <2>7
<1> QED  BY <1>1, <1>2

\* Nor does a comma at the end of a line, with or without blanks before it.
LEMMA CommaAtEnd ==
  ASSUME NEW T, NEW core \in Seq(T), NEW longer \in Seq(T), NEW aircraftId,
         NEW n \in Nat, Len(longer) = n + 1, Len(core) <= n, Len(core) > 0,
         core[Len(core)] \notin Blanks,
         \A i \in 1..Len(core) : longer[i] = core[i],
         \A i \in 1..n : Len(core) < i => longer[i] \in Blanks,
         longer[n + 1] = Comma
  PROVE  BodyRecords(longer, aircraftId) = BodyRecords(core, aircraftId)
<1> PICK k : k = Len(core)
  OBVIOUS
<1> PICK E : E = Commas(core)
  OBVIOUS
<1>0. k \in Nat /\ k >= 1 /\ k <= n
  OBVIOUS
<1>1. FieldEnds(longer, Comma) = E \cup {n + 1}
  <2>1. \A i \in (k + 1)..n : longer[i] # Comma
    BY <1>0, TokensDiffer
  <2>2. Commas(longer) = E \cup {n + 1}
    <3>1. ASSUME NEW i \in 1..(n + 1)
          PROVE  longer[i] = Comma <=> i \in E \cup {n + 1}
      <4>1. CASE i \in 1..k
        <5>1. i # n + 1 /\ longer[i] = core[i]
          BY <1>0, <4>1
        <5> QED  BY <4>1, <5>1 DEF Commas
      <4>2. CASE i \in (k + 1)..n
        <5>1. i # n + 1 /\ i \notin 1..k
          BY <1>0, <4>2
        <5> QED  BY <2>1, <4>2, <5>1 DEF Commas
      <4>3. CASE i = n + 1
        BY <4>3
      <4> QED  BY <1>0, <4>1, <4>2, <4>3
    <3>2. E \cup {n + 1} \subseteq 1..(n + 1)
      BY <1>0 DEF Commas
    <3> QED  BY <3>1, <3>2 DEF Commas
  <2>3. Len(longer) > 0 /\ longer[Len(longer)] = Comma
    OBVIOUS
  <2> QED  BY <2>2, <2>3, PacketEnds
<1>2. FieldEnds(core, Comma) = E \cup (IF core[k] # Comma THEN {k + 1} ELSE {})
  BY <1>0, PacketEnds
<1>3. E \subseteq 1..k /\ E \subseteq Nat /\ (core[k] = Comma <=> k \in E)
  BY <1>0 DEF Commas
<1>4. ASSUME NEW i \in 1..(k + 1), NEW j \in 0..k
      PROVE  SubSeq(longer, i, j) = SubSeq(core, i, j)
  BY <1>0
<1>5. CASE E = {}
  <2>1. FieldEnds(longer, Comma) \subseteq {n + 1} /\ FieldEnds(core, Comma) \subseteq {k + 1}
    BY <1>1, <1>2, <1>5
  <2>2. Len(Split(longer, Comma)) < 2 /\ Len(Split(core, Comma)) < 2
    BY <2>1, OneEnd
  <2> QED  BY <2>2, OneFieldIsNone
<1>6. CASE E # {}
  <2> PICK one : one = Min(E)
    OBVIOUS
  <2>1. one \in E /\ \A e \in E : one <= e
    BY <1>3, <1>6, HasLeast
  <2>2. one \in 1..k /\ one \in FieldEnds(longer, Comma) /\ one \in FieldEnds(core, Comma)
    BY <1>1, <1>2, <1>3, <2>1
  <2> PICK F : F = E \ {one}
    OBVIOUS
  <2>3. CASE F # {}
    <3> PICK two : two = Min(F)
      OBVIOUS
    <3>1. F \subseteq Nat
      BY <1>3
    <3>2. two \in F /\ \A e \in F : two <= e
      BY <2>3, <3>1, HasLeast
    <3>3. two \in E /\ two \in 1..k /\ one < two
      BY <1>3, <2>1, <3>2
    <3>4. \A e \in E : e = one \/ two <= e
      BY <3>2
    <3>5. two <= n + 1 /\ two <= k + 1
      BY <1>0, <3>3
    <3>6. /\ two \in FieldEnds(longer, Comma) /\ two \in FieldEnds(core, Comma)
          /\ \A e \in FieldEnds(longer, Comma) : e = one \/ two <= e
          /\ \A e \in FieldEnds(core, Comma) : e = one \/ two <= e
      BY <1>1, <1>2, <3>3, <3>4, <3>5
    <3>7. HasFields(longer, SubSeq(longer, 1, one - 1), SubSeq(longer, one + 1, two - 1))
      BY <2>2, <3>3, <3>6, FirstTwoFields
    <3>8. HasFields(core, SubSeq(core, 1, one - 1), SubSeq(core, one + 1, two - 1))
      BY <2>2, <3>3, <3>6, FirstTwoFields
    <3>9. /\ SubSeq(longer, 1, one - 1) = SubSeq(core, 1, one - 1)
          /\ SubSeq(longer, one + 1, two - 1) = SubSeq(core, one + 1, two - 1)
      <4>1. 1 \in 1..(k + 1) /\ one - 1 \in 0..k /\ one + 1 \in 1..(k + 1) /\ two - 1 \in 0..k
        BY <1>0, <2>2, <3>3
      <4> QED  BY <1>4, <4>1
    <3> QED  BY <3>7, <3>8, <3>9, TwoFieldsCount, Zenon
  <2>4. CASE F = {}
    <3>0. E = {one}
      BY <2>1, <2>4
    <3>1. FieldEnds(longer, Comma) = {one, n + 1} /\ one < n + 1
      BY <1>0, <1>1, <2>2, <3>0
    <3>2. /\ n + 1 \in FieldEnds(longer, Comma)
          /\ \A e \in FieldEnds(longer, Comma) : e = one \/ n + 1 <= e
      BY <3>1
    <3>4. (n + 1) - 1 = n
      OBVIOUS
    <3> PICK tail : tail = SubSeq(longer, one + 1, n)
      OBVIOUS
    <3> PICK stamp : stamp = SubSeq(longer, 1, one - 1)
      OBVIOUS
    <3>3. HasFields(longer, stamp, tail)
      <4>1. HasFields(longer, SubSeq(longer, 1, one - 1), SubSeq(longer, one + 1, (n + 1) - 1))
        BY <2>2, <3>1, <3>2, FirstTwoFields
      <4> QED  BY <3>4, <4>1
    <3>5. /\ tail \in Seq(T) /\ Len(tail) = n - one
          /\ \A i \in 1..(n - one) : tail[i] = longer[one + i]
      <4>1. one \in 0..Len(longer) /\ n \in one..Len(longer)
        BY <1>0, <2>2
      <4>2. /\ SubSeq(longer, one + 1, n) \in Seq(T)
            /\ Len(SubSeq(longer, one + 1, n)) = n - one
            /\ \A i \in 1..(n - one) : SubSeq(longer, one + 1, n)[i] = longer[one + i]
        BY ONLY <4>1, longer \in Seq(T), Following
      <4> QED  BY <4>2
    <3>6. CASE one = k
      <4>1. FieldEnds(core, Comma) \subseteq {one}
        BY <1>2, <1>3, <2>1, <3>0, <3>6
      <4>2. BodyRecords(core, aircraftId) = {}
        BY <4>1, OneEnd, OneFieldIsNone
      <4>3. \A i \in 1..Len(tail) : tail[i] \in Blanks
        <5> TAKE i \in 1..Len(tail)
        <5>1. one + i \in 1..n /\ k < one + i /\ i \in 1..(n - one)
          BY <1>0, <2>2, <3>5, <3>6
        <5> QED  BY <3>5, <5>1
      <4>4. Trim(tail) = <<>>
        BY <3>5, <4>3, TrimmedAway
      <4>6. BodyRecords(longer, aircraftId) = {}
        BY <3>3, <4>4, NoAmountIsNone, Zenon
      <4> QED  BY <4>2, <4>6
    <3>7. CASE one # k
      <4>1. FieldEnds(core, Comma) = {one, k + 1} /\ one < k + 1 /\ one < k
        <5>1. core[k] # Comma
          BY <1>3, <3>0, <3>7
        <5>2. FieldEnds(core, Comma) = E \cup {k + 1}
          BY <1>2, <5>1
        <5>3. one < k /\ one < k + 1
          BY <1>0, <2>2, <3>7
        <5> QED  BY <3>0, <5>2, <5>3
      <4>2. /\ k + 1 \in FieldEnds(core, Comma)
            /\ \A e \in FieldEnds(core, Comma) : e = one \/ k + 1 <= e
        BY <1>0, <4>1
      <4> PICK amount : amount = SubSeq(core, one + 1, k)
        OBVIOUS
      <4>3. HasFields(core, stamp, amount)
        <5>1. HasFields(core, SubSeq(core, 1, one - 1), SubSeq(core, one + 1, (k + 1) - 1))
          BY <2>2, <4>1, <4>2, FirstTwoFields
        <5>2. (k + 1) - 1 = k
          BY <1>0
        <5>3. SubSeq(core, 1, one - 1) = stamp
          <6>1. 1 \in 1..(k + 1) /\ one - 1 \in 0..k
            BY <1>0, <2>2
          <6> QED  BY <1>4, <6>1
        <5> QED  BY <5>1, <5>2, <5>3
      <4>6. /\ amount \in Seq(T) /\ Len(amount) = k - one
            /\ \A i \in 1..(k - one) : amount[i] = core[one + i]
        <5>1. one \in 0..Len(core) /\ k \in one..Len(core)
          BY <1>0, <2>2
        <5>2. /\ SubSeq(core, one + 1, k) \in Seq(T)
              /\ Len(SubSeq(core, one + 1, k)) = k - one
              /\ \A i \in 1..(k - one) : SubSeq(core, one + 1, k)[i] = core[one + i]
          BY ONLY <5>1, core \in Seq(T), Following
        <5> QED  BY <5>2
      <4>7. /\ Len(amount) <= Len(tail)
            /\ \A i \in 1..Len(amount) : tail[i] = amount[i]
            /\ \A i \in 1..Len(tail) : Len(amount) < i => tail[i] \in Blanks
        <5>1. Len(amount) <= Len(tail)
          BY <1>0, <2>2, <3>5, <4>6
        <5>2. ASSUME NEW i \in 1..Len(amount)
              PROVE  tail[i] = amount[i]
          <6>0. one \in Nat /\ i \in 1..(k - one)
            <7>1. i \in 1..(k - one)
              BY ONLY <4>6, i \in 1..Len(amount)
            <7> QED  BY <2>2, <7>1
          <6>1. i \in 1..(n - one) /\ i \in 1..(k - one) /\ one + i \in 1..k
            BY ONLY <1>0, <6>0, n \in Nat
          <6>2. tail[i] = longer[one + i]
            BY ONLY <3>5, <6>1
          <6>3. amount[i] = core[one + i]
            BY ONLY <4>6, <6>1
          <6>4. longer[one + i] = core[one + i]
            BY <6>1
          <6> QED  BY ONLY <6>2, <6>3, <6>4
        <5>3. ASSUME NEW i \in 1..Len(tail), Len(amount) < i
              PROVE  tail[i] \in Blanks
          <6>0. one \in Nat /\ i \in 1..(n - one) /\ k - one < i
            <7>1. i \in 1..(n - one)
              BY <3>5
            <7>2. k - one < i
              BY <4>6, <5>3
            <7> QED  BY <2>2, <7>1, <7>2
          <6>1. i \in 1..(n - one) /\ one + i \in 1..n /\ k < one + i
            BY ONLY <1>0, <6>0, n \in Nat
          <6> QED  BY <3>5, <6>1
        <5> QED  BY <5>1, <5>2, <5>3
      <4>8. Trim(tail) = Trim(amount)
        <5>1. tail \in Seq(T) /\ amount \in Seq(T)
          BY <3>5, <4>6
        <5> QED  BY ONLY <4>7, <5>1, BlanksAfter
      <4> QED  BY ONLY <3>3, <4>3, <4>8, TwoFieldsCount
    <3> QED  BY <3>6, <3>7
  <2> QED  BY <2>3, <2>4
<1> QED  BY <1>5, <1>6

LEMMA CommaNeverMatters ==
  ASSUME NEW T, NEW line \in Seq(T), NEW aircraftId, \A i \in 1..Len(line) : line[i] # HeaderText
  PROVE  ParseLine(line \o <<Comma>>, aircraftId) = ParseLine(line, aircraftId)
<1> PICK U : U = T \cup {Comma}
  OBVIOUS
<1> PICK end : end = <<Comma>>
  OBVIOUS
<1> PICK text : text = line \o end
  OBVIOUS
<1> PICK n : n = Len(line)
  OBVIOUS
<1>0. n \in Nat /\ line \in Seq(U) /\ n = Len(line)
  OBVIOUS
<1>1. /\ text \in Seq(U) /\ Len(text) = n + 1 /\ text[n + 1] = Comma
      /\ \A i \in 1..n : text[i] = line[i]
  <2>1. end \in Seq(U) /\ Len(end) = 1 /\ end[1] = Comma
    OBVIOUS
  <2> QED  BY <1>0, <2>1
<1>2. \A i \in 1..Len(text) : text[i] # HeaderText
  <2>1. \A i \in 1..(n + 1) : i \in 1..n \/ i = n + 1
    BY <1>0
  <2> QED  BY <1>0, <1>1, <2>1, TokensDiffer
<1>3. CASE \A i \in 1..n : line[i] \in Blanks
  <2>1. Trim(line) = <<>>
    BY <1>0, <1>3, TrimmedAway
  <2>2. Trim(text) = SubSeq(text, n + 1, n + 1)
    <3>1. \A i \in 1..Len(text) : (i < n + 1 \/ n + 1 < i) => text[i] \in Blanks
      BY <1>0, <1>1, <1>3
    <3>2. n + 1 \in 1..Len(text) /\ n + 1 \in (n + 1)..Len(text) /\ text[n + 1] \notin Blanks
      BY <1>0, <1>1, TokensDiffer
    <3> QED  BY <1>1, <3>1, <3>2, Trimmed
  <2> PICK none : none = <<>>
    OBVIOUS
  <2> PICK body : body = SubSeq(text, n + 1, n + 1)
    OBVIOUS
  <2>3. body \in Seq(U) /\ Len(body) = 1 /\ body[1] = Comma /\ none \in Seq(U) /\ Len(none) = 0
    BY <1>0, <1>1
  <2>4. \A i \in 1..Len(body) : body[i] # HeaderText
    BY <2>3, TokensDiffer
  <2>5. \A i \in 1..Len(none) : none[i] # HeaderText
    BY <2>3
  <2>6. WithoutHeader(body) = body /\ WithoutHeader(none) = none
    BY <2>3, <2>4, <2>5, NoHeader
  <2>7. FieldEnds(body, Comma) \subseteq {1} /\ FieldEnds(none, Comma) \subseteq {1}
    <3>1. FieldEnds(body, Comma) = Commas(body)
      <4>1. ~(Len(body) > 0 /\ body[Len(body)] # Comma)
        BY <2>3
      <4>2. FieldEnds(body, Comma) = Commas(body) \cup {}
        BY <2>3, <4>1, PacketEnds
      <4> QED  BY <4>2
    <3>2. FieldEnds(none, Comma) = Commas(none)
      <4>1. ~(Len(none) > 0 /\ none[Len(none)] # Comma)
        BY <2>3
      <4> QED  BY <2>3, <4>1, PacketEnds
    <3>3. Commas(body) \subseteq {1} /\ Commas(none) \subseteq {1}
      BY <2>3 DEF Commas
    <3> QED  BY <3>1, <3>2, <3>3
  <2>8. BodyRecords(body, aircraftId) = {} /\ BodyRecords(none, aircraftId) = {}
    BY <2>3, <2>7, OneEnd, OneFieldIsNone
  <2>9. ParseLine(text, aircraftId) = {} /\ ParseLine(line, aircraftId) = {}
    BY <2>1, <2>2, <2>6, <2>8, ParseLineIs
  <2> QED  BY <2>9
<1>4. CASE \E k \in 1..n : line[k] \notin Blanks
  <2>1. PICK first \in 1..n : \E last \in first..n :
           /\ line[first] \notin Blanks /\ line[last] \notin Blanks
           /\ \A i \in 1..n : (i < first \/ last < i) => line[i] \in Blanks
    BY <1>0, <1>4, Ends
  <2>2. PICK last \in first..n :
           /\ line[first] \notin Blanks /\ line[last] \notin Blanks
           /\ \A i \in 1..n : (i < first \/ last < i) => line[i] \in Blanks
    BY <2>1
  <2> PICK core : core = SubSeq(line, first, last)
    OBVIOUS
  <2> PICK longer : longer = SubSeq(text, first, n + 1)
    OBVIOUS
  <2> PICK k : k = last - first + 1
    OBVIOUS
  <2> PICK m : m = n - first + 1
    OBVIOUS
  <2>3. k \in Nat /\ m \in Nat /\ 1 <= k /\ k <= m
    BY <1>0
  <2>4. Trim(line) = core
    BY <1>0, <2>2, Trimmed
  <2>5. Trim(text) = longer
    <3>1. \A i \in 1..Len(text) : (i < first \/ n + 1 < i) => text[i] \in Blanks
      <4> SUFFICES ASSUME NEW i \in 1..Len(text), i < first \/ n + 1 < i
                   PROVE  text[i] \in Blanks
        OBVIOUS
      <4>1. i \in 1..n /\ i < first
        BY <1>0, <1>1
      <4> QED  BY <1>1, <2>2, <4>1
    <3>2. first \in 1..Len(text) /\ n + 1 \in first..Len(text)
      BY <1>0, <1>1
    <3>3. text[first] \notin Blanks /\ text[n + 1] \notin Blanks
      BY <1>1, <2>2, TokensDiffer
    <3> PICK to : to = n + 1
      OBVIOUS
    <3>4. Trim(text) = SubSeq(text, first, to)
      <4>1. /\ text \in Seq(U) /\ first \in 1..Len(text) /\ to \in first..Len(text)
            /\ text[first] \notin Blanks /\ text[to] \notin Blanks
            /\ \A i \in 1..Len(text) : (i < first \/ to < i) => text[i] \in Blanks
        BY <1>1, <3>1, <3>2, <3>3
      <4> QED  BY ONLY <4>1, Trimmed
    <3> QED  BY <3>4
  <2>6. core \in Seq(U) /\ Len(core) = k /\ \A i \in 1..k : core[i] = line[first + i - 1]
    BY <1>0
  <2>7. longer \in Seq(U) /\ Len(longer) = m + 1 /\ \A i \in 1..(m + 1) : longer[i] = text[first + i - 1]
    <3>1. first \in 1..(Len(text) + 1) /\ n + 1 \in (first - 1)..Len(text)
      BY <1>0, <1>1
    <3>2. (n + 1) - first + 1 = m + 1
      BY <1>0
    <3> PICK end2 : end2 = n + 1
      OBVIOUS
    <3>3. /\ SubSeq(text, first, end2) \in Seq(U)
          /\ Len(SubSeq(text, first, end2)) = end2 - first + 1
          /\ \A i \in 1..(end2 - first + 1) : SubSeq(text, first, end2)[i] = text[first + i - 1]
      <4>1. first \in 1..(Len(text) + 1) /\ end2 \in (first - 1)..Len(text) /\ text \in Seq(U)
        BY <1>1, <3>1
      <4> QED  BY ONLY <4>1, Part
    <3> QED  BY <3>2, <3>3
  <2>8. core[k] \notin Blanks
    <3>1. k \in 1..k /\ first + k - 1 = last
      BY <1>0, <2>3
    <3> QED  BY <2>2, <2>6, <3>1
  <2>9. \A i \in 1..k : longer[i] = core[i]
    <3> TAKE i \in 1..k
    <3>1. i \in 1..(m + 1) /\ first + i - 1 \in 1..n
      BY <1>0, <2>3
    <3> QED  BY <1>1, <2>6, <2>7, <3>1
  <2>10. \A i \in 1..m : k < i => longer[i] \in Blanks
    <3> SUFFICES ASSUME NEW i \in 1..m, k < i
                 PROVE  longer[i] \in Blanks
      OBVIOUS
    <3>1. i \in 1..(m + 1) /\ first + i - 1 \in 1..n /\ last < first + i - 1
      BY <1>0, <2>3
    <3> QED  BY <1>1, <2>2, <2>7, <3>1
  <2>11. longer[m + 1] = Comma
    <3>1. m + 1 \in 1..(m + 1) /\ first + (m + 1) - 1 = n + 1
      BY <1>0, <2>3
    <3> QED  BY <1>1, <2>7, <3>1
  <2>12. BodyRecords(longer, aircraftId) = BodyRecords(core, aircraftId)
    <3>1. Len(longer) = m + 1 /\ Len(core) <= m /\ Len(core) > 0 /\ Len(core) = k
      BY <2>3, <2>6, <2>7
    <3>2. core[Len(core)] \notin Blanks
      BY <2>8, <3>1
    <3>3. \A i \in 1..Len(core) : longer[i] = core[i]
      BY <2>9, <3>1
    <3>4. \A i \in 1..m : Len(core) < i => longer[i] \in Blanks
      BY <2>10, <3>1
    <3>5. core \in Seq(U) /\ longer \in Seq(U) /\ m \in Nat
      BY <2>3, <2>6, <2>7
    <3> QED  BY ONLY <2>11, <3>1, <3>2, <3>3, <3>4, <3>5, CommaAtEnd
  <2>13. WithoutHeader(core) = core
    <3>1. \A i \in 1..Len(core) : core[i] # HeaderText
      <4> TAKE i \in 1..Len(core)
      <4>1. i \in 1..k /\ first + i - 1 \in 1..n
        BY <1>0, <2>3, <2>6
      <4> QED  BY <1>0, <2>6, <4>1
    <3> QED  BY <2>6, <3>1, NoHeader
  <2>14. WithoutHeader(longer) = longer
    <3>1. \A i \in 1..Len(longer) : longer[i] # HeaderText
      <4> TAKE i \in 1..Len(longer)
      <4>1. i \in 1..(m + 1) /\ first + i - 1 \in 1..Len(text)
        BY <1>0, <1>1, <2>3, <2>7
      <4> QED  BY <1>2, <2>7, <4>1
    <3> QED  BY <2>7, <3>1, NoHeader
  <2>15. ParseLine(text, aircraftId) = ParseLine(line, aircraftId)
    BY <2>4, <2>5, <2>12, <2>13, <2>14, ParseLineIs
  <2> QED  BY <2>15
<1> QED  BY <1>0, <1>3, <1>4

LEMMA BlanksNeverMatter ==
  ASSUME NEW T, NEW line \in Seq(T), NEW aircraftId
  PROVE  ParseLine(<<Space>> \o line \o <<Space>>, aircraftId) = ParseLine(line, aircraftId)
<1> PICK U : U = T \cup {Space}
  OBVIOUS
<1> PICK blank : blank = <<Space>>
  OBVIOUS
<1> PICK text : text = blank \o line \o blank
  OBVIOUS
<1> PICK n : n = Len(line)
  OBVIOUS
<1>0. n \in Nat /\ line \in Seq(U) /\ n = Len(line)
  OBVIOUS
<1>1. /\ text \in Seq(U) /\ Len(text) = n + 2 /\ text[1] \in Blanks /\ text[n + 2] \in Blanks
      /\ \A i \in 1..n : text[1 + i] = line[i]
  <2>1. blank \in Seq(U) /\ Len(blank) = 1 /\ blank[1] \in Blanks
    BY TokensDiffer
  <2> PICK front : front = blank \o line
    OBVIOUS
  <2>2. /\ front \in Seq(U) /\ Len(front) = 1 + n /\ front[1] = blank[1]
        /\ \A i \in 1..n : front[1 + i] = line[i]
    BY <1>0, <2>1
  <2>3. /\ front \o blank \in Seq(U) /\ Len(front \o blank) = n + 2
        /\ \A i \in 1..(n + 1) : (front \o blank)[i] = front[i]
        /\ (front \o blank)[n + 2] = blank[1]
    BY <1>0, <2>1, <2>2
  <2> QED  BY <1>0, <2>1, <2>2, <2>3
<1>2. CASE \A i \in 1..n : line[i] \in Blanks
  <2>1. \A i \in 1..Len(text) : text[i] \in Blanks
    <3> TAKE i \in 1..Len(text)
    <3>1. i = 1 \/ i = n + 2 \/ (i - 1 \in 1..n /\ 1 + (i - 1) = i)
      BY <1>0, <1>1
    <3> QED  BY <1>1, <1>2, <3>1
  <2>2. Trim(text) = Trim(line)
    BY <1>0, <1>1, <1>2, <2>1, TrimmedAway
  <2> QED  BY <2>2, ParseLineIs
<1>3. CASE \E k \in 1..n : line[k] \notin Blanks
  <2>1. PICK first \in 1..n : \E last \in first..n :
           /\ line[first] \notin Blanks /\ line[last] \notin Blanks
           /\ \A i \in 1..n : (i < first \/ last < i) => line[i] \in Blanks
    BY <1>0, <1>3, Ends
  <2>2. PICK last \in first..n :
           /\ line[first] \notin Blanks /\ line[last] \notin Blanks
           /\ \A i \in 1..n : (i < first \/ last < i) => line[i] \in Blanks
    BY <2>1
  <2>3. Trim(line) = SubSeq(line, first, last)
    BY <1>0, <2>2, Trimmed
  <2>4. Trim(text) = SubSeq(text, 1 + first, 1 + last)
    <3>1. \A i \in 1..Len(text) : (i < 1 + first \/ 1 + last < i) => text[i] \in Blanks
      <4> SUFFICES ASSUME NEW i \in 1..Len(text), i < 1 + first \/ 1 + last < i
                   PROVE  text[i] \in Blanks
        OBVIOUS
      <4>1. \/ i = 1 \/ i = n + 2
            \/ i - 1 \in 1..n /\ 1 + (i - 1) = i /\ (i - 1 < first \/ last < i - 1)
        BY <1>0, <1>1
      <4> QED  BY <1>1, <2>2, <4>1
    <3>2. 1 + first \in 1..Len(text) /\ 1 + last \in (1 + first)..Len(text)
      BY <1>0, <1>1
    <3>3. text[1 + first] \notin Blanks /\ text[1 + last] \notin Blanks
      BY <1>1, <2>2
    <3> PICK from : from = 1 + first
      OBVIOUS
    <3> PICK to : to = 1 + last
      OBVIOUS
    <3>4. Trim(text) = SubSeq(text, from, to)
      <4>1. /\ text \in Seq(U) /\ from \in 1..Len(text) /\ to \in from..Len(text)
            /\ text[from] \notin Blanks /\ text[to] \notin Blanks
            /\ \A i \in 1..Len(text) : (i < from \/ to < i) => text[i] \in Blanks
        BY <1>1, <3>1, <3>2, <3>3
      <4> QED  BY ONLY <4>1, Trimmed
    <3> QED  BY <3>4
  <2>5. SubSeq(text, 1 + first, 1 + last) = SubSeq(line, first, last)
    <3> PICK one : one = SubSeq(text, 1 + first, 1 + last)
      OBVIOUS
    <3> PICK other : other = SubSeq(line, first, last)
      OBVIOUS
    <3>1. /\ one \in Seq(U) /\ Len(one) = last - first + 1
          /\ \A i \in 1..(last - first + 1) : one[i] = text[first + i]
      BY <1>0, <1>1
    <3>2. /\ other \in Seq(U) /\ Len(other) = last - first + 1
          /\ \A i \in 1..(last - first + 1) : other[i] = line[first + i - 1]
      <4>1. line \in Seq(U) /\ first \in 1..(Len(line) + 1) /\ last \in (first - 1)..Len(line)
        BY <1>0
      <4>2. /\ SubSeq(line, first, last) \in Seq(U)
            /\ Len(SubSeq(line, first, last)) = last - first + 1
            /\ \A i \in 1..(last - first + 1) : SubSeq(line, first, last)[i] = line[first + i - 1]
        BY ONLY <4>1, Part
      <4> QED  BY <4>2
    <3>3. \A i \in 1..(last - first + 1) : one[i] = other[i]
      <4> TAKE i \in 1..(last - first + 1)
      <4>1. first + i - 1 \in 1..n /\ 1 + (first + i - 1) = first + i
        BY <1>0
      <4> QED  BY <1>1, <3>1, <3>2, <4>1
    <3>4. one = other
      BY <3>1, <3>2, <3>3, SameText
    <3> QED  BY <3>4
  <2> QED  BY <2>3, <2>4, <2>5, ParseLineIs
<1> QED  BY <1>0, <1>2, <1>3

\* Joining texts one after the other.
LEMMA Regrouped ==
  ASSUME NEW T, NEW a \in Seq(T), NEW b \in Seq(T), NEW c \in Seq(T), NEW d \in Seq(T)
  PROVE  a \o b \o (c \o d) = a \o (b \o c) \o d
<1> PICK one : one = a \o b \o (c \o d)
  OBVIOUS
<1> PICK other : other = a \o (b \o c) \o d
  OBVIOUS
<1>1. one \in Seq(T) /\ other \in Seq(T) /\ Len(one) = Len(other)
  OBVIOUS
<1>2. \A i \in 1..Len(one) : one[i] = other[i]
  OBVIOUS
<1>3. one = other
  BY <1>1, <1>2, SameText
<1> QED  BY <1>3

\* For every line of any tokens: what it reports does not depend on the header,
\* the comma and the blanks around it (TelemetryParser.cpp:28-56).
THEOREM DecorationNeverMatters ==
  ASSUME NEW T, NEW line \in Seq(T), NEW aircraftId
  PROVE  DecorationIgnored(line, aircraftId)
<1> SUFFICES ASSUME HeaderText \notin ToSet(line),
                    NEW before \in {<<Space>>, <<Space, HeaderText, Comma, Space>>},
                    NEW after \in {<<Space>>, <<Comma, Space>>}
             PROVE  ParseLine(before \o line \o after, aircraftId) = ParseLine(line, aircraftId)
  BY Zenon DEF DecorationIgnored
<1>0. \A i \in 1..Len(line) : line[i] # HeaderText
  BY DEF ToSet
<1> PICK U : U = WithDecoration(T)
  OBVIOUS
<1> PICK comma : comma = <<Comma>>
  OBVIOUS
<1> PICK blank : blank = <<Space>>
  OBVIOUS
<1>1. /\ line \in Seq(U) /\ comma \in Seq(U) /\ blank \in Seq(U) /\ before \in Seq(U)
      /\ comma \o blank = <<Comma, Space>>
  <2>0. T \subseteq U /\ Space \in U /\ HeaderText \in U /\ Comma \in U
    BY DEF WithDecoration
  <2> PICK long : long = <<Space, HeaderText, Comma, Space>>
    OBVIOUS
  <2>1. line \in Seq(U) /\ comma \in Seq(U) /\ blank \in Seq(U) /\ long \in Seq(U)
    BY <2>0
  <2>2. before = blank \/ before = long
    BY Zenon
  <2>3. comma \o blank = <<Comma, Space>>
    <3> PICK both : both = <<Comma, Space>>
      OBVIOUS
    <3>1. both \in Seq(U) /\ Len(both) = 2 /\ both[1] = Comma /\ both[2] = Space
      BY <2>0
    <3>2. /\ comma \o blank \in Seq(U) /\ Len(comma \o blank) = 2
          /\ (comma \o blank)[1] = Comma /\ (comma \o blank)[2] = Space
      <4>1. Len(comma) = 1 /\ comma[1] = Comma /\ Len(blank) = 1 /\ blank[1] = Space
        OBVIOUS
      <4> QED  BY <2>1, <4>1
    <3>3. \A i \in 1..2 : i = 1 \/ i = 2
      OBVIOUS
    <3>4. comma \o blank = both
      BY <3>1, <3>2, <3>3, SameText
    <3> QED  BY <3>4
  <2> QED  BY <2>1, <2>2, <2>3
<1>2. ASSUME NEW text \in Seq(U), \A i \in 1..Len(text) : text[i] # HeaderText
      PROVE  ParseLine(before \o text \o blank, aircraftId) = ParseLine(text, aircraftId)
  <2>1. CASE before = <<Space>>
    BY <2>1, BlanksNeverMatter
  <2>2. CASE before = <<Space, HeaderText, Comma, Space>>
    <3>1. before \o text \o blank = Decorated(text)
      BY <2>2 DEF Decorated
    <3>2. WithoutHeader(Trim(Decorated(text))) = WithoutHeader(Trim(text))
      BY <1>2, HeaderNeverMatters
    <3> QED  BY <3>1, <3>2, ParseLineIs
  <2> QED  BY <2>1, <2>2
<1>3. CASE after = blank
  BY <1>0, <1>1, <1>2, <1>3
<1>4. CASE after = comma \o blank
  <2> PICK text : text = line \o comma
    OBVIOUS
  <2>1. before \o line \o after = before \o text \o blank
    BY <1>1, <1>4, Regrouped
  <2>2. text \in Seq(U) /\ \A i \in 1..Len(text) : text[i] # HeaderText
    <3>1. Len(comma) = 1 /\ comma[1] = Comma
      OBVIOUS
    <3>2. /\ text \in Seq(U) /\ Len(text) = Len(line) + 1
          /\ \A i \in 1..Len(line) : text[i] = line[i]
          /\ text[Len(line) + 1] = Comma
      BY <1>1, <3>1
    <3>3. Len(line) \in Nat
      OBVIOUS
    <3> QED  BY <1>0, <3>2, <3>3, TokensDiffer
  <2>3. ParseLine(text, aircraftId) = ParseLine(line, aircraftId)
    BY <1>0, CommaNeverMatters
  <2> QED  BY <1>2, <2>1, <2>2, <2>3
<1> QED  BY <1>1, <1>3, <1>4

-----------------------------------------------------------------------------
(* The records of a file                                                   *)

NoComma(text) == \A i \in 1..Len(text) : text[i] # Comma

\* A text that a packet gives back: trimmed, and without a comma.
IsPlain(T, text) == text \in Seq(T) /\ IsTrimmed(text) /\ NoComma(text)

\* What ParseLine accepts.
LEMMA RecordOfLine ==
  ASSUME NEW T, NEW line \in Seq(T), NEW aircraftId, NEW record \in ParseLine(line, aircraftId)
  PROVE  /\ record = [AircraftId |-> aircraftId, Timestamp |-> record.Timestamp,
                      FuelQuantity |-> record.FuelQuantity]
         /\ IsPlain(T, record.Timestamp) /\ IsQuantity(record.FuelQuantity)
<1> PICK body : body = WithoutHeader(Trim(line))
  OBVIOUS
<1> PICK fields : fields = Split(body, Comma)
  OBVIOUS
<1>1. body \in Seq(T)
  BY TrimType, HeaderlessType
<1> PICK stamp : stamp = Trim(fields[1])
  OBVIOUS
<1> PICK amount : amount = Trim(fields[2])
  OBVIOUS
<1>2. /\ ~(Len(fields) < 2)
      /\ record \in [AircraftId : {aircraftId}, Timestamp : {stamp}, FuelQuantity : Stod(amount)]
      /\ record.Timestamp # <<>>
      /\ record.FuelQuantity = NaN \/ record.FuelQuantity >= 0
  <2>1. ParseLine(line, aircraftId)
          = IF Len(fields) < 2
              THEN {}
              ELSE {r \in [AircraftId : {aircraftId}, Timestamp : {stamp}, FuelQuantity : Stod(amount)] :
                      /\ r.Timestamp # <<>>
                      /\ r.FuelQuantity = NaN \/ r.FuelQuantity >= 0}
    BY Zenon DEF ParseLine
  <2> QED  BY <2>1
<1>3. 1 \in DOMAIN fields /\ 2 \in DOMAIN fields
  <2>1. DOMAIN fields = 1..Len(fields) /\ Len(fields) \in Nat
    BY <1>1, SplitFields, EndsAreFinite
  <2> QED  BY <1>2, <2>1
<1>4. fields[1] \in Seq(T) /\ \A i \in 1..Len(fields[1]) : fields[1][i] # Comma
  BY <1>1, <1>3, FieldType
<1>5. fields[2] \in Seq(T)
  BY <1>1, <1>3, FieldType
<1>6. amount \in Seq(T)
  BY <1>5, TrimType
<1>7. record.AircraftId = aircraftId /\ record.Timestamp = stamp /\ record.FuelQuantity \in Stod(amount)
  BY <1>2
<1>8. stamp \in Seq(T) /\ IsTrimmed(stamp) /\ \A i \in 1..Len(stamp) : stamp[i] # Comma
  <2> PICK field : field = fields[1]
    OBVIOUS
  <2>1. stamp = Trim(field) /\ field \in Seq(T) /\ \A i \in 1..Len(field) : field[i] # Comma
    BY <1>4
  <2>2. stamp # <<>>
    BY <1>2, <1>7
  <2>3. /\ stamp \in Seq(T) /\ IsTrimmed(stamp)
        /\ \A x : (\A i \in 1..Len(field) : field[i] # x) => \A i \in 1..Len(stamp) : stamp[i] # x
    BY ONLY <2>1, <2>2, TrimPart
  <2> QED  BY <2>1, <2>3
<1>9. IsQuantity(record.FuelQuantity)
  BY <1>2, <1>6, <1>7, StodType DEF IsQuantity
<1>10. record = [AircraftId |-> aircraftId, Timestamp |-> record.Timestamp,
                 FuelQuantity |-> record.FuelQuantity]
  BY <1>2
<1> QED  BY <1>7, <1>8, <1>9, <1>10 DEF IsPlain, NoComma

\* A record that a client can send.
IsReport(T, record) ==
  /\ IsPlain(T, record.AircraftId) /\ IsPlain(T, record.Timestamp)
  /\ IsQuantity(record.FuelQuantity)

LEMMA RecordsOfFile ==
  ASSUME NEW T, NEW text \in Seq(T), NEW aircraftId, IsPlain(T, aircraftId),
         NEW i \in DOMAIN Lines(text), NEW record \in Replay(text, aircraftId)[i]
  PROVE  /\ IsReport(T, record)
         /\ record = [AircraftId |-> record.AircraftId, Timestamp |-> record.Timestamp,
                      FuelQuantity |-> record.FuelQuantity]
<1> PICK line : line = Lines(text)[i]
  OBVIOUS
<1>1. line \in Seq(T)
  BY FieldType DEF Lines
<1>2. Replay(text, aircraftId)[i] = ParseLine(line, aircraftId)
  BY DEF Replay
<1>3. /\ record = [AircraftId |-> aircraftId, Timestamp |-> record.Timestamp,
                   FuelQuantity |-> record.FuelQuantity]
      /\ IsPlain(T, record.Timestamp) /\ IsQuantity(record.FuelQuantity)
  BY <1>1, <1>2, RecordOfLine
<1>4. record.AircraftId = aircraftId
  BY <1>3
<1> QED  BY <1>3, <1>4 DEF IsReport

-----------------------------------------------------------------------------
(* The packet of a record, and a part of it                                *)

PacketTokens(T) == T \cup NumberTokens \cup {Comma}

\* The text is these three with a comma after each of the first two.
IsJoined(text, a, b, c) ==
  /\ Len(text) = Len(a) + Len(b) + Len(c) + 2
  /\ \A i \in 1..Len(a) : text[i] = a[i]
  /\ text[Len(a) + 1] = Comma
  /\ \A i \in 1..Len(b) : text[Len(a) + 1 + i] = b[i]
  /\ text[Len(a) + Len(b) + 2] = Comma
  /\ \A i \in 1..Len(c) : text[Len(a) + Len(b) + 2 + i] = c[i]

LEMMA Joined ==
  ASSUME NEW T, Comma \in T, NEW a \in Seq(T), NEW b \in Seq(T), NEW c \in Seq(T),
         NEW text, text = a \o <<Comma>> \o b \o <<Comma>> \o c
  PROVE  text \in Seq(T) /\ IsJoined(text, a, b, c)
<1> PICK comma : comma = <<Comma>>
  OBVIOUS
<1>1. comma \in Seq(T) /\ Len(comma) = 1 /\ comma[1] = Comma
  OBVIOUS
<1> PICK one : one = a \o comma
  OBVIOUS
<1> PICK two : two = one \o b
  OBVIOUS
<1> PICK three : three = two \o comma
  OBVIOUS
<1>2. text = three \o c
  OBVIOUS
<1>3. /\ one \in Seq(T) /\ Len(one) = Len(a) + 1 /\ one[Len(a) + 1] = Comma
      /\ \A i \in 1..Len(a) : one[i] = a[i]
  BY <1>1, Concatenation
<1>4. /\ two \in Seq(T) /\ Len(two) = Len(one) + Len(b)
      /\ \A i \in 1..Len(one) : two[i] = one[i]
      /\ \A i \in 1..Len(b) : two[Len(one) + i] = b[i]
  BY <1>3, Concatenation
<1>5. /\ three \in Seq(T) /\ Len(three) = Len(two) + 1 /\ three[Len(two) + 1] = Comma
      /\ \A i \in 1..Len(two) : three[i] = two[i]
  BY <1>1, <1>4, Concatenation
<1>6. /\ text \in Seq(T) /\ Len(text) = Len(three) + Len(c)
      /\ \A i \in 1..Len(three) : text[i] = three[i]
      /\ \A i \in 1..Len(c) : text[Len(three) + i] = c[i]
  BY <1>2, <1>5, Concatenation
<1>7. Len(a) \in Nat /\ Len(b) \in Nat /\ Len(c) \in Nat
  OBVIOUS
<1>8. Len(one) = Len(a) + 1 /\ Len(two) = Len(a) + Len(b) + 1 /\ Len(three) = Len(a) + Len(b) + 2
  BY ONLY <1>3, <1>4, <1>5, <1>7
<1>9. \A i \in 1..Len(a) : text[i] = a[i]
  BY ONLY <1>3, <1>4, <1>5, <1>6, <1>7, <1>8
<1>10. text[Len(a) + 1] = Comma
  <2>1. Len(a) + 1 \in 1..Len(one) /\ Len(a) + 1 \in 1..Len(two) /\ Len(a) + 1 \in 1..Len(three)
    BY ONLY <1>7, <1>8
  <2> PICK i : i = Len(a) + 1
    OBVIOUS
  <2> QED  BY <1>3, <1>4, <1>5, <1>6, <2>1
<1>11. ASSUME NEW i \in 1..Len(b)
       PROVE  text[Len(a) + 1 + i] = b[i]
  <2>1. Len(one) + i \in 1..Len(two) /\ Len(one) + i \in 1..Len(three) /\ Len(a) + 1 + i = Len(one) + i
    BY ONLY <1>7, <1>8, <1>11
  <2>2. text[Len(one) + i] = three[Len(one) + i] /\ three[Len(one) + i] = two[Len(one) + i]
    BY ONLY <1>5, <1>6, <2>1
  <2>3. two[Len(one) + i] = b[i]
    BY ONLY <1>4, <1>11
  <2> QED  BY <2>1, <2>2, <2>3
<1>12. text[Len(a) + Len(b) + 2] = Comma
  BY ONLY <1>5, <1>6, <1>7, <1>8
<1>13. \A i \in 1..Len(c) : text[Len(a) + Len(b) + 2 + i] = c[i]
  BY ONLY <1>6, <1>8
<1>14. Len(text) = Len(a) + Len(b) + Len(c) + 2
  BY ONLY <1>6, <1>7, <1>8
<1> QED  BY <1>6, <1>9, <1>10, <1>11, <1>12, <1>13, <1>14 DEF IsJoined

LEMMA Widened ==
  ASSUME NEW T, NEW U, T \subseteq U, NEW text \in Seq(T)
  PROVE  text \in Seq(U)
OBVIOUS

\* The fields of the first n tokens of two texts and a third with commas
\* between them: two at the most, or the two and what there is of the third.
AreFields(fields, a, b, c, n) ==
  /\ n <= Len(a) + Len(b) + 2 => Len(fields) < 3
  /\ n > Len(a) + Len(b) + 2 =>
       /\ Len(fields) = 3
       /\ fields[1] = a /\ fields[2] = b /\ fields[3] = SubSeq(c, 1, n - Len(a) - Len(b) - 2)

\* The fields of the first n tokens of three texts with commas between them.
LEMMA CutFields ==
  ASSUME NEW T, NEW a \in Seq(T), NEW b \in Seq(T), NEW c \in Seq(T),
         NoComma(a), NoComma(b), NoComma(c),
         NEW text \in Seq(T), IsJoined(text, a, b, c),
         NEW n \in 0..Len(text), NEW cut, cut = SubSeq(text, 1, n)
  PROVE  AreFields(Split(cut, Comma), a, b, c, n)
<1>0. /\ \A i \in 1..Len(a) : a[i] # Comma
      /\ \A i \in 1..Len(b) : b[i] # Comma
      /\ \A i \in 1..Len(c) : c[i] # Comma
  BY DEF NoComma
<1>1. /\ text \in Seq(T)
      /\ Len(text) = Len(a) + Len(b) + Len(c) + 2
      /\ \A i \in 1..Len(a) : text[i] = a[i]
      /\ text[Len(a) + 1] = Comma
      /\ \A i \in 1..Len(b) : text[Len(a) + 1 + i] = b[i]
      /\ text[Len(a) + Len(b) + 2] = Comma
      /\ \A i \in 1..Len(c) : text[Len(a) + Len(b) + 2 + i] = c[i]
  BY DEF IsJoined
<1> PICK la \in Nat : la = Len(a)
  OBVIOUS
<1> PICK lb \in Nat : lb = Len(b)
  OBVIOUS
<1> PICK lc \in Nat : lc = Len(c)
  OBVIOUS
<1> PICK one : one = la + 1
  OBVIOUS
<1> PICK two : two = la + lb + 2
  OBVIOUS
<1>2. /\ Len(text) \in Nat /\ Len(text) = two + lc /\ one \in Nat /\ two \in Nat /\ 0 < one
      /\ one < two /\ two - one = lb + 1 /\ one = la + 1
  BY <1>1
<1>3. cut \in Seq(T) /\ Len(cut) = n /\ \A i \in 1..n : cut[i] = text[i]
  <2>1. 1 \in 1..(Len(text) + 1) /\ n \in (1 - 1)..Len(text) /\ n - 1 + 1 = n
    BY <1>2
  <2>2. /\ SubSeq(text, 1, n) \in Seq(T) /\ Len(SubSeq(text, 1, n)) = n - 1 + 1
        /\ \A i \in 1..(n - 1 + 1) : SubSeq(text, 1, n)[i] = text[1 + i - 1]
    BY ONLY text \in Seq(T), <2>1, Part
  <2>3. \A i \in 1..n : 1 + i - 1 = i
    OBVIOUS
  <2> QED  BY <2>1, <2>2, <2>3
<1>4. \A i \in 1..n : text[i] = Comma <=> (i = one \/ i = two)
  <2> SUFFICES ASSUME NEW i \in 1..n
               PROVE  text[i] = Comma <=> (i = one \/ i = two)
    OBVIOUS
  <2>1. CASE i = one \/ i = two
    BY <1>1, <2>1
  <2>2. CASE i < one
    <3>1. i \in 1..Len(a)
      BY <1>2, <2>2
    <3> QED  BY <1>0, <1>1, <1>2, <2>2, <3>1
  <2>3. CASE one < i /\ i < two
    <3> PICK k : k = i - one
      OBVIOUS
    <3>1. k \in 1..Len(b) /\ Len(a) + 1 + k = i
      BY <1>2, <2>3
    <3>2. text[Len(a) + 1 + k] = b[k] /\ b[k] # Comma
      BY <1>0, <1>1, <3>1
    <3> QED  BY ONLY <1>2, <2>3, <3>1, <3>2
  <2>4. CASE two < i
    <3> PICK k : k = i - two
      OBVIOUS
    <3>1. k \in 1..Len(c) /\ Len(a) + Len(b) + 2 + k = i
      BY <1>2, <2>4
    <3>2. text[Len(a) + Len(b) + 2 + k] = c[k] /\ c[k] # Comma
      BY <1>0, <1>1, <3>1
    <3> QED  BY ONLY <1>2, <2>4, <3>1, <3>2, i \in 1..n, n \in 0..Len(text)
  <2>5. i < one \/ i = one \/ (one < i /\ i < two) \/ i = two \/ two < i
    BY <1>2
  <2> QED  BY <2>1, <2>2, <2>3, <2>4, <2>5
<1>5. ASSUME n <= two
      PROVE  Len(Split(cut, Comma)) < 3
  <2>1. Commas(cut) \subseteq {one, two}
    BY <1>3, <1>4 DEF Commas
  <2>2. Len(cut) <= two
    BY <1>3, <1>5
  <2> QED  BY ONLY <1>2, <1>3, <2>1, <2>2, FewFields
<1>6. ASSUME two < n
      PROVE  /\ Len(Split(cut, Comma)) = 3
             /\ Split(cut, Comma)[1] = a /\ Split(cut, Comma)[2] = b
             /\ Split(cut, Comma)[3] = SubSeq(c, 1, n - la - lb - 2)
  <2>1. one \in 1..Len(cut) /\ two \in 1..Len(cut) /\ two < Len(cut)
    BY <1>2, <1>3, <1>6
  <2>2. Commas(cut) = {one, two}
    <3>1. \A i \in 1..Len(cut) : cut[i] = Comma <=> (i = one \/ i = two)
      BY <1>3, <1>4
    <3> QED  BY <2>1, <3>1 DEF Commas
  <2>3. /\ Len(Split(cut, Comma)) = 3
        /\ Split(cut, Comma)[1] = SubSeq(cut, 1, one - 1)
        /\ Split(cut, Comma)[2] = SubSeq(cut, one + 1, two - 1)
        /\ Split(cut, Comma)[3] = SubSeq(cut, two + 1, Len(cut))
    BY ONLY <1>2, <1>3, <2>1, <2>2, ThreeFields
  <2>4. SubSeq(cut, 1, one - 1) = a
    <3>1. one - 1 = la /\ 1 \in 1..(Len(cut) + 1) /\ la \in (1 - 1)..Len(cut) /\ la - 1 + 1 = la
          /\ \A i \in 1..la : 1 + i - 1 = i /\ i \in 1..n
      BY <1>2, <1>3, <1>6
    <3>2. /\ SubSeq(cut, 1, la) \in Seq(T) /\ Len(SubSeq(cut, 1, la)) = la - 1 + 1
          /\ \A i \in 1..(la - 1 + 1) : SubSeq(cut, 1, la)[i] = cut[1 + i - 1]
      BY ONLY <1>3, <3>1, Part
    <3>3. \A i \in 1..la : SubSeq(cut, 1, la)[i] = a[i]
      BY <1>1, <1>3, <3>1, <3>2
    <3>4. Len(SubSeq(cut, 1, la)) = Len(a)
      BY <3>1, <3>2
    <3>5. SubSeq(cut, 1, la) = a
      BY <3>2, <3>3, <3>4, SameText
    <3> QED  BY <3>1, <3>5
  <2>5. SubSeq(cut, one + 1, two - 1) = b
    <3> PICK p : p = one + 1
      OBVIOUS
    <3> PICK q : q = two - 1
      OBVIOUS
    <3>1. p \in 1..(Len(cut) + 1) /\ q \in (p - 1)..Len(cut) /\ q - p + 1 = lb
      BY <1>2, <1>3, <1>6
    <3>0. \A i \in 1..lb : p + i - 1 = la + 1 + i /\ p + i - 1 \in 1..n
      <4>1. p = la + 2
        BY <1>2
      <4>2. la + 1 + lb < n
        BY <1>2, <1>6
      <4>3. la \in Nat /\ lb \in Nat /\ n \in Nat
        BY <1>2
      <4> QED  BY ONLY <4>1, <4>2, <4>3
    <3>2. /\ SubSeq(cut, p, q) \in Seq(T) /\ Len(SubSeq(cut, p, q)) = q - p + 1
          /\ \A i \in 1..(q - p + 1) : SubSeq(cut, p, q)[i] = cut[p + i - 1]
      BY ONLY <1>3, <3>1, Part
    <3>3. ASSUME NEW i \in 1..lb
          PROVE  SubSeq(cut, p, q)[i] = b[i]
      <4>1. SubSeq(cut, p, q)[i] = cut[p + i - 1]
        BY <3>1, <3>2
      <4>2. cut[p + i - 1] = text[la + 1 + i]
        BY <1>3, <3>0
      <4>3. text[la + 1 + i] = b[i]
        BY <1>1
      <4> QED  BY <4>1, <4>2, <4>3
    <3>4. Len(SubSeq(cut, p, q)) = Len(b)
      BY <3>1, <3>2
    <3>5. SubSeq(cut, p, q) = b
      BY ONLY b \in Seq(T), <3>2, <3>3, <3>4, lb = Len(b), SameText
    <3> QED  BY <3>5
  <2>6. SubSeq(cut, two + 1, Len(cut)) = SubSeq(c, 1, n - la - lb - 2)
    <3> PICK p : p = two + 1
      OBVIOUS
    <3> PICK m : m = n - la - lb - 2
      OBVIOUS
    <3>1. /\ p \in 1..(Len(cut) + 1) /\ n \in (p - 1)..Len(cut) /\ n - p + 1 = m
          /\ \A i \in 1..m : p + i - 1 = la + lb + 2 + i /\ p + i - 1 \in 1..n /\ i \in 1..Len(c)
      <4>1. p = la + lb + 3 /\ la + lb + 2 < n /\ n <= la + lb + 2 + lc /\ Len(cut) = n
        BY <1>2, <1>3, <1>6
      <4>2. m = n - la - lb - 2 /\ Len(c) = lc
        OBVIOUS
      <4>3. la \in Nat /\ lb \in Nat /\ lc \in Nat /\ n \in Nat
        BY <1>2
      <4> QED  BY ONLY <4>1, <4>2, <4>3
    <3>2. /\ 1 \in 1..(Len(c) + 1) /\ m \in (1 - 1)..Len(c) /\ m - 1 + 1 = m
          /\ \A i \in 1..m : 1 + i - 1 = i
      BY <1>2, <1>6
    <3>3. /\ SubSeq(cut, p, n) \in Seq(T) /\ Len(SubSeq(cut, p, n)) = n - p + 1
          /\ \A i \in 1..(n - p + 1) : SubSeq(cut, p, n)[i] = cut[p + i - 1]
      BY ONLY <1>3, <3>1, Part
    <3>4. /\ SubSeq(c, 1, m) \in Seq(T) /\ Len(SubSeq(c, 1, m)) = m - 1 + 1
          /\ \A i \in 1..(m - 1 + 1) : SubSeq(c, 1, m)[i] = c[1 + i - 1]
      BY ONLY c \in Seq(T), <3>2, Part
    <3>5. ASSUME NEW i \in 1..m
          PROVE  SubSeq(cut, p, n)[i] = SubSeq(c, 1, m)[i]
      <4>1. SubSeq(cut, p, n)[i] = cut[p + i - 1]
        BY <3>1, <3>3
      <4>2. cut[p + i - 1] = text[la + lb + 2 + i]
        BY <1>3, <3>1
      <4>3. text[la + lb + 2 + i] = c[i]
        BY <1>1, <3>1
      <4>4. SubSeq(c, 1, m)[i] = c[i]
        BY <3>2, <3>4
      <4> QED  BY <4>1, <4>2, <4>3, <4>4
    <3>6. Len(SubSeq(cut, p, n)) = Len(SubSeq(c, 1, m)) /\ Len(SubSeq(cut, p, n)) = m
      BY <3>1, <3>2, <3>3, <3>4
    <3>7. SubSeq(cut, p, n) = SubSeq(c, 1, m)
      BY ONLY <3>3, <3>4, <3>5, <3>6, SameText
    <3> QED  BY <1>3, <3>7
  <2> QED  BY <2>3, <2>4, <2>5, <2>6
<1>7. two = Len(a) + Len(b) + 2 /\ n - la - lb - 2 = n - Len(a) - Len(b) - 2
      /\ n \in Nat /\ Len(a) + Len(b) + 2 \in Nat
  BY <1>2
<1> QED  BY <1>5, <1>6, <1>7 DEF AreFields

\* The place of the second comma in the packet of a record.
SecondComma(record) == Len(record.AircraftId) + Len(record.Timestamp) + 2

\* The packet of a report, and what the server makes of its first n tokens: it
\* refuses those that end before the quantity begins, and reads the others up
\* to where the quantity was cut.
LEMMA CutRead ==
  ASSUME NEW T, NEW record, IsReport(T, record),
         NEW packet, packet = Serialize(record)
  PROVE  /\ Len(packet) = SecondComma(record) + Len(Decimal(record.FuelQuantity))
         /\ SecondComma(record) \in Nat /\ packet \in Seq(PacketTokens(T))
         /\ \A n \in 0..Len(packet) :
              /\ n <= SecondComma(record) => Deserialize(SubSeq(packet, 1, n)) = {}
              /\ n > SecondComma(record) =>
                   Deserialize(SubSeq(packet, 1, n))
                     = [AircraftId : {record.AircraftId}, Timestamp : {record.Timestamp},
                        FuelQuantity : Stod(SubSeq(Decimal(record.FuelQuantity), 1,
                                                   n - SecondComma(record)))]
<1> PICK a : a = record.AircraftId
  OBVIOUS
<1> PICK b : b = record.Timestamp
  OBVIOUS
<1> PICK c : c = Decimal(record.FuelQuantity)
  OBVIOUS
<1> PICK U : U = PacketTokens(T)
  OBVIOUS
<1>1. a \in Seq(T) /\ b \in Seq(T) /\ c \in Seq(NumberTokens) /\ Len(c) > 0
  BY QuantityText DEF IsReport, IsPlain
<1>2. IsTrimmed(a) /\ IsTrimmed(b)
  BY DEF IsReport, IsPlain
<1>3. NoComma(a) /\ NoComma(b)
  BY DEF IsReport, IsPlain
<1>4. \A i \in 1..Len(c) : c[i] \notin Blanks /\ c[i] # Comma
  <2> TAKE i \in 1..Len(c)
  <2>1. c[i] \in NumberTokens
    BY <1>1
  <2> QED  BY <2>1, NumberTokensArePlain
<1>5. T \subseteq U /\ NumberTokens \subseteq U /\ Comma \in U
  BY DEF PacketTokens
<1>6. a \in Seq(U) /\ b \in Seq(U) /\ c \in Seq(U)
  BY ONLY <1>1, <1>5, Widened
<1>7. packet = a \o <<Comma>> \o b \o <<Comma>> \o c
  BY DEF Serialize
<1>8. packet \in Seq(U) /\ IsJoined(packet, a, b, c)
  BY ONLY <1>5, <1>6, <1>7, Joined
<1> PICK two : two = SecondComma(record)
  OBVIOUS
<1>9. /\ two = Len(a) + Len(b) + 2 /\ two \in Nat /\ Len(packet) = two + Len(c)
      /\ Len(a) \in Nat /\ Len(b) \in Nat /\ Len(c) \in Nat /\ Len(packet) \in Nat
  <2>1. two = Len(a) + Len(b) + 2
    BY DEF SecondComma
  <2>2. Len(packet) = Len(a) + Len(b) + Len(c) + 2
    BY <1>8 DEF IsJoined
  <2>3. Len(a) \in Nat /\ Len(b) \in Nat /\ Len(c) \in Nat
    BY <1>6
  <2> QED  BY ONLY <2>1, <2>2, <2>3
<1>10. ASSUME NEW n \in 0..Len(packet)
       PROVE  /\ n <= two => Deserialize(SubSeq(packet, 1, n)) = {}
              /\ n > two =>
                   Deserialize(SubSeq(packet, 1, n))
                     = [AircraftId : {a}, Timestamp : {b}, FuelQuantity : Stod(SubSeq(c, 1, n - two))]
  <2> PICK cut : cut = SubSeq(packet, 1, n)
    OBVIOUS
  <2> PICK parts : parts = Split(cut, Comma)
    OBVIOUS
  <2>0. n \in 0..Len(packet)
    OBVIOUS
  <2>1. /\ n <= two => Len(parts) < 3
        /\ n > two => /\ Len(parts) = 3
                      /\ parts[1] = a /\ parts[2] = b /\ parts[3] = SubSeq(c, 1, n - Len(a) - Len(b) - 2)
    <3>2. cut = SubSeq(packet, 1, n) /\ parts = Split(cut, Comma)
      OBVIOUS
    <3>3. NoComma(c)
      BY <1>4 DEF NoComma
    <3>4. AreFields(Split(cut, Comma), a, b, c, n)
      BY ONLY <1>3, <1>6, <1>8, <2>0, <3>2, <3>3, CutFields
    <3> QED  BY ONLY <1>9, <3>2, <3>4 DEF AreFields
  <2>2. Deserialize(cut)
          = IF Len(parts) < 3
              THEN {}
              ELSE {r \in [AircraftId : {Trim(parts[1])}, Timestamp : {Trim(parts[2])},
                           FuelQuantity : Stod(Trim(parts[3]))] :
                      r.AircraftId # <<>> /\ r.Timestamp # <<>>}
    BY Zenon DEF Deserialize
  <2>3. CASE n <= two
    <3>1. Len(parts) < 3 /\ ~(n > two)
      BY ONLY <1>9, <2>0, <2>1, <2>3
    <3> QED  BY <2>2, <3>1
  <2>4. CASE n > two
    <3> PICK m : m = n - two
      OBVIOUS
    <3> PICK d : d = SubSeq(c, 1, m)
      OBVIOUS
    <3>0. m = n - two /\ d = SubSeq(c, 1, m)
      OBVIOUS
    <3>1. m \in 1..Len(c) /\ n - Len(a) - Len(b) - 2 = m /\ ~(n <= two)
      BY ONLY <1>9, <2>0, <2>4, <3>0
    <3>2. ~(Len(parts) < 3) /\ parts[1] = a /\ parts[2] = b /\ parts[3] = d
      <4>1. Len(parts) = 3 /\ parts[1] = a /\ parts[2] = b
            /\ parts[3] = SubSeq(c, 1, n - Len(a) - Len(b) - 2)
        BY ONLY <2>1, <2>4
      <4> QED  BY ONLY <3>0, <3>1, <4>1
    <3>3. Trim(a) = a /\ Trim(b) = b
      BY <1>1, <1>2, TrimmedStays
    <3>4. Trim(d) = d
      <4>1. 1 \in 1..(Len(c) + 1) /\ m \in (1 - 1)..Len(c) /\ m - 1 + 1 = m
            /\ \A i \in 1..m : 1 + i - 1 = i
        BY ONLY <1>9, <3>1
      <4>2. /\ SubSeq(c, 1, m) \in Seq(NumberTokens) /\ Len(SubSeq(c, 1, m)) = m - 1 + 1
            /\ \A i \in 1..(m - 1 + 1) : SubSeq(c, 1, m)[i] = c[1 + i - 1]
        BY ONLY <1>1, <4>1, Part
      <4>3. d \in Seq(NumberTokens) /\ Len(d) = m /\ \A i \in 1..m : d[i] = c[i]
        BY <4>1, <4>2
      <4>4. 1 \in 1..m /\ m \in 1..m /\ \A i \in 1..m : i \in 1..Len(c)
        BY ONLY <1>9, <3>1
      <4>5. IsTrimmed(d)
        BY <1>4, <4>3, <4>4 DEF IsTrimmed
      <4> QED  BY <4>3, <4>5, TrimmedStays
    <3>5. a # <<>> /\ b # <<>>
      BY <1>2 DEF IsTrimmed
    <3>6. Deserialize(cut) = {r \in [AircraftId : {a}, Timestamp : {b}, FuelQuantity : Stod(d)] :
                                r.AircraftId # <<>> /\ r.Timestamp # <<>>}
      BY ONLY <2>2, <3>2, <3>3, <3>4
    <3>7. Deserialize(cut) = [AircraftId : {a}, Timestamp : {b}, FuelQuantity : Stod(d)]
      BY ONLY <3>5, <3>6
    <3> QED  BY <2>4, <3>1, <3>7
  <2> QED  BY <1>9, <2>3, <2>4
<1> QED  BY <1>8, <1>9, <1>10

-----------------------------------------------------------------------------
(* The properties of a file                                                *)

\* RoundTrip of every file, for every aircraft id without blanks around it and
\* without a comma: what ParseLine accepts (TelemetryParser.cpp), Serialize
\* and Deserialize (Packet.cpp) carry to the server unchanged, up to the
\* decimals of the packet.
THEOREM RecordsSurviveTheWire ==
  ASSUME NEW T, NEW text \in Seq(T), NEW aircraftId, IsPlain(T, aircraftId)
  PROVE  RoundTrip(text, aircraftId)
<1> SUFFICES ASSUME NEW i \in DOMAIN Lines(text), NEW record \in Replay(text, aircraftId)[i]
             PROVE  Deserialize(Serialize(record)) = {AsSent(record)}
  BY DEF RoundTrip
<1>1. /\ IsReport(T, record)
      /\ record = [AircraftId |-> record.AircraftId, Timestamp |-> record.Timestamp,
                   FuelQuantity |-> record.FuelQuantity]
  BY RecordsOfFile
<1> PICK packet : packet = Serialize(record)
  OBVIOUS
<1> PICK d : d = Decimal(record.FuelQuantity)
  OBVIOUS
<1>2. d \in Seq(NumberTokens) /\ Len(d) > 0 /\ Len(d) \in Nat
  BY <1>1, QuantityText DEF IsReport
<1>3. /\ Len(packet) = SecondComma(record) + Len(d) /\ SecondComma(record) \in Nat
      /\ packet \in Seq(PacketTokens(T))
      /\ \A n \in 0..Len(packet) :
           n > SecondComma(record) =>
             Deserialize(SubSeq(packet, 1, n))
               = [AircraftId : {record.AircraftId}, Timestamp : {record.Timestamp},
                  FuelQuantity : Stod(SubSeq(d, 1, n - SecondComma(record)))]
  BY <1>1, CutRead
<1>4. /\ Len(packet) \in 0..Len(packet) /\ Len(packet) > SecondComma(record)
      /\ Len(packet) - SecondComma(record) = Len(d)
  BY <1>2, <1>3
<1>5. SubSeq(packet, 1, Len(packet)) = packet /\ SubSeq(d, 1, Len(d)) = d
  BY <1>2, <1>3
<1>6. Deserialize(packet)
        = [AircraftId : {record.AircraftId}, Timestamp : {record.Timestamp}, FuelQuantity : Stod(d)]
  BY <1>3, <1>4, <1>5
<1>7. Stod(d) = {Rounded(record.FuelQuantity)}
  BY <1>1, StodOfDecimal DEF IsReport
<1>8. AsSent(record) = [AircraftId |-> record.AircraftId, Timestamp |-> record.Timestamp,
                        FuelQuantity |-> Rounded(record.FuelQuantity)]
  BY <1>1 DEF AsSent
<1> PICK id : id = record.AircraftId
  OBVIOUS
<1> PICK stamp : stamp = record.Timestamp
  OBVIOUS
<1> PICK q : q = Rounded(record.FuelQuantity)
  OBVIOUS
<1>9. [AircraftId : {id}, Timestamp : {stamp}, FuelQuantity : {q}]
        = {[AircraftId |-> id, Timestamp |-> stamp, FuelQuantity |-> q]}
  <2> PICK all : all = [AircraftId : {id}, Timestamp : {stamp}, FuelQuantity : {q}]
    OBVIOUS
  <2> PICK one : one = [AircraftId |-> id, Timestamp |-> stamp, FuelQuantity |-> q]
    OBVIOUS
  <2>1. one \in all
    OBVIOUS
  <2>2. \A r \in all : r = one
    OBVIOUS
  <2>3. all = {one}
    BY <2>1, <2>2
  <2> QED  BY <2>3
<1> QED  BY <1>6, <1>7, <1>8, <1>9

\* CutIsRefusedOrSmaller of every file, for the same ids: a line that ends
\* early (PacketReceiver.cpp hands on what came before the connection closed)
\* is refused by Deserialize or reports no more fuel than was sent.
THEOREM CutsAreRefusedOrSmaller ==
  ASSUME NEW T, NEW text \in Seq(T), NEW aircraftId, IsPlain(T, aircraftId)
  PROVE  CutIsRefusedOrSmaller(text, aircraftId)
<1>1. ASSUME NEW i \in DOMAIN Lines(text), NEW record \in Replay(text, aircraftId)[i],
             NEW packet, packet = Serialize(record),
             NEW n \in 0..(Len(packet) - 1), NEW cut \in Deserialize(SubSeq(packet, 1, n))
      PROVE  /\ cut.AircraftId = record.AircraftId
             /\ cut.Timestamp = record.Timestamp
             /\ record.FuelQuantity # NaN /\ cut.FuelQuantity # NaN
             /\ cut.FuelQuantity \in 0..Rounded(record.FuelQuantity)
  <2>1. IsReport(T, record)
    BY RecordsOfFile
  <2> PICK two : two = SecondComma(record)
    OBVIOUS
  <2> PICK d : d = Decimal(record.FuelQuantity)
    OBVIOUS
  <2>2. /\ Len(packet) = two + Len(d) /\ two \in Nat /\ packet \in Seq(PacketTokens(T))
        /\ \A k \in 0..Len(packet) :
             /\ k <= two => Deserialize(SubSeq(packet, 1, k)) = {}
             /\ k > two =>
                  Deserialize(SubSeq(packet, 1, k))
                    = [AircraftId : {record.AircraftId}, Timestamp : {record.Timestamp},
                       FuelQuantity : Stod(SubSeq(d, 1, k - two))]
    BY <1>1, <2>1, CutRead
  <2>3. Len(packet) \in Nat /\ n \in 0..Len(packet) /\ n < Len(packet) /\ Len(d) \in Nat
    <3>1. Len(packet) \in Nat
      BY <2>2
    <3>2. d \in Seq(NumberTokens)
      BY <2>1, QuantityText DEF IsReport
    <3> QED  BY <3>1, <3>2
  <2>4. n > two
    BY <1>1, <2>2, <2>3
  <2> PICK m : m = n - two
    OBVIOUS
  <2>5. m \in 1..(Len(d) - 1)
    BY <2>2, <2>3, <2>4
  <2>6. cut \in [AircraftId : {record.AircraftId}, Timestamp : {record.Timestamp},
                 FuelQuantity : Stod(SubSeq(d, 1, m))]
    BY <1>1, <2>2, <2>3, <2>4
  <2>7. record.FuelQuantity # NaN /\ Stod(SubSeq(d, 1, m)) \subseteq 0..Rounded(record.FuelQuantity)
    BY <2>1, <2>5, StodOfCut DEF IsReport
  <2>8. cut.FuelQuantity \in 0..Rounded(record.FuelQuantity)
    BY <2>6, <2>7
  <2>9. cut.FuelQuantity # NaN
    BY <2>8, NaNAssumption
  <2> QED  BY <2>6, <2>7, <2>8, <2>9
<1> QED  BY <1>1 DEF CutIsRefusedOrSmaller

-----------------------------------------------------------------------------
(* A configuration file                                                    *)

Keys == StringKeys \cup IntKeys

\* The characters the writer puts around the keys and the values.
Layout == {Quote, Colon, Space, Comma, Newline, OpenBrace, CloseBrace}

LEMMA KeysAreNoLayout == \A key \in Keys : key \notin Layout
<1>1. \A key \in StringKeys : key \notin Layout
  BY Zenon DEF StringKeys, Layout, Quote, Colon, Space, Comma, Newline, OpenBrace, CloseBrace
<1>2. \A key \in IntKeys : key \notin Layout
  BY Zenon DEF IntKeys, Layout, Quote, Colon, Space, Comma, Newline, OpenBrace, CloseBrace
<1> QED  BY <1>1, <1>2 DEF Keys

LEMMA LayoutDiffers ==
  /\ Quote # Colon /\ Quote # Space /\ Quote # Comma /\ Quote # CloseBrace /\ Quote # Newline
  /\ Colon # Space /\ Space # Comma /\ Space # CloseBrace /\ Space # Newline
  /\ Quote # Minus /\ Quote \notin Digits
<1>1. /\ Quote # Colon /\ Quote # Space /\ Quote # Comma /\ Quote # CloseBrace
      /\ Quote # Newline /\ Colon # Space /\ Space # Comma /\ Space # CloseBrace
      /\ Space # Newline /\ Quote # Minus
  BY Zenon DEF Quote, Colon, Space, Comma, Newline, CloseBrace, Minus
<1>2. \A digit \in {"0", "1", "2", "3", "4", "5", "6", "7", "8", "9"} : digit # Quote
  BY Zenon DEF Quote
<1>3. \A digit \in Digits : digit \in {"0", "1", "2", "3", "4", "5", "6", "7", "8", "9"}
  <2>1. \A n \in 0..9 : n \in {0, 1, 2, 3, 4, 5, 6, 7, 8, 9}
    OBVIOUS
  <2> QED  BY <2>1, TenDigits DEF Digits
<1> QED  BY <1>1, <1>2, <1>3

\* A member whose value can be read: a text with no quote in it, or a number
\* with nothing around it.
IsNumber(text) ==
  /\ IsTrimmed(text) /\ Stoi(text) # {}
  /\ \A i \in 1..Len(text) : text[i] \notin {Comma, CloseBrace, Newline}

IsMember(T, m) ==
  /\ m.key \in Keys /\ m.value.text \in Seq(T)
  /\ IF TextValue(m.value) THEN \A i \in 1..Len(m.value.text) : m.value.text[i] # Quote
                           ELSE IsNumber(m.value.text)

\* What a file with such members is made of.
FileOf(T) == T \cup Keys \cup Layout

\* The value as it is written.
Shown(value) == IF TextValue(value) THEN <<Quote>> \o value.text \o <<Quote>> ELSE value.text

LEMMA ShownTokens ==
  ASSUME NEW T, NEW m, IsMember(T, m)
  PROVE  /\ Shown(m.value) \in Seq(FileOf(T))
         /\ \A key \in Keys : (\A i \in 1..Len(m.value.text) : m.value.text[i] # key)
              => \A i \in 1..Len(Shown(m.value)) : Shown(m.value)[i] # key
         /\ TextValue(m.value) =>
              /\ Len(Shown(m.value)) = Len(m.value.text) + 2
              /\ Shown(m.value)[1] = Quote
              /\ \A i \in 1..Len(m.value.text) : Shown(m.value)[i + 1] = m.value.text[i]
              /\ Shown(m.value)[Len(m.value.text) + 2] = Quote
         /\ ~TextValue(m.value) => Shown(m.value) = m.value.text
<1> PICK text : text = m.value.text
  OBVIOUS
<1> PICK U : U = FileOf(T)
  OBVIOUS
<1>1. text \in Seq(T) /\ text \in Seq(U) /\ Quote \in U
  BY DEF IsMember, FileOf, Layout
<1>2. CASE ~TextValue(m.value)
  BY <1>1, <1>2 DEF Shown
<1>3. CASE TextValue(m.value)
  <2> PICK quote : quote = <<Quote>>
    OBVIOUS
  <2>1. quote \in Seq(U) /\ Len(quote) = 1 /\ quote[1] = Quote
    BY <1>1
  <2> PICK opened : opened = quote \o text
    OBVIOUS
  <2> PICK shown : shown = opened \o quote
    OBVIOUS
  <2>2. /\ shown \in Seq(U) /\ Len(shown) = Len(text) + 2 /\ shown[1] = Quote
        /\ \A i \in 1..Len(text) : shown[i + 1] = text[i]
        /\ shown[Len(text) + 2] = Quote
    <3>1. /\ opened \in Seq(U) /\ Len(opened) = Len(quote) + Len(text)
          /\ \A i \in 1..Len(quote) : opened[i] = quote[i]
          /\ \A i \in 1..Len(text) : opened[Len(quote) + i] = text[i]
      BY <1>1, <2>1, Concatenation
    <3>2. /\ shown \in Seq(U) /\ Len(shown) = Len(opened) + Len(quote)
          /\ \A i \in 1..Len(opened) : shown[i] = opened[i]
          /\ \A i \in 1..Len(quote) : shown[Len(opened) + i] = quote[i]
      BY <2>1, <3>1, Concatenation
    <3>3. Len(text) \in Nat /\ 1 \in 1..Len(quote) /\ Len(opened) = Len(text) + 1
      BY <1>1, <2>1, <3>1
    <3>4. shown[1] = Quote /\ shown[Len(text) + 2] = Quote
      BY <2>1, <3>1, <3>2, <3>3
    <3>5. ASSUME NEW i \in 1..Len(text)
          PROVE  shown[i + 1] = text[i]
      <4>1. Len(quote) + i = i + 1 /\ i + 1 \in 1..Len(opened)
        BY <2>1, <3>3
      <4>2. shown[i + 1] = opened[i + 1] /\ opened[Len(quote) + i] = text[i]
        BY <3>1, <3>2, <4>1
      <4> QED  BY <4>1, <4>2
    <3>6. Len(shown) = Len(text) + 2 /\ shown \in Seq(U)
      BY <2>1, <3>2, <3>3
    <3> QED  BY <2>1, <3>1, <3>3, <3>4, <3>5, <3>6
  <2>3. Shown(m.value) = shown
    BY <1>3 DEF Shown
  <2>4. ASSUME NEW key \in Keys, \A i \in 1..Len(text) : text[i] # key, NEW i \in 1..Len(shown)
        PROVE  shown[i] # key
    <3>1. key # Quote
      BY KeysAreNoLayout DEF Layout
    <3>2. CASE i = 1 \/ i = Len(text) + 2
      BY <2>2, <3>1, <3>2
    <3>3. CASE i # 1 /\ i # Len(text) + 2
      <4>1. i - 1 \in 1..Len(text) /\ i = (i - 1) + 1
        BY <1>1, <2>2, <3>3
      <4>2. shown[i] = text[i - 1]
        BY <2>2, <4>1
      <4> QED  BY <2>4, <4>1, <4>2
    <3> QED  BY <3>2, <3>3
  <2> QED  BY <1>3, <2>2, <2>3, <2>4
<1> QED  BY <1>2, <1>3

\* The tokens of a member that is written after an opening, which is empty for
\* the first member and holds the comma and the end of the line for the others.
Opening(i) == IF i = 1 THEN <<>> ELSE <<Comma, Newline>>

Entry(i, m) == Opening(i) \o Member(m)

\* The text holds the key between its quotes, the colon and a blank from here.
HoldsKey(text, p, key) ==
  /\ text[p] = Quote /\ text[p + 1] = key /\ text[p + 2] = Quote
  /\ text[p + 3] = Colon /\ text[p + 4] = Space

\* A member with this key and value after an opening of s tokens.
IsEntry(entry, s, key, shown) ==
  /\ Len(entry) = s + 6 + Len(shown) /\ HoldsKey(entry, s + 2, key)
  /\ \A k \in 1..(s + 2) : entry[k] \in Layout
  /\ \A k \in 1..Len(shown) : entry[s + 6 + k] = shown[k]

LEMMA EntryTokens ==
  ASSUME NEW T, NEW m, IsMember(T, m), NEW i \in Nat, i > 0
  PROVE  /\ Len(Opening(i)) \in Nat
         /\ Entry(i, m) \in Seq(FileOf(T))
         /\ i > 1 => Entry(i, m)[1] = Comma
         /\ IsEntry(Entry(i, m), Len(Opening(i)), m.key, Shown(m.value))
<1> PICK U : U = FileOf(T)
  OBVIOUS
<1> PICK head : head = <<Space, Quote, m.key, Quote, Colon, Space>>
  OBVIOUS
<1> PICK open : open = Opening(i)
  OBVIOUS
<1> PICK shown : shown = Shown(m.value)
  OBVIOUS
<1> PICK rest : rest = head \o shown
  OBVIOUS
<1> PICK entry : entry = open \o rest
  OBVIOUS
<1>1. shown \in Seq(U)
  BY ShownTokens
<1>2. /\ Space \in U /\ Quote \in U /\ m.key \in U /\ Colon \in U /\ Comma \in U /\ Newline \in U
      /\ Space \in Layout /\ Quote \in Layout /\ Comma \in Layout /\ Newline \in Layout
  BY DEF FileOf, Layout, IsMember
<1>3. /\ head \in Seq(U) /\ Len(head) = 6 /\ head[1] = Space /\ head[2] = Quote
      /\ head[3] = m.key /\ head[4] = Quote /\ head[5] = Colon /\ head[6] = Space
  BY ONLY <1>2, head = <<Space, Quote, m.key, Quote, Colon, Space>>
<1>4. /\ open \in Seq(U) /\ (Len(open) = 0 \/ Len(open) = 2)
      /\ i > 1 => Len(open) = 2 /\ open[1] = Comma
      /\ \A k \in 1..Len(open) : open[k] \in Layout
  <2>1. CASE i = 1
    BY <2>1 DEF Opening
  <2>2. CASE i # 1
    <3> PICK two : two = <<Comma, Newline>>
      OBVIOUS
    <3>1. two \in Seq(U) /\ Len(two) = 2 /\ two[1] = Comma /\ two[2] = Newline
      BY ONLY <1>2, two = <<Comma, Newline>>
    <3>2. open = two
      BY <2>2 DEF Opening
    <3> QED  BY <1>2, <3>1, <3>2
  <2> QED  BY <2>1, <2>2
<1>5. Entry(i, m) = entry
  BY DEF Entry, Member, Shown
<1>6. /\ entry \in Seq(U) /\ Len(entry) = Len(open) + 6 + Len(shown)
      /\ \A k \in 1..Len(open) : entry[k] = open[k]
      /\ \A k \in 1..6 : entry[Len(open) + k] = head[k]
      /\ \A k \in 1..Len(shown) : entry[Len(open) + 6 + k] = shown[k]
  <2>1. /\ rest \in Seq(U) /\ Len(rest) = 6 + Len(shown)
        /\ \A k \in 1..6 : rest[k] = head[k]
        /\ \A k \in 1..Len(shown) : rest[6 + k] = shown[k]
    <3>1. /\ rest \in Seq(U) /\ Len(rest) = Len(head) + Len(shown)
          /\ \A k \in 1..Len(head) : rest[k] = head[k]
          /\ \A k \in 1..Len(shown) : rest[Len(head) + k] = shown[k]
      <4>1. head \in Seq(U)
        BY <1>3
      <4> QED  BY ONLY <1>1, <4>1, rest = head \o shown, Concatenation
    <3> QED  BY ONLY <1>3, <3>1
  <2>2. /\ entry \in Seq(U) /\ Len(entry) = Len(open) + Len(rest)
        /\ \A k \in 1..Len(open) : entry[k] = open[k]
        /\ \A k \in 1..Len(rest) : entry[Len(open) + k] = rest[k]
    <3>1. open \in Seq(U) /\ rest \in Seq(U)
      BY <1>4, <2>1
    <3> QED  BY ONLY <3>1, entry = open \o rest, Concatenation
  <2>3. Len(open) \in Nat /\ Len(shown) \in Nat
    <3>1. open \in Seq(U)
      BY <1>4
    <3> QED  BY ONLY <1>1, <3>1
  <2>4. ASSUME NEW k \in 1..6
        PROVE  entry[Len(open) + k] = head[k]
    <3>1. k \in 1..Len(rest) /\ rest[k] = head[k]
      BY ONLY <2>1, <2>3, k \in 1..6
    <3>2. entry[Len(open) + k] = rest[k]
      BY <2>2, <3>1
    <3> QED  BY <3>1, <3>2, Zenon
  <2>5. ASSUME NEW k \in 1..Len(shown)
        PROVE  entry[Len(open) + 6 + k] = shown[k]
    <3>1. 6 + k \in 1..Len(rest) /\ Len(open) + (6 + k) = Len(open) + 6 + k
      BY <2>1, <2>3
    <3>2. entry[Len(open) + (6 + k)] = rest[6 + k]
      BY <2>2, <3>1
    <3> QED  BY <2>1, <3>1, <3>2
  <2>6. Len(entry) = Len(open) + 6 + Len(shown)
    BY <2>1, <2>2, <2>3
  <2> QED  BY <2>2, <2>4, <2>5, <2>6
<1>7. /\ entry[Len(open) + 1] = Space /\ entry[Len(open) + 2] = Quote
      /\ entry[Len(open) + 3] = m.key /\ entry[Len(open) + 4] = Quote
      /\ entry[Len(open) + 5] = Colon /\ entry[Len(open) + 6] = Space
  <2>1. 1 \in 1..6 /\ 2 \in 1..6 /\ 3 \in 1..6 /\ 4 \in 1..6 /\ 5 \in 1..6 /\ 6 \in 1..6
    OBVIOUS
  <2> QED  BY ONLY <1>3, <1>6, <2>1
<1>8. HoldsKey(entry, Len(open) + 2, m.key)
  <2>1. \A n \in Nat : /\ n + 2 + 1 = n + 3 /\ n + 2 + 2 = n + 4
                       /\ n + 2 + 3 = n + 5 /\ n + 2 + 4 = n + 6
    BY ONLY TRUE
  <2>2. Len(open) \in Nat
    BY <1>4
  <2> QED  BY <1>7, <2>1, <2>2 DEF HoldsKey
<1>9. \A k \in 1..(Len(open) + 2) : entry[k] \in Layout
  <2> SUFFICES ASSUME NEW k \in 1..(Len(open) + 2)
               PROVE  entry[k] \in Layout
    OBVIOUS
  <2>1. k \in 1..Len(open) \/ k = Len(open) + 1 \/ k = Len(open) + 2
    <3>1. Len(open) \in Nat
      BY <1>4
    <3> QED  BY ONLY <3>1, k \in 1..(Len(open) + 2)
  <2>2. CASE k \in 1..Len(open)
    <3>1. entry[k] = open[k] /\ open[k] \in Layout
      BY <1>4, <1>6, <2>2
    <3> QED  BY <3>1, Zenon
  <2>3. CASE k = Len(open) + 1
    BY <1>2, <1>7, <2>3, Zenon
  <2>4. CASE k = Len(open) + 2
    BY <1>2, <1>7, <2>4, Zenon
  <2> QED  BY <2>1, <2>2, <2>3, <2>4
<1>10. IsEntry(entry, Len(open), m.key, shown)
  BY <1>6, <1>8, <1>9 DEF IsEntry
<1>11. i > 1 => entry[1] = Comma
  <2>1. i > 1 => 1 \in 1..Len(open) /\ open[1] = Comma
    <3>1. 1 \in 1..2
      OBVIOUS
    <3> QED  BY ONLY <1>4, <3>1
  <2>2. \A k \in 1..Len(open) : entry[k] = open[k]
    BY <1>6
  <2> QED  BY ONLY <2>1, <2>2
<1>12. Len(open) \in Nat
  BY <1>4
<1>13. entry \in Seq(U)
  BY <1>6
<1> QED  BY <1>5, <1>10, <1>11, <1>12, <1>13

-----------------------------------------------------------------------------
(* The body of the file                                                    *)

\* The function follows the equation of Body as far as this.
BodyUpTo(f, written, n) ==
  \A i \in 0..n : f[i] = IF i = 0 THEN <<OpenBrace>> ELSE f[i - 1] \o Entry(i, written[i])

LEMMA BodyFar ==
  ASSUME NEW written, NEW n \in Nat
  PROVE  \E f : BodyUpTo(f, written, n)
<1> DEFINE Reached == {m \in Nat : \E f : BodyUpTo(f, written, m)}
<1>1. 0 \in Reached
  <2> DEFINE f == [i \in {0} |-> <<OpenBrace>>]
  <2>1. f[0] = <<OpenBrace>> /\ \A i \in 0..0 : i = 0
    OBVIOUS
  <2> HIDE DEF f
  <2>2. BodyUpTo(f, written, 0)
    BY <2>1 DEF BodyUpTo
  <2> QED  BY <2>2
<1>2. ASSUME NEW m \in Nat, m \in Reached
      PROVE  m + 1 \in Reached
  <2>1. PICK old : BodyUpTo(old, written, m)
    BY <1>2
  <2> DEFINE new == [i \in 0..(m + 1) |-> IF i <= m THEN old[i]
                                           ELSE old[m] \o Entry(i, written[i])]
  <2>2. \A i \in 0..m : new[i] = old[i]
    OBVIOUS
  <2>3. new[m + 1] = old[m] \o Entry(m + 1, written[m + 1])
    <3>1. m + 1 \in 0..(m + 1) /\ ~(m + 1 <= m)
      OBVIOUS
    <3> QED  BY <3>1, Zenon
  <2> HIDE DEF new
  <2>4. ASSUME NEW i \in 0..(m + 1)
        PROVE  new[i] = IF i = 0 THEN <<OpenBrace>> ELSE new[i - 1] \o Entry(i, written[i])
    <3>1. CASE i = m + 1
      <4>1. m \in 0..m /\ m = i - 1 /\ i # 0
        BY <3>1
      <4> QED  BY <2>2, <2>3, <3>1, <4>1
    <3>2. CASE i = 0
      <4>1. 0 \in 0..m
        OBVIOUS
      <4> QED  BY <2>1, <2>2, <3>2, <4>1 DEF BodyUpTo
    <3>3. CASE i # m + 1 /\ i # 0
      <4>1. i \in 0..m /\ i - 1 \in 0..m
        BY <3>3
      <4>2. old[i] = old[i - 1] \o Entry(i, written[i])
        BY <2>1, <3>3, <4>1 DEF BodyUpTo
      <4> QED  BY <2>2, <3>3, <4>1, <4>2
    <3> QED  BY <3>1, <3>2, <3>3
  <2>5. BodyUpTo(new, written, m + 1)
    BY <2>4 DEF BodyUpTo
  <2> QED  BY <2>5
<1>3. Nat \subseteq Reached
  <2> HIDE DEF Reached
  <2> QED  BY <1>1, <1>2, Successors
<1> QED  BY <1>3

LEMMA BodyIs ==
  ASSUME NEW T, NEW written \in Seq(T)
  PROVE  /\ Body(written)[0] = <<OpenBrace>>
         /\ \A i \in 1..Len(written) :
              Body(written)[i] = Body(written)[i - 1] \o Entry(i, written[i])
<1> DEFINE Equation(f) ==
      f = [i \in 0..Len(written) |->
             IF i = 0 THEN <<OpenBrace>> ELSE f[i - 1] \o Entry(i, written[i])]
<1>1. PICK f : BodyUpTo(f, written, Len(written))
  <2>1. Len(written) \in Nat
    OBVIOUS
  <2> QED  BY <2>1, BodyFar
<1> DEFINE g == [i \in 0..Len(written) |-> f[i]]
<1>2. Equation(g)
  <2>1. ASSUME NEW i \in 0..Len(written)
        PROVE  g[i] = IF i = 0 THEN <<OpenBrace>> ELSE g[i - 1] \o Entry(i, written[i])
    <3>1. g[i] = f[i] /\ (i # 0 => g[i - 1] = f[i - 1])
      OBVIOUS
    <3> QED  BY <1>1, <3>1 DEF BodyUpTo
  <2> QED  BY <2>1
<1>3. Body(written) = CHOOSE h : Equation(h)
  BY Zenon DEF Body, Entry, Opening
<1>4. Equation(Body(written))
  <2> HIDE DEF Equation, g
  <2> QED  BY <1>2, <1>3
<1> PICK body : body = Body(written)
  OBVIOUS
<1>5. Equation(body)
  BY <1>4
<1>6. 0 \in 0..Len(written) /\ \A i \in 1..Len(written) : i \in 0..Len(written) /\ i # 0
  OBVIOUS
<1> QED  BY <1>5, <1>6

HasMembers(T, written) == \A i \in 1..Len(written) : IsMember(T, written[i])

LEMMA BodyType ==
  ASSUME NEW T, NEW S, NEW written \in Seq(S), HasMembers(T, written), NEW i \in 0..Len(written)
  PROVE  Body(written)[i] \in Seq(FileOf(T))
<1> PICK U : U = FileOf(T)
  OBVIOUS
<1> PICK body : body = Body(written)
  OBVIOUS
<1> DEFINE Typed == {j \in Nat : j <= Len(written) => body[j] \in Seq(U)}
<1>1. 0 \in Typed
  <2>1. OpenBrace \in U
    BY DEF FileOf, Layout
  <2>2. <<OpenBrace>> \in Seq(U)
    BY ONLY <2>1
  <2> QED  BY <2>2, BodyIs
<1>2. ASSUME NEW j \in Nat, j \in Typed
      PROVE  j + 1 \in Typed
  <2> SUFFICES ASSUME j + 1 <= Len(written)
               PROVE  body[j + 1] \in Seq(U)
    OBVIOUS
  <2>1. Len(written) \in Nat /\ j + 1 \in 1..Len(written) /\ (j + 1) - 1 = j /\ j + 1 > 0
    OBVIOUS
  <2> PICK k : k = j + 1
    OBVIOUS
  <2>2. body[j] \in Seq(U)
    BY <1>2, <2>1
  <2>3. body[k] = body[j] \o Entry(k, written[k])
    BY <2>1, BodyIs
  <2>4. Entry(k, written[k]) \in Seq(U)
    BY <2>1, EntryTokens DEF HasMembers
  <2>5. body[j] \o Entry(k, written[k]) \in Seq(U)
    BY ONLY <2>2, <2>4, Concatenation
  <2> QED  BY <2>3, <2>5
<1>3. Nat \subseteq Typed
  <2> HIDE DEF Typed
  <2> QED  BY <1>1, <1>2, Successors
<1> QED  BY <1>3

\* The body with one more member.
IsLonger(longer, before, entry) ==
  /\ Len(longer) = Len(before) + Len(entry)
  /\ \A q \in 1..Len(before) : longer[q] = before[q]
  /\ \A q \in 1..Len(entry) : longer[Len(before) + q] = entry[q]

LEMMA BodyStep ==
  ASSUME NEW T, NEW S, NEW written \in Seq(S), HasMembers(T, written), NEW i \in 1..Len(written)
  PROVE  IsLonger(Body(written)[i], Body(written)[i - 1], Entry(i, written[i]))
<1> PICK U : U = FileOf(T)
  OBVIOUS
<1> PICK before : before = Body(written)[i - 1]
  OBVIOUS
<1> PICK entry : entry = Entry(i, written[i])
  OBVIOUS
<1>1. before \in Seq(U)
  <2>1. i - 1 \in 0..Len(written)
    OBVIOUS
  <2> QED  BY <2>1, BodyType
<1>2. entry \in Seq(U)
  <2>1. i \in Nat /\ i > 0 /\ IsMember(T, written[i])
    BY DEF HasMembers
  <2> QED  BY <2>1, EntryTokens
<1>3. Body(written)[i] = before \o entry
  BY BodyIs
<1>4. IsLonger(before \o entry, before, entry)
  <2> PICK longer : longer = before \o entry
    OBVIOUS
  <2>1. /\ Len(longer) = Len(before) + Len(entry)
        /\ \A q \in 1..Len(before) : longer[q] = before[q]
        /\ \A q \in 1..Len(entry) : longer[Len(before) + q] = entry[q]
    BY ONLY <1>1, <1>2, longer = before \o entry, Concatenation
  <2> QED  BY <2>1 DEF IsLonger
<1> QED  BY <1>3, <1>4

\* One text begins with the other, and goes on with a comma.
GoesOn(longer, shorter) ==
  /\ Len(shorter) <= Len(longer)
  /\ \A q \in 1..Len(shorter) : longer[q] = shorter[q]

CommaAfter(longer, shorter) ==
  Len(shorter) < Len(longer) /\ longer[Len(shorter) + 1] = Comma

LEMMA BodyGoesOn ==
  ASSUME NEW T, NEW S, NEW written \in Seq(S), HasMembers(T, written),
         NEW i \in 0..Len(written), NEW j \in i..Len(written)
  PROVE  /\ GoesOn(Body(written)[j], Body(written)[i])
         /\ 0 < i /\ i < j => CommaAfter(Body(written)[j], Body(written)[i])
<1> PICK U : U = FileOf(T)
  OBVIOUS
<1> PICK body : body = Body(written)
  OBVIOUS
<1>0. \A k \in 0..Len(written) : body[k] \in Seq(U) /\ Len(body[k]) \in Nat
  <2>1. \A k \in 0..Len(written) : body[k] \in Seq(U)
    BY BodyType
  <2> QED  BY ONLY <2>1
<1> DEFINE Follows(k) == /\ GoesOn(body[k], body[i])
                         /\ 0 < i /\ i < k => CommaAfter(body[k], body[i])
           On == {k \in Nat : i <= k /\ k <= Len(written) => Follows(k)}
<1>1. 0 \in On
  BY <1>0 DEF GoesOn
<1>2. ASSUME NEW k \in Nat, k \in On
      PROVE  k + 1 \in On
  <2> SUFFICES ASSUME i <= k + 1, k + 1 <= Len(written)
               PROVE  Follows(k + 1)
    OBVIOUS
  <2>1. CASE i = k + 1
    BY <1>0, <2>1 DEF GoesOn
  <2>2. CASE i # k + 1
    <3> PICK n : n = k + 1
      OBVIOUS
    <3> PICK entry : entry = Entry(n, written[n])
      OBVIOUS
    <3>1. /\ n \in 1..Len(written) /\ n - 1 = k /\ i <= k /\ k <= Len(written) /\ n \in Nat
          /\ n > 0 /\ i \in Nat /\ k \in 0..Len(written)
      BY <2>2
    <3>2. IsLonger(body[n], body[k], entry)
      BY <3>1, BodyStep
    <3>3. GoesOn(body[k], body[i]) /\ (0 < i /\ i < k => CommaAfter(body[k], body[i]))
      BY <1>2, <3>1
    <3>4. /\ body[i] \in Seq(U) /\ body[k] \in Seq(U)
          /\ Len(body[i]) \in Nat /\ Len(body[k]) \in Nat
      BY <1>0, <3>1
    <3>5. Len(entry) \in Nat /\ Len(entry) > 0 /\ (n > 1 => entry[1] = Comma)
      <4>1. IsMember(T, written[n])
        BY <3>1 DEF HasMembers
      <4>2. /\ Len(entry) = Len(Opening(n)) + 6 + Len(Shown(written[n].value))
            /\ n > 1 => entry[1] = Comma
        BY <3>1, <4>1, EntryTokens DEF IsEntry
      <4>3. Len(Opening(n)) \in Nat /\ Len(Shown(written[n].value)) \in Nat
        <5>1. Shown(written[n].value) \in Seq(U)
          BY <4>1, ShownTokens
        <5>2. Len(Opening(n)) \in Nat
          BY <3>1, <4>1, EntryTokens
        <5> QED  BY <5>1, <5>2
      <4> QED  BY <4>2, <4>3
    <3>6. Len(body[i]) <= Len(body[n]) /\ \A q \in 1..Len(body[i]) : body[n][q] = body[i][q]
      <4>1. GoesOn(body[k], body[i])
        BY <3>3
      <4>2. Len(body[n]) = Len(body[k]) + Len(entry) /\ Len(body[i]) <= Len(body[k])
        BY <3>2, <4>1 DEF IsLonger, GoesOn
      <4>3. Len(body[i]) <= Len(body[n])
        BY ONLY <3>4, <3>5, <4>2
      <4>4. ASSUME NEW q \in 1..Len(body[i])
            PROVE  body[n][q] = body[i][q]
        <5>1. q \in 1..Len(body[k])
          BY ONLY <3>4, <4>2, q \in 1..Len(body[i])
        <5>2. body[n][q] = body[k][q]
          BY <3>2, <5>1 DEF IsLonger
        <5>3. body[k][q] = body[i][q]
          BY <4>1 DEF GoesOn
        <5> QED  BY <5>2, <5>3, Zenon
      <4> QED  BY <4>3, <4>4
    <3>7. ASSUME 0 < i
          PROVE  Len(body[i]) < Len(body[n]) /\ body[n][Len(body[i]) + 1] = Comma
      <4>1. CASE i < k
        <5>1. Len(body[i]) < Len(body[k]) /\ body[k][Len(body[i]) + 1] = Comma
          BY <3>3, <3>7, <4>1 DEF CommaAfter
        <5>2. Len(body[i]) + 1 \in 1..Len(body[k])
          BY ONLY <3>4, <5>1
        <5>3. body[n][Len(body[i]) + 1] = body[k][Len(body[i]) + 1]
          BY <3>2, <5>2 DEF IsLonger
        <5>4. Len(body[i]) < Len(body[n])
          BY ONLY <3>2, <3>4, <3>5, <5>1 DEF IsLonger
        <5> QED  BY <5>1, <5>3, <5>4
      <4>2. CASE i = k
        <5>1. 1 \in 1..Len(entry) /\ entry[1] = Comma
          BY <3>1, <3>5, <3>7, <4>2
        <5> QED  BY ONLY <3>2, <3>4, <3>5, <4>2, <5>1 DEF IsLonger
      <4> QED  BY <3>1, <4>1, <4>2
    <3> QED  BY <3>1, <3>6, <3>7 DEF GoesOn, CommaAfter
  <2> QED  BY <2>1, <2>2
<1>3. Nat \subseteq On
  <2> HIDE DEF On
  <2> QED  BY <1>1, <1>2, Successors
<1>4. j \in Nat /\ i <= j /\ j <= Len(written)
  OBVIOUS
<1> QED  BY <1>3, <1>4

-----------------------------------------------------------------------------
(* The file                                                                *)

\* No text of the members is this key.
NotAText(written, key) ==
  \A i \in 1..Len(written) : \A k \in 1..Len(written[i].value.text) :
    written[i].value.text[k] # key

NoneNamed(written, key, n) == \A i \in 1..n : written[i].key # key

Lacks(text, key, n) == \A q \in 1..n : text[q] # key

LEMMA EntryLacks ==
  ASSUME NEW T, NEW m, IsMember(T, m), NEW i \in Nat, i > 0, NEW key \in Keys, m.key # key,
         \A k \in 1..Len(m.value.text) : m.value.text[k] # key
  PROVE  Lacks(Entry(i, m), key, Len(Entry(i, m)))
<1> PICK U : U = FileOf(T)
  OBVIOUS
<1> PICK entry : entry = Entry(i, m)
  OBVIOUS
<1> PICK shown : shown = Shown(m.value)
  OBVIOUS
<1> PICK s : s = Len(Opening(i))
  OBVIOUS
<1>1. key \notin Layout /\ Quote \in Layout /\ Colon \in Layout /\ Space \in Layout
  BY KeysAreNoLayout DEF Layout
<1>2. s \in Nat /\ IsEntry(entry, s, m.key, shown)
  BY EntryTokens
<1>3. /\ Len(entry) = s + 6 + Len(shown) /\ HoldsKey(entry, s + 2, m.key)
      /\ \A k \in 1..(s + 2) : entry[k] \in Layout
      /\ \A k \in 1..Len(shown) : entry[s + 6 + k] = shown[k]
  BY <1>2 DEF IsEntry
<1>4. Len(shown) \in Nat
  <2>1. shown \in Seq(U)
    BY ShownTokens
  <2> QED  BY <2>1
<1>5. \A k \in 1..Len(shown) : shown[k] # key
  BY ShownTokens
<1>6. /\ entry[s + 3] = m.key /\ entry[s + 4] = Quote
      /\ entry[s + 5] = Colon /\ entry[s + 6] = Space
  <2>1. s + 2 + 1 = s + 3 /\ s + 2 + 2 = s + 4 /\ s + 2 + 3 = s + 5 /\ s + 2 + 4 = s + 6
    BY ONLY <1>2
  <2> QED  BY <1>3, <2>1 DEF HoldsKey
<1>7. ASSUME NEW q \in 1..Len(entry)
      PROVE  entry[q] # key
  <2>1. \/ q \in 1..(s + 2) \/ q = s + 3 \/ q = s + 4 \/ q = s + 5 \/ q = s + 6
        \/ q - (s + 6) \in 1..Len(shown) /\ q = s + 6 + (q - (s + 6))
    BY <1>2, <1>3, <1>4
  <2>2. CASE q \in 1..(s + 2)
    BY <1>1, <1>3, <2>2
  <2>3. CASE q = s + 3 \/ q = s + 4 \/ q = s + 5 \/ q = s + 6
    BY <1>1, <1>6, <2>3
  <2>4. CASE q - (s + 6) \in 1..Len(shown) /\ q = s + 6 + (q - (s + 6))
    <3>1. entry[s + 6 + (q - (s + 6))] = shown[q - (s + 6)]
      BY <1>3, <2>4
    <3> QED  BY <1>5, <2>4, <3>1
  <2> QED  BY <2>1, <2>2, <2>3, <2>4
<1> QED  BY <1>7 DEF Lacks

LEMMA BodyLacks ==
  ASSUME NEW T, NEW S, NEW written \in Seq(S), HasMembers(T, written), NEW key \in Keys,
         NotAText(written, key), NEW n \in 0..Len(written), NoneNamed(written, key, n)
  PROVE  Lacks(Body(written)[n], key, Len(Body(written)[n]))
<1> PICK U : U = FileOf(T)
  OBVIOUS
<1> PICK body : body = Body(written)
  OBVIOUS
<1> DEFINE Bare == {k \in Nat : k <= n => Lacks(body[k], key, Len(body[k]))}
<1>1. 0 \in Bare
  <2> PICK brace : brace = <<OpenBrace>>
    OBVIOUS
  <2>1. Len(brace) = 1 /\ brace[1] = OpenBrace
    OBVIOUS
  <2>2. OpenBrace # key
    BY KeysAreNoLayout DEF Layout
  <2>3. body[0] = brace
    BY BodyIs
  <2>4. Lacks(brace, key, Len(brace))
    BY <2>1, <2>2 DEF Lacks
  <2> QED  BY <2>3, <2>4
<1>2. ASSUME NEW k \in Nat, k \in Bare
      PROVE  k + 1 \in Bare
  <2> SUFFICES ASSUME k + 1 <= n
               PROVE  Lacks(body[k + 1], key, Len(body[k + 1]))
    OBVIOUS
  <2> PICK m : m = k + 1
    OBVIOUS
  <2> PICK entry : entry = Entry(m, written[m])
    OBVIOUS
  <2>1. /\ m \in 1..Len(written) /\ m - 1 = k /\ k <= n /\ m \in Nat /\ m > 0 /\ m \in 1..n
        /\ k \in 0..Len(written)
    OBVIOUS
  <2>2. IsLonger(body[m], body[k], entry)
    BY <2>1, BodyStep
  <2>3. Lacks(body[k], key, Len(body[k]))
    BY <1>2, <2>1
  <2>4. IsMember(T, written[m])
    BY <2>1 DEF HasMembers
  <2>5. Lacks(entry, key, Len(entry))
    <3>1. written[m].key # key
      BY <2>1 DEF NoneNamed
    <3>2. \A q \in 1..Len(written[m].value.text) : written[m].value.text[q] # key
      BY <2>1 DEF NotAText
    <3> QED  BY <2>1, <2>4, <3>1, <3>2, EntryLacks
  <2>6. Len(entry) \in Nat /\ Len(body[k]) \in Nat
    <3>1. body[k] \in Seq(U)
      BY <2>1, BodyType
    <3>2. entry \in Seq(U)
      BY <2>1, <2>4, EntryTokens
    <3> QED  BY <3>1, <3>2
  <2>7. ASSUME NEW q \in 1..Len(body[m])
        PROVE  body[m][q] # key
    <3>1. CASE q <= Len(body[k])
      <4>1. q \in 1..Len(body[k])
        BY <2>6, <3>1
      <4> QED  BY <2>2, <2>3, <4>1 DEF IsLonger, Lacks
    <3>2. CASE ~(q <= Len(body[k]))
      <4>1. q - Len(body[k]) \in 1..Len(entry) /\ q = Len(body[k]) + (q - Len(body[k]))
        <5>1. Len(body[m]) = Len(body[k]) + Len(entry)
          BY <2>2 DEF IsLonger
        <5> QED  BY ONLY <2>6, <3>2, <5>1, q \in 1..Len(body[m])
      <4>2. body[m][Len(body[k]) + (q - Len(body[k]))] = entry[q - Len(body[k])]
        BY <2>2, <4>1 DEF IsLonger
      <4>3. entry[q - Len(body[k])] # key
        BY <2>5, <4>1 DEF Lacks
      <4> QED  BY <4>1, <4>2, <4>3
    <3> QED  BY <3>1, <3>2
  <2> QED  BY <2>7 DEF Lacks
<1>3. Nat \subseteq Bare
  <2> HIDE DEF Bare
  <2> QED  BY <1>1, <1>2, Successors
<1>4. n \in Nat /\ n <= n
  OBVIOUS
<1> QED  BY <1>3, <1>4

\* Behind this part of the file its line ends.
LineEndsAfter(json, part) ==
  /\ GoesOn(json, part) /\ Len(part) < Len(json)
  /\ json[Len(part) + 1] = Comma \/ json[Len(part) + 1] = Newline

\* The file is this and the end.
IsClosed(json, body) ==
  /\ Len(json) = Len(body) + 2 /\ GoesOn(json, body)
  /\ json[Len(body) + 1] = Newline /\ json[Len(body) + 2] = CloseBrace

LEMMA WrittenFile ==
  ASSUME NEW T, NEW S, NEW written \in Seq(S), HasMembers(T, written)
  PROVE  /\ Json(written) \in Seq(FileOf(T))
         /\ \A i \in 0..Len(written) : GoesOn(Json(written), Body(written)[i])
         /\ \A i \in 1..Len(written) : LineEndsAfter(Json(written), Body(written)[i])
         /\ IsClosed(Json(written), Body(written)[Len(written)])
<1> PICK U : U = FileOf(T)
  OBVIOUS
<1> PICK body : body = Body(written)
  OBVIOUS
<1> PICK n : n = Len(written)
  OBVIOUS
<1> PICK end : end = <<Newline, CloseBrace>>
  OBVIOUS
<1> PICK json : json = body[n] \o end
  OBVIOUS
<1>1. n \in Nat /\ n \in 0..n
  OBVIOUS
<1>2. \A i \in 0..n : body[i] \in Seq(U) /\ Len(body[i]) \in Nat
  <2>1. \A i \in 0..n : body[i] \in Seq(U)
    BY BodyType
  <2> QED  BY ONLY <2>1
<1>3. end \in Seq(U) /\ Len(end) = 2 /\ end[1] = Newline /\ end[2] = CloseBrace
  <2>1. Newline \in U /\ CloseBrace \in U
    BY DEF FileOf, Layout
  <2> QED  BY ONLY <2>1, end = <<Newline, CloseBrace>>
<1>4. /\ json \in Seq(U) /\ Len(json) = Len(body[n]) + Len(end)
      /\ \A q \in 1..Len(body[n]) : json[q] = body[n][q]
      /\ \A q \in 1..Len(end) : json[Len(body[n]) + q] = end[q]
  <2>1. body[n] \in Seq(U)
    BY <1>1, <1>2
  <2> PICK most : most = body[n]
    OBVIOUS
  <2>2. most \in Seq(U) /\ end \in Seq(U)
    BY <1>3, <2>1
  <2>3. /\ json \in Seq(U) /\ Len(json) = Len(most) + Len(end)
        /\ \A q \in 1..Len(most) : json[q] = most[q]
        /\ \A q \in 1..Len(end) : json[Len(most) + q] = end[q]
    BY ONLY <2>2, json = most \o end, Concatenation
  <2> QED  BY <2>3
<1>5. json[Len(body[n]) + 1] = Newline /\ json[Len(body[n]) + 2] = CloseBrace
  <2>1. 1 \in 1..Len(end) /\ 2 \in 1..Len(end)
    BY <1>3
  <2> QED  BY <1>3, <1>4, <2>1
<1>6. ASSUME NEW i \in 0..n
      PROVE  GoesOn(body[n], body[i]) /\ (0 < i /\ i < n => CommaAfter(body[n], body[i]))
  <2>1. n \in i..n
    BY <1>1
  <2> QED  BY <2>1, BodyGoesOn
<1>7. ASSUME NEW i \in 0..n
      PROVE  GoesOn(json, body[i])
  <2>1. GoesOn(body[n], body[i]) /\ Len(body[i]) \in Nat /\ Len(body[n]) \in Nat
    BY <1>1, <1>2, <1>6
  <2> QED  BY ONLY <1>3, <1>4, <2>1 DEF GoesOn
<1>8. ASSUME NEW i \in 1..n
      PROVE  LineEndsAfter(json, body[i])
  <2>1. i \in 0..n /\ i \in Nat /\ 0 < i
    BY <1>1
  <2>2. /\ 0 < i /\ i < n => CommaAfter(body[n], body[i])
        /\ Len(body[i]) \in Nat /\ Len(body[n]) \in Nat
    BY <1>1, <1>2, <1>6, <2>1
  <2>3. CASE i = n
    <3>1. Len(body[i]) < Len(json)
      BY ONLY <1>3, <1>4, <2>2, <2>3
    <3> QED  BY <1>5, <1>7, <2>1, <2>3, <3>1 DEF LineEndsAfter
  <2>4. CASE i < n
    <3>1. Len(body[i]) < Len(body[n]) /\ body[n][Len(body[i]) + 1] = Comma
      BY <2>1, <2>2, <2>4 DEF CommaAfter
    <3>2. Len(body[i]) + 1 \in 1..Len(body[n])
      BY ONLY <2>2, <3>1
    <3>3. json[Len(body[i]) + 1] = body[n][Len(body[i]) + 1]
      BY <1>4, <3>2
    <3>4. Len(body[i]) < Len(json)
      BY ONLY <1>3, <1>4, <2>2, <3>1
    <3> QED  BY <1>7, <2>1, <3>1, <3>3, <3>4 DEF LineEndsAfter
  <2> QED  BY <1>1, <2>1, <2>3, <2>4
<1>9. Json(written) = json
  BY Zenon DEF Json
<1>10. IsClosed(json, body[n])
  BY <1>1, <1>3, <1>4, <1>5, <1>7 DEF IsClosed
<1>11. json \in Seq(U)
  BY <1>4
<1>12. \A i \in 0..n : GoesOn(json, body[i])
  BY <1>7
<1>13. \A i \in 1..n : LineEndsAfter(json, body[i])
  BY <1>8
<1> QED  BY <1>9, <1>10, <1>11, <1>12, <1>13

\* Where the quote before the key of a member stands.
KeyAt(written, i) == Len(Body(written)[i - 1]) + Len(Opening(i)) + 2

\* The member stands here, and its value ends where it should.
IsAt(json, p, m) ==
  /\ p \in 1..Len(json) /\ p + 5 + Len(Shown(m.value)) \in 1..Len(json)
  /\ HoldsKey(json, p, m.key)
  /\ \A k \in 1..Len(Shown(m.value)) : json[p + 4 + k] = Shown(m.value)[k]
  /\ \/ json[p + 5 + Len(Shown(m.value))] = Comma
     \/ json[p + 5 + Len(Shown(m.value))] = Newline

LEMMA MemberAt ==
  ASSUME NEW T, NEW S, NEW written \in Seq(S), HasMembers(T, written), NEW i \in 1..Len(written)
  PROVE  IsAt(Json(written), KeyAt(written, i), written[i])
<1> PICK U : U = FileOf(T)
  OBVIOUS
<1> PICK json : json = Json(written)
  OBVIOUS
<1> PICK before : before = Body(written)[i - 1]
  OBVIOUS
<1> PICK after : after = Body(written)[i]
  OBVIOUS
<1> PICK m : m = written[i]
  OBVIOUS
<1> PICK entry : entry = Entry(i, m)
  OBVIOUS
<1> PICK shown : shown = Shown(m.value)
  OBVIOUS
<1> PICK b : b = Len(before)
  OBVIOUS
<1> PICK s : s = Len(Opening(i))
  OBVIOUS
<1> PICK l : l = Len(shown)
  OBVIOUS
<1>1. IsMember(T, m) /\ i \in Nat /\ i > 0 /\ i - 1 \in 0..Len(written) /\ i \in 0..Len(written)
  BY DEF HasMembers
<1>2. s \in Nat /\ IsEntry(entry, s, m.key, shown)
  BY <1>1, EntryTokens
<1>3. b \in Nat /\ l \in Nat
  <2>1. before \in Seq(U)
    BY <1>1, BodyType
  <2>2. shown \in Seq(U)
    BY <1>1, ShownTokens
  <2> QED  BY <2>1, <2>2
<1>4. IsLonger(after, before, entry)
  BY BodyStep
<1>5. /\ GoesOn(json, after) /\ json \in Seq(U) /\ Len(after) < Len(json)
      /\ json[Len(after) + 1] = Comma \/ json[Len(after) + 1] = Newline
  <2>1. json \in Seq(U) /\ LineEndsAfter(json, after)
    BY WrittenFile
  <2> QED  BY <2>1 DEF LineEndsAfter
<1>6. Len(after) = b + s + 6 + l /\ Len(entry) = s + 6 + l
  <2>1. Len(after) = b + Len(entry) /\ Len(entry) = s + 6 + l
    BY <1>2, <1>4 DEF IsLonger, IsEntry
  <2> QED  BY ONLY <1>2, <1>3, <2>1
<1>7. \A q \in 1..(s + 6 + l) : json[b + q] = entry[q]
  <2> SUFFICES ASSUME NEW q \in 1..(s + 6 + l)
               PROVE  json[b + q] = entry[q]
    OBVIOUS
  <2>1. after[b + q] = entry[q]
    BY <1>4, <1>6 DEF IsLonger
  <2>2. b + q \in 1..Len(after)
    BY ONLY <1>2, <1>3, <1>6, q \in 1..(s + 6 + l)
  <2>3. json[b + q] = after[b + q]
    BY <1>5, <2>2 DEF GoesOn
  <2> QED  BY <2>1, <2>3
<1> PICK p : p = b + s + 2
  OBVIOUS
<1>8. HoldsKey(json, p, m.key)
  <2>1. /\ s + 2 \in 1..(s + 6 + l) /\ s + 3 \in 1..(s + 6 + l) /\ s + 4 \in 1..(s + 6 + l)
        /\ s + 5 \in 1..(s + 6 + l) /\ s + 6 \in 1..(s + 6 + l)
        /\ p = b + (s + 2) /\ p + 1 = b + (s + 3) /\ p + 2 = b + (s + 4)
        /\ p + 3 = b + (s + 5) /\ p + 4 = b + (s + 6)
        /\ s + 2 + 1 = s + 3 /\ s + 2 + 2 = s + 4 /\ s + 2 + 3 = s + 5 /\ s + 2 + 4 = s + 6
    BY ONLY <1>2, <1>3, p = b + s + 2
  <2>2. /\ entry[s + 2] = Quote /\ entry[s + 3] = m.key /\ entry[s + 4] = Quote
        /\ entry[s + 5] = Colon /\ entry[s + 6] = Space
    BY <1>2, <2>1 DEF IsEntry, HoldsKey
  <2>3. /\ json[b + (s + 2)] = Quote /\ json[b + (s + 3)] = m.key /\ json[b + (s + 4)] = Quote
        /\ json[b + (s + 5)] = Colon /\ json[b + (s + 6)] = Space
    BY <1>7, <2>1, <2>2
  <2> QED  BY <2>1, <2>3 DEF HoldsKey
<1>9. ASSUME NEW k \in 1..l
      PROVE  json[p + 4 + k] = shown[k]
  <2>1. s + 6 + k \in 1..(s + 6 + l) /\ p + 4 + k = b + (s + 6 + k)
    BY ONLY <1>2, <1>3, p = b + s + 2, k \in 1..l
  <2>2. entry[s + 6 + k] = shown[k]
    BY <1>2 DEF IsEntry
  <2> QED  BY <1>7, <2>1, <2>2
<1>10. /\ p \in 1..Len(json) /\ p + 5 + l \in 1..Len(json)
       /\ json[p + 5 + l] = Comma \/ json[p + 5 + l] = Newline
  <2>1. Len(json) \in Nat
    BY <1>5
  <2>2. p + 5 + l = Len(after) + 1 /\ p \in 1..Len(json) /\ p + 5 + l \in 1..Len(json)
    BY ONLY <1>2, <1>3, <1>5, <1>6, <2>1, p = b + s + 2
  <2> QED  BY <1>5, <2>2
<1>11. KeyAt(written, i) = p
  BY DEF KeyAt
<1>12. IsAt(json, p, m)
  BY <1>8, <1>9, <1>10 DEF IsAt
<1> QED  BY <1>11, <1>12

-----------------------------------------------------------------------------
(* The search for a key                                                    *)

LEMMA ThreeTokens ==
  ASSUME NEW T, NEW text \in Seq(T), NEW i \in 1..(Len(text) - 2),
         NEW a \in T, NEW b \in T, NEW c \in T
  PROVE  SubSeq(text, i, i + 2) = <<a, b, c>>
           <=> text[i] = a /\ text[i + 1] = b /\ text[i + 2] = c
<1> PICK part : part = SubSeq(text, i, i + 2)
  OBVIOUS
<1> PICK three : three = <<a, b, c>>
  OBVIOUS
<1>1. three \in Seq(T) /\ Len(three) = 3 /\ three[1] = a /\ three[2] = b /\ three[3] = c
  BY ONLY a \in T, b \in T, c \in T, three = <<a, b, c>>
<1>2. part \in Seq(T) /\ Len(part) = 3 /\ \A k \in 1..3 : part[k] = text[i + k - 1]
  <2>1. i \in 1..(Len(text) + 1) /\ i + 2 \in (i - 1)..Len(text) /\ i + 2 - i + 1 = 3
    OBVIOUS
  <2> QED  BY <2>1, Part
<1>3. part[1] = text[i] /\ part[2] = text[i + 1] /\ part[3] = text[i + 2]
  <2>1. i + 1 - 1 = i /\ i + 2 - 1 = i + 1 /\ i + 3 - 1 = i + 2
    OBVIOUS
  <2> QED  BY <1>2, <2>1
<1>4. part = three <=> part[1] = a /\ part[2] = b /\ part[3] = c
  <2>1. \A k \in 1..3 : k = 1 \/ k = 2 \/ k = 3
    OBVIOUS
  <2>2. ASSUME part[1] = a, part[2] = b, part[3] = c
        PROVE  part = three
    <3>1. \A k \in 1..Len(part) : part[k] = three[k]
      BY <1>1, <1>2, <2>1, <2>2
    <3> QED  BY <1>1, <1>2, <3>1, SameText
  <2> QED  BY <1>1, <2>2
<1> QED  BY <1>3, <1>4

LEMMA KeyFoundAt ==
  ASSUME NEW T, NEW json \in Seq(T), NEW key \in T, Quote \in T,
         NEW p \in 1..(Len(json) - 2),
         json[p] = Quote, json[p + 1] = key, json[p + 2] = Quote, Lacks(json, key, p)
  PROVE  FindKey(json, key) = p
<1> DEFINE found == {i \in 1..(Len(json) - 2) : SubSeq(json, i, i + 2) = <<Quote, key, Quote>>}
<1>1. FindKey(json, key) = IF found = {} THEN 0 ELSE Min(found)
  BY Zenon DEF FindKey
<1>2. p \in found
  BY ThreeTokens
<1>3. ASSUME NEW i \in found
      PROVE  p <= i
  <2>1. i \in 1..(Len(json) - 2) /\ SubSeq(json, i, i + 2) = <<Quote, key, Quote>>
    OBVIOUS
  <2>2. json[i + 1] = key
    BY <2>1, ThreeTokens
  <2>3. i < p => i + 1 \in 1..p
    BY <2>1
  <2> QED  BY <2>1, <2>2, <2>3 DEF Lacks
<1>4. found \subseteq Nat
  OBVIOUS
<1> HIDE DEF found
<1> QED  BY <1>1, <1>2, <1>3, <1>4, LeastPosition

LEMMA KeyNotFound ==
  ASSUME NEW T, NEW json \in Seq(T), NEW key \in T, Quote \in T, Lacks(json, key, Len(json))
  PROVE  FindKey(json, key) = 0
<1> DEFINE found == {i \in 1..(Len(json) - 2) : SubSeq(json, i, i + 2) = <<Quote, key, Quote>>}
<1>1. FindKey(json, key) = IF found = {} THEN 0 ELSE Min(found)
  BY Zenon DEF FindKey
<1>2. ASSUME NEW i \in found
      PROVE  FALSE
  <2>1. i \in 1..(Len(json) - 2) /\ SubSeq(json, i, i + 2) = <<Quote, key, Quote>>
    OBVIOUS
  <2>2. json[i + 1] = key
    BY <2>1, ThreeTokens
  <2>3. i + 1 \in 1..Len(json)
    BY <2>1
  <2> QED  BY <2>2, <2>3 DEF Lacks
<1> HIDE DEF found
<1> QED  BY <1>1, <1>2

\* The first member with a key is where the key is found, and no other place.
LEMMA NamedFound ==
  ASSUME NEW T, NEW S, NEW written \in Seq(S), HasMembers(T, written), NEW key \in Keys,
         NotAText(written, key), NEW i \in 1..Len(written), written[i].key = key,
         NoneNamed(written, key, i - 1)
  PROVE  FindKey(Json(written), key) = KeyAt(written, i)
<1> PICK U : U = FileOf(T)
  OBVIOUS
<1> PICK json : json = Json(written)
  OBVIOUS
<1> PICK before : before = Body(written)[i - 1]
  OBVIOUS
<1> PICK entry : entry = Entry(i, written[i])
  OBVIOUS
<1> PICK p : p = KeyAt(written, i)
  OBVIOUS
<1> PICK s : s = Len(Opening(i))
  OBVIOUS
<1> PICK shown : shown = Shown(written[i].value)
  OBVIOUS
<1>1. json \in Seq(U) /\ key \in U /\ Quote \in U
  <2>1. json \in Seq(U)
    BY WrittenFile
  <2> QED  BY <2>1 DEF FileOf, Layout
<1>2. i - 1 \in 0..Len(written) /\ IsMember(T, written[i]) /\ i \in Nat /\ i > 0
  BY DEF HasMembers
<1>3. IsAt(json, p, written[i])
  BY MemberAt
<1>4. before \in Seq(U) /\ Len(before) \in Nat /\ GoesOn(json, before)
  <2>1. before \in Seq(U)
    BY <1>2, BodyType
  <2>2. GoesOn(json, before)
    BY <1>2, WrittenFile
  <2> QED  BY <2>1, <2>2
<1>5. Lacks(before, key, Len(before))
  BY <1>2, BodyLacks
<1>6. s \in Nat /\ p = Len(before) + s + 2 /\ IsEntry(entry, s, key, shown)
  BY <1>2, EntryTokens DEF KeyAt
<1>7. Len(shown) \in Nat
  <2>1. shown \in Seq(U)
    BY <1>2, ShownTokens
  <2> QED  BY <2>1
<1>8. ASSUME NEW q \in 1..p
      PROVE  json[q] # key
  <2>1. CASE q <= Len(before)
    <3>1. q \in 1..Len(before)
      BY <1>4, <2>1
    <3> QED  BY <1>4, <1>5, <3>1 DEF GoesOn, Lacks
  <2>2. CASE ~(q <= Len(before))
    <3> PICK after : after = Body(written)[i]
      OBVIOUS
    <3> PICK k : k = q - Len(before)
      OBVIOUS
    <3>1. k \in 1..(s + 2) /\ q = Len(before) + k
      BY <1>4, <1>6, <2>2
    <3>2. IsLonger(after, before, entry)
      BY BodyStep
    <3>3. GoesOn(json, after)
      <4>1. i \in 0..Len(written)
        OBVIOUS
      <4> QED  BY <4>1, WrittenFile
    <3>4. Len(entry) = s + 6 + Len(shown) /\ entry[k] \in Layout
      BY <1>6, <3>1 DEF IsEntry
    <3>5. k \in 1..Len(entry)
      BY ONLY <1>6, <1>7, <3>1, <3>4
    <3>6. Len(after) = Len(before) + Len(entry) /\ after[q] = entry[k]
      BY <3>1, <3>2, <3>5 DEF IsLonger
    <3>7. q \in 1..Len(after)
      BY ONLY <1>4, <1>6, <1>7, <3>1, <3>4, <3>6
    <3>8. json[q] = after[q]
      BY <3>3, <3>7 DEF GoesOn
    <3> QED  BY <3>4, <3>6, <3>8, KeysAreNoLayout
  <2> QED  BY <2>1, <2>2
<1>9. Lacks(json, key, p)
  BY <1>8 DEF Lacks
<1>10. /\ p \in 1..(Len(json) - 2) /\ json[p] = Quote /\ json[p + 1] = key /\ json[p + 2] = Quote
  <2>1. p \in 1..Len(json) /\ p + 5 + Len(shown) \in 1..Len(json)
    BY <1>3 DEF IsAt
  <2>2. p \in 1..(Len(json) - 2)
    <3>1. Len(json) \in Nat
      BY <1>1
    <3> QED  BY ONLY <1>7, <2>1, <3>1
  <2> QED  BY <1>3, <2>2 DEF IsAt, HoldsKey
<1> QED  BY <1>1, <1>9, <1>10, KeyFoundAt

LEMMA UnnamedNotFound ==
  ASSUME NEW T, NEW S, NEW written \in Seq(S), HasMembers(T, written), NEW key \in Keys,
         NotAText(written, key), NoneNamed(written, key, Len(written))
  PROVE  FindKey(Json(written), key) = 0
<1> PICK U : U = FileOf(T)
  OBVIOUS
<1> PICK json : json = Json(written)
  OBVIOUS
<1> PICK body : body = Body(written)[Len(written)]
  OBVIOUS
<1>1. Len(written) \in 0..Len(written)
  OBVIOUS
<1>2. json \in Seq(U) /\ IsClosed(json, body)
  BY WrittenFile
<1>3. key \in U /\ Quote \in U /\ key # Newline /\ key # CloseBrace
  BY KeysAreNoLayout DEF FileOf, Layout
<1>4. Lacks(body, key, Len(body)) /\ Len(body) \in Nat
  <2>1. body \in Seq(U)
    BY <1>1, BodyType
  <2>2. Lacks(body, key, Len(body))
    BY <1>1, BodyLacks
  <2> QED  BY <2>1, <2>2
<1>5. ASSUME NEW q \in 1..Len(json)
      PROVE  json[q] # key
  <2>1. q \in 1..Len(body) \/ q = Len(body) + 1 \/ q = Len(body) + 2
    BY <1>2, <1>4 DEF IsClosed
  <2>2. CASE q \in 1..Len(body)
    BY <1>2, <1>4, <2>2 DEF IsClosed, GoesOn, Lacks
  <2>3. CASE q = Len(body) + 1 \/ q = Len(body) + 2
    BY <1>2, <1>3, <2>3 DEF IsClosed
  <2> QED  BY <2>1, <2>2, <2>3
<1>6. Lacks(json, key, Len(json))
  BY <1>5 DEF Lacks
<1> QED  BY <1>2, <1>3, <1>6, KeyNotFound

-----------------------------------------------------------------------------
(* Reading a member                                                        *)

\* Where the tokens of a member with a text stand.
LEMMA TextTokens ==
  ASSUME NEW T, NEW m, IsMember(T, m), TextValue(m.value), NEW json \in Seq(FileOf(T)), NEW p,
         IsAt(json, p, m)
  PROVE  /\ Len(m.value.text) \in Nat
         /\ p \in 1..Len(json) /\ p + 7 + Len(m.value.text) \in 1..Len(json)
         /\ HoldsKey(json, p, m.key) /\ json[p + 5] = Quote
         /\ \A k \in 1..Len(m.value.text) : json[p + 5 + k] = m.value.text[k]
         /\ json[p + 6 + Len(m.value.text)] = Quote
         /\ \/ json[p + 7 + Len(m.value.text)] = Comma
            \/ json[p + 7 + Len(m.value.text)] = Newline
<1> PICK text : text = m.value.text
  OBVIOUS
<1> PICK shown : shown = Shown(m.value)
  OBVIOUS
<1> PICK l : l = Len(text)
  OBVIOUS
<1>1. l \in Nat
  <2>1. text \in Seq(T)
    BY DEF IsMember
  <2> QED  BY <2>1
<1>2. /\ Len(shown) = l + 2 /\ shown[1] = Quote /\ shown[l + 2] = Quote
      /\ \A k \in 1..l : shown[k + 1] = text[k]
  BY ShownTokens
<1>3. /\ p \in 1..Len(json) /\ p + 5 + Len(shown) \in 1..Len(json)
      /\ HoldsKey(json, p, m.key)
      /\ \A k \in 1..Len(shown) : json[p + 4 + k] = shown[k]
      /\ json[p + 5 + Len(shown)] = Comma \/ json[p + 5 + Len(shown)] = Newline
  BY DEF IsAt
<1>4. p \in Nat
  <2>1. Len(json) \in Nat
    OBVIOUS
  <2> QED  BY <1>3, <2>1
<1>5. p + 5 + Len(shown) = p + 7 + l
  BY ONLY <1>1, <1>2, <1>4
<1>6. json[p + 5] = Quote
  <2>1. 1 \in 1..Len(shown) /\ p + 4 + 1 = p + 5
    BY ONLY <1>1, <1>2, <1>4
  <2> QED  BY <1>2, <1>3, <2>1
<1>7. json[p + 6 + l] = Quote
  <2>1. l + 2 \in 1..Len(shown) /\ p + 4 + (l + 2) = p + 6 + l
    BY ONLY <1>1, <1>2, <1>4
  <2>2. json[p + 4 + (l + 2)] = shown[l + 2]
    BY <1>3, <2>1
  <2> QED  BY <1>2, <2>1, <2>2, Zenon
<1>8. ASSUME NEW k \in 1..l
      PROVE  json[p + 5 + k] = text[k]
  <2>1. k + 1 \in 1..Len(shown) /\ p + 4 + (k + 1) = p + 5 + k
    BY ONLY <1>1, <1>2, <1>4, k \in 1..l
  <2> QED  BY <1>2, <1>3, <2>1
<1> QED  BY <1>1, <1>3, <1>5, <1>6, <1>7, <1>8

\* The colon behind a key that is found.
LEMMA ColonFound ==
  ASSUME NEW T, NEW json \in Seq(T), NEW p \in Nat, p + 4 \in 1..Len(json), NEW key \in Keys,
         HoldsKey(json, p, key)
  PROVE  FindOneOf(json, {Colon}, p) = p + 3
<1> PICK colon : colon = {Colon}
  OBVIOUS
<1>1. json[p + 1] = key /\ json[p + 2] = Quote /\ json[p + 3] = Colon
  BY DEF HoldsKey
<1>2. key \notin colon /\ Quote \notin colon /\ Colon \in colon
  BY KeysAreNoLayout, LayoutDiffers DEF Layout
<1>3. p + 3 \in (p + 1)..Len(json) /\ \A j \in (p + 1)..(p + 3 - 1) : j = p + 1 \/ j = p + 2
  OBVIOUS
<1>4. \A j \in (p + 1)..(p + 3 - 1) : json[j] \notin colon
  BY <1>1, <1>2, <1>3
<1> QED  BY <1>1, <1>2, <1>3, <1>4, FoundAt

LEMMA TextRead ==
  ASSUME NEW T, NEW m, IsMember(T, m), TextValue(m.value), NEW json \in Seq(FileOf(T)), NEW p,
         IsAt(json, p, m), FindKey(json, m.key) = p, NEW fallback
  PROVE  ReadJsonString(json, m.key, fallback) = m.value.text
<1> PICK U : U = FileOf(T)
  OBVIOUS
<1> PICK text : text = m.value.text
  OBVIOUS
<1> PICK l : l = Len(text)
  OBVIOUS
<1> PICK quote : quote = {Quote}
  OBVIOUS
<1>1. /\ l \in Nat /\ p \in 1..Len(json) /\ p + 7 + l \in 1..Len(json)
      /\ HoldsKey(json, p, m.key) /\ json[p + 5] = Quote
      /\ \A k \in 1..l : json[p + 5 + k] = text[k]
      /\ json[p + 6 + l] = Quote
  BY TextTokens
<1>2. Len(json) \in Nat /\ p \in Nat /\ p > 0 /\ json \in Seq(U)
  <2>1. json \in Seq(U)
    OBVIOUS
  <2>2. Len(json) \in Nat
    BY ONLY <2>1
  <2> QED  BY ONLY <1>1, <2>1, <2>2
<1> PICK colon : colon = p + 3
  OBVIOUS
<1> PICK first : first = p + 5
  OBVIOUS
<1> PICK second : second = p + 6 + l
  OBVIOUS
<1>3. FindOneOf(json, {Colon}, p) = colon
  <2>1. m.key \in Keys
    BY DEF IsMember
  <2>2. p + 4 \in 1..Len(json)
    BY ONLY <1>1, <1>2
  <2> QED  BY <1>1, <1>2, <2>1, <2>2, ColonFound
<1>4. FindOneOf(json, quote, colon) = first
  <2>1. /\ first \in (colon + 1)..Len(json) /\ colon \in Nat
        /\ \A j \in (colon + 1)..(first - 1) : j = p + 4
    BY ONLY <1>1, <1>2, colon = p + 3, first = p + 5
  <2>2. json[p + 4] \notin quote /\ json[first] \in quote
    BY <1>1, LayoutDiffers DEF HoldsKey
  <2>3. \A j \in (colon + 1)..(first - 1) : json[j] \notin quote
    BY <2>1, <2>2
  <2> QED  BY <1>2, <2>1, <2>2, <2>3, FoundAt
<1>5. FindOneOf(json, quote, first) = second
  <2>1. /\ second \in (first + 1)..Len(json) /\ first \in Nat
        /\ \A j \in (first + 1)..(second - 1) : j - first \in 1..l /\ p + 5 + (j - first) = j
    BY ONLY <1>1, <1>2, first = p + 5, second = p + 6 + l
  <2>2. \A k \in 1..l : text[k] # Quote
    BY DEF IsMember
  <2>3. ASSUME NEW j \in (first + 1)..(second - 1)
        PROVE  json[j] \notin quote
    <3>1. json[p + 5 + (j - first)] = text[j - first]
      BY <1>1, <2>1
    <3> QED  BY <2>1, <2>2, <3>1
  <2>4. json[second] \in quote
    BY <1>1
  <2> QED  BY ONLY <1>2, <2>1, <2>3, <2>4, FoundAt
<1>6. SubSeq(json, first + 1, second - 1) = text
  <2> PICK from : from = first + 1
    OBVIOUS
  <2> PICK to : to = second - 1
    OBVIOUS
  <2> PICK part : part = SubSeq(json, from, to)
    OBVIOUS
  <2>1. /\ from \in 1..(Len(json) + 1) /\ to \in (from - 1)..Len(json) /\ to - from + 1 = l
        /\ \A k \in 1..l : from + k - 1 = p + 5 + k
    BY ONLY <1>1, <1>2, first = p + 5, second = p + 6 + l, from = first + 1, to = second - 1
  <2>2. part \in Seq(U) /\ Len(part) = l /\ \A k \in 1..l : part[k] = json[from + k - 1]
    BY ONLY <1>2, <2>1, part = SubSeq(json, from, to), Part
  <2>3. text \in Seq(U)
    <3>1. text \in Seq(T)
      BY DEF IsMember
    <3>2. T \subseteq U
      BY DEF FileOf
    <3> QED  BY ONLY <3>1, <3>2, Widened
  <2>4. ASSUME NEW k \in 1..l
        PROVE  part[k] = text[k]
    <3>1. from + k - 1 = p + 5 + k
      BY <2>1
    <3>2. part[k] = json[from + k - 1]
      BY <2>2
    <3>3. json[p + 5 + k] = text[k]
      BY <1>1
    <3> QED  BY <3>1, <3>2, <3>3, Zenon
  <2>5. part = text
    BY ONLY <2>2, <2>3, <2>4, l = Len(text), SameText
  <2> QED  BY <2>5
<1> DEFINE colonPos    == FindOneOf(json, {Colon}, FindKey(json, m.key))
           firstQuote  == FindOneOf(json, {Quote}, colonPos)
           secondQuote == FindOneOf(json, {Quote}, firstQuote)
<1>7. ReadJsonString(json, m.key, fallback) =
        IF FindKey(json, m.key) = 0 \/ colonPos = 0 \/ firstQuote = 0 \/ secondQuote = 0
          THEN fallback
          ELSE SubSeq(json, firstQuote + 1, secondQuote - 1)
  BY Zenon DEF ReadJsonString
<1>8. colonPos = colon /\ firstQuote = first /\ secondQuote = second
  BY <1>3, <1>4, <1>5, Zenon
<1> HIDE DEF colonPos, firstQuote, secondQuote
<1>9. ~(FindKey(json, m.key) = 0 \/ colonPos = 0 \/ firstQuote = 0 \/ secondQuote = 0)
  <2>1. p # 0 /\ colon # 0 /\ first # 0 /\ second # 0
    BY ONLY <1>1, <1>2, colon = p + 3, first = p + 5, second = p + 6 + l
  <2> QED  BY <1>8, <2>1, Zenon
<1>10. ReadJsonString(json, m.key, fallback) = SubSeq(json, firstQuote + 1, secondQuote - 1)
  BY <1>7, <1>9, Zenon
<1> QED  BY <1>6, <1>8, <1>10, Zenon

\* The first end of a number from here on.
FirstEnd(json, from, end) ==
  /\ json[end] = Comma \/ json[end] = CloseBrace \/ json[end] = Newline
  /\ \A j \in from..(end - 1) : json[j] # Comma /\ json[j] # CloseBrace /\ json[j] # Newline

NumberIn(text, fallback) ==
  IF Stoi(Trim(text)) = {} THEN fallback ELSE CHOOSE n \in Stoi(Trim(text)) : TRUE

\* The number a member is read as: the trimmed text between its colon and the
\* end of its value.
LEMMA NumberBetween ==
  ASSUME NEW T, NEW json \in Seq(T), NEW p \in Nat, p > 0, p + 4 \in 1..Len(json),
         NEW key \in Keys, HoldsKey(json, p, key), FindKey(json, key) = p,
         NEW end \in (p + 5)..Len(json), FirstEnd(json, p + 4, end), NEW fallback
  PROVE  ReadJsonInt(json, key, fallback) = NumberIn(SubSeq(json, p + 4, end - 1), fallback)
<1> PICK ends : ends = {Comma, CloseBrace, Newline}
  OBVIOUS
<1> PICK colon : colon = p + 3
  OBVIOUS
<1>1. FindOneOf(json, {Colon}, p) = colon
  BY ColonFound
<1>2. FindOneOf(json, ends, colon) = end
  <2>1. end \in (colon + 1)..Len(json) /\ colon \in Nat /\ json[end] \in ends
    BY DEF FirstEnd
  <2>2. \A j \in (colon + 1)..(end - 1) : json[j] \notin ends
    <3>1. colon + 1 = p + 4
      OBVIOUS
    <3> QED  BY <3>1 DEF FirstEnd
  <2> QED  BY <2>1, <2>2, FoundAt
<1>3. colon # 0 /\ end # 0 /\ p # 0 /\ colon + 1 = p + 4
  OBVIOUS
<1> DEFINE colonPos == FindOneOf(json, {Colon}, FindKey(json, key))
           found    == FindOneOf(json, {Comma, CloseBrace, Newline}, colonPos)
           endPos   == IF found = 0 THEN Len(json) + 1 ELSE found
           value    == Stoi(Trim(SubSeq(json, colonPos + 1, endPos - 1)))
<1>4. ReadJsonInt(json, key, fallback) =
        IF FindKey(json, key) = 0 \/ colonPos = 0 \/ value = {}
          THEN fallback
          ELSE CHOOSE n \in value : TRUE
  BY Zenon DEF ReadJsonInt
<1>5. colonPos = colon /\ found = end
  BY <1>1, <1>2, Zenon
<1> HIDE DEF colonPos, found
<1>6. endPos = end
  BY <1>3, <1>5
<1> HIDE DEF endPos
<1>7. value = Stoi(Trim(SubSeq(json, p + 4, end - 1)))
  BY <1>3, <1>5, <1>6, Zenon
<1>8. FindKey(json, key) # 0 /\ colonPos # 0
  BY <1>3, <1>5
<1> HIDE DEF value
<1> QED  BY <1>4, <1>7, <1>8, Zenon DEF NumberIn

\* A text under a key for a number is none.
LEMMA NoNumber ==
  ASSUME NEW T, NEW text \in Seq(T), Len(text) > 1, text[1] = Space, text[2] = Quote
  PROVE  Stoi(Trim(text)) = {}
<1>1. Space \in Blanks /\ Quote \notin Blanks /\ Quote # Minus /\ Quote \notin Digits
  <2>1. Quote # Space /\ Quote # Newline /\ Quote # Minus /\ Quote \notin Digits
    BY LayoutDiffers
  <2> QED  BY <2>1 DEF Blanks
<1>2. 1 \in 1..Len(text) /\ 2 \in 1..Len(text)
  OBVIOUS
<1>3. PICK first \in 1..Len(text) : \E last \in first..Len(text) :
         /\ text[first] \notin Blanks /\ text[last] \notin Blanks
         /\ \A i \in 1..Len(text) : (i < first \/ last < i) => text[i] \in Blanks
  BY <1>1, <1>2, Ends
<1>4. PICK last \in first..Len(text) :
         /\ text[first] \notin Blanks /\ text[last] \notin Blanks
         /\ \A i \in 1..Len(text) : (i < first \/ last < i) => text[i] \in Blanks
  BY <1>3
<1>5. first = 2
  <2>1. first # 1
    BY <1>1, <1>4
  <2>2. ~(2 < first)
    BY <1>1, <1>2, <1>4
  <2> QED  BY <2>1, <2>2
<1> PICK kept : kept = Trim(text)
  OBVIOUS
<1>6. kept \in Seq(T) /\ Len(kept) > 0 /\ kept[1] = Quote
  <2>1. kept = SubSeq(text, first, last)
    BY <1>4, Trimmed
  <2>2. /\ SubSeq(text, first, last) \in Seq(T)
        /\ Len(SubSeq(text, first, last)) = last - first + 1
        /\ \A i \in 1..(last - first + 1) : SubSeq(text, first, last)[i] = text[first + i - 1]
    BY Part
  <2>3. 1 \in 1..(last - first + 1) /\ first + 1 - 1 = 2 /\ last - first + 1 > 0
    BY <1>5
  <2> QED  BY <2>1, <2>2, <2>3
<1>7. Unsigned(kept) = kept
  BY <1>1, <1>6 DEF Unsigned, Negative
<1>8. DigitsUpTo(kept, 0) /\ 0 \in 0..Len(kept)
  BY <1>1, <1>6 DEF DigitsUpTo
<1>9. LeadingDigits(kept) = SubSeq(kept, 1, 0)
  BY <1>6, <1>8, LeadingOf
<1>10. SubSeq(kept, 1, 0) = <<>>
  BY <1>6
<1>11. LeadingDigits(Unsigned(kept)) = <<>>
  BY <1>7, <1>9, <1>10
<1> QED  BY <1>11, Zenon DEF Stoi

LEMMA NumberRead ==
  ASSUME NEW T, NEW m, IsMember(T, m), ~TextValue(m.value), NEW json \in Seq(FileOf(T)), NEW p,
         IsAt(json, p, m), FindKey(json, m.key) = p, NEW fallback
  PROVE  ReadJsonInt(json, m.key, fallback) = CHOOSE n \in Stoi(m.value.text) : TRUE
<1> PICK U : U = FileOf(T)
  OBVIOUS
<1> PICK text : text = m.value.text
  OBVIOUS
<1> PICK l : l = Len(text)
  OBVIOUS
<1> PICK end : end = p + 5 + l
  OBVIOUS
<1>1. Shown(m.value) = text
  BY ShownTokens
<1>2. /\ p \in 1..Len(json) /\ end \in 1..Len(json) /\ HoldsKey(json, p, m.key)
      /\ \A k \in 1..l : json[p + 4 + k] = text[k]
      /\ json[end] = Comma \/ json[end] = Newline
  BY <1>1 DEF IsAt
<1>3. text \in Seq(T) /\ IsNumber(text) /\ m.key \in Keys
  BY DEF IsMember
<1>4. text \in Seq(U)
  <2>1. T \subseteq U
    BY DEF FileOf
  <2> QED  BY ONLY <1>3, <2>1, Widened
<1>5. l \in Nat /\ l > 0 /\ p \in Nat /\ p > 0 /\ Len(json) \in Nat /\ json \in Seq(U)
  <2>1. Len(text) \in Nat /\ Len(json) \in Nat
    BY <1>3
  <2>2. Len(text) > 0
    BY <1>3 DEF IsNumber, IsTrimmed
  <2> QED  BY <1>2, <2>1, <2>2
<1> PICK from : from = p + 4
  OBVIOUS
<1> PICK to : to = end - 1
  OBVIOUS
<1> PICK part : part = SubSeq(json, from, to)
  OBVIOUS
<1>6. /\ from \in 1..(Len(json) + 1) /\ to \in (from - 1)..Len(json) /\ to - from + 1 = l + 1
      /\ end \in (p + 5)..Len(json) /\ p + 4 \in 1..Len(json)
  BY ONLY <1>2, <1>5, from = p + 4, to = end - 1, end = p + 5 + l
<1>7. /\ part \in Seq(U) /\ Len(part) = l + 1
      /\ \A k \in 1..(l + 1) : part[k] = json[from + k - 1]
  BY ONLY <1>5, <1>6, part = SubSeq(json, from, to), Part
<1>8. part[1] = Space
  <2>1. 1 \in 1..(l + 1) /\ from + 1 - 1 = p + 4
    BY ONLY <1>5, from = p + 4
  <2> QED  BY <1>2, <1>7, <2>1 DEF HoldsKey
<1>9. ASSUME NEW k \in 1..l
      PROVE  part[k + 1] = text[k]
  <2>1. k + 1 \in 1..(l + 1) /\ from + (k + 1) - 1 = p + 4 + k
    BY ONLY <1>5, from = p + 4, k \in 1..l
  <2>2. part[k + 1] = json[from + (k + 1) - 1]
    BY <1>7, <2>1
  <2>3. json[p + 4 + k] = text[k]
    BY <1>2
  <2> QED  BY <2>1, <2>2, <2>3, Zenon
<1>10. Trim(part) = text
  <2>1. text[1] \notin Blanks /\ text[l] \notin Blanks /\ Space \in Blanks
    BY <1>3, TokensDiffer DEF IsNumber, IsTrimmed
  <2> PICK last : last = l + 1
    OBVIOUS
  <2>2. 2 \in 1..Len(part) /\ last \in 2..Len(part)
    BY ONLY <1>5, <1>7, last = l + 1
  <2>3. part[2] \notin Blanks /\ part[last] \notin Blanks
    <3>1. 1 \in 1..l /\ l \in 1..l /\ 1 + 1 = 2
      BY <1>5
    <3>2. part[2] = text[1] /\ part[l + 1] = text[l]
      BY <1>9, <3>1
    <3> QED  BY <2>1, <3>2
  <2>4. \A i \in 1..Len(part) : (i < 2 \/ last < i) => text[1] \notin Blanks /\ i = 1
    BY ONLY <1>5, <1>7, <2>1, last = l + 1
  <2>5. \A i \in 1..Len(part) : (i < 2 \/ last < i) => part[i] \in Blanks
    BY <1>8, <2>1, <2>4
  <2>6. Trim(part) = SubSeq(part, 2, last)
    BY ONLY <1>7, <2>2, <2>3, <2>5, Trimmed
  <2> PICK core : core = SubSeq(part, 2, last)
    OBVIOUS
  <2>7. 2 \in 1..(Len(part) + 1) /\ last \in (2 - 1)..Len(part) /\ last - 2 + 1 = l
    BY ONLY <1>5, <1>7, last = l + 1
  <2>8. core \in Seq(U) /\ Len(core) = l /\ \A k \in 1..l : core[k] = part[2 + k - 1]
    <3>1. part \in Seq(U)
      BY <1>7
    <3> QED  BY ONLY <2>7, <3>1, core = SubSeq(part, 2, last), Part
  <2>9. ASSUME NEW k \in 1..l
        PROVE  core[k] = text[k]
    <3>1. 2 + k - 1 = k + 1
      OBVIOUS
    <3>2. core[k] = part[2 + k - 1] /\ part[k + 1] = text[k]
      BY <1>9, <2>8
    <3> QED  BY <3>1, <3>2, Zenon
  <2>10. core = text
    BY <1>4, <2>8, <2>9, SameText
  <2> QED  BY <2>6, <2>10
<1>11. ASSUME NEW j \in (p + 4)..(end - 1)
       PROVE  json[j] # Comma /\ json[j] # CloseBrace /\ json[j] # Newline
  <2>1. CASE j = p + 4
    BY <1>2, <2>1, LayoutDiffers DEF HoldsKey
  <2>2. CASE j # p + 4
    <3>1. j - (p + 4) \in 1..l /\ p + 4 + (j - (p + 4)) = j
      BY ONLY <1>5, <2>2, end = p + 5 + l, j \in (p + 4)..(end - 1)
    <3>2. json[p + 4 + (j - (p + 4))] = text[j - (p + 4)]
      BY <1>2, <3>1
    <3>3. text[j - (p + 4)] \notin {Comma, CloseBrace, Newline}
      BY <1>3, <3>1 DEF IsNumber
    <3> QED  BY <3>1, <3>2, <3>3
  <2> QED  BY <2>1, <2>2
<1>12. ReadJsonInt(json, m.key, fallback) = NumberIn(SubSeq(json, p + 4, end - 1), fallback)
  <2>1. FirstEnd(json, p + 4, end)
    BY <1>2, <1>11 DEF FirstEnd
  <2>2. HoldsKey(json, p, m.key) /\ m.key \in Keys /\ FindKey(json, m.key) = p
    BY <1>2, <1>3
  <2> QED  BY ONLY <1>5, <1>6, <2>1, <2>2, NumberBetween
<1>13. Stoi(Trim(SubSeq(json, p + 4, end - 1))) = Stoi(text)
  BY <1>10, Zenon
<1>14. Stoi(text) # {}
  BY <1>3 DEF IsNumber
<1> QED  BY <1>12, <1>13, <1>14, Zenon DEF NumberIn

LEMMA TextIsNoNumber ==
  ASSUME NEW T, NEW m, IsMember(T, m), TextValue(m.value), NEW json \in Seq(FileOf(T)), NEW p,
         IsAt(json, p, m), FindKey(json, m.key) = p, NEW fallback
  PROVE  ReadJsonInt(json, m.key, fallback) = fallback
<1> PICK U : U = FileOf(T)
  OBVIOUS
<1> PICK l : l = Len(m.value.text)
  OBVIOUS
<1> PICK final : final = p + 7 + l
  OBVIOUS
<1>1. /\ l \in Nat /\ p \in 1..Len(json) /\ final \in 1..Len(json)
      /\ HoldsKey(json, p, m.key) /\ json[p + 5] = Quote
      /\ json[final] = Comma \/ json[final] = Newline
  BY TextTokens
<1>2. Len(json) \in Nat /\ p \in Nat /\ p > 0 /\ m.key \in Keys /\ json \in Seq(U)
      /\ p + 4 \in 1..Len(json)
  <2>1. Len(json) \in Nat /\ m.key \in Keys
    BY DEF IsMember
  <2>2. p \in Nat /\ p > 0 /\ p + 4 \in 1..Len(json)
    BY ONLY <1>1, <2>1, final = p + 7 + l
  <2> QED  BY <2>1, <2>2
<1> DEFINE Ending(j) == json[j] = Comma \/ json[j] = CloseBrace \/ json[j] = Newline
           I == {j \in Nat : j >= p + 4 /\ j <= Len(json) /\ Ending(j)}
<1>3. final \in I /\ I \subseteq Nat
  <2>1. final >= p + 4 /\ final <= Len(json) /\ final \in Nat
    BY ONLY <1>1, <1>2, final = p + 7 + l
  <2> QED  BY <1>1, <2>1
<1>4. PICK end \in I : \A j \in I : end <= j
  <2> HIDE DEF I
  <2> QED  BY <1>3, LeastNumber
<1>5. end \in Nat /\ end >= p + 4 /\ end <= Len(json) /\ Ending(end)
  OBVIOUS
<1>6. json[p + 4] = Space /\ ~Ending(p + 4) /\ ~Ending(p + 5)
  <2>1. json[p + 4] = Space
    BY <1>1 DEF HoldsKey
  <2> QED  BY <1>1, <2>1, LayoutDiffers
<1>7. end >= p + 6
  <2>1. end # p + 4 /\ end # p + 5
    BY <1>5, <1>6
  <2> QED  BY ONLY <1>2, <1>5, <2>1
<1>8. ASSUME NEW j \in (p + 4)..(end - 1)
      PROVE  json[j] # Comma /\ json[j] # CloseBrace /\ json[j] # Newline
  <2>1. j \in Nat /\ j >= p + 4 /\ j <= Len(json) /\ ~(end <= j)
    BY ONLY <1>2, <1>5, j \in (p + 4)..(end - 1)
  <2> QED  BY <1>4, <2>1
<1> HIDE DEF I
<1>9. end \in (p + 5)..Len(json)
  BY ONLY <1>2, <1>5, <1>7
<1>10. ReadJsonInt(json, m.key, fallback) = NumberIn(SubSeq(json, p + 4, end - 1), fallback)
  <2>1. FirstEnd(json, p + 4, end)
    BY <1>5, <1>8 DEF FirstEnd
  <2>2. HoldsKey(json, p, m.key) /\ FindKey(json, m.key) = p
    BY <1>1
  <2> QED  BY ONLY <1>2, <1>9, <2>1, <2>2, NumberBetween
<1> PICK from : from = p + 4
  OBVIOUS
<1> PICK to : to = end - 1
  OBVIOUS
<1> PICK part : part = SubSeq(json, from, to)
  OBVIOUS
<1> PICK n : n = to - from + 1
  OBVIOUS
<1>11. /\ from \in 1..(Len(json) + 1) /\ to \in (from - 1)..Len(json) /\ n \in Nat /\ n > 1
       /\ to - from + 1 = n
  BY ONLY <1>2, <1>5, <1>7, from = p + 4, to = end - 1, n = to - from + 1
<1>12. /\ part \in Seq(U) /\ Len(part) = n
       /\ \A k \in 1..n : part[k] = json[from + k - 1]
  BY ONLY <1>2, <1>11, part = SubSeq(json, from, to), Part
<1>13. part[1] = Space /\ part[2] = Quote /\ Len(part) > 1
  <2>1. 1 \in 1..n /\ 2 \in 1..n /\ from + 1 - 1 = p + 4 /\ from + 2 - 1 = p + 5
    BY ONLY <1>2, <1>11, from = p + 4
  <2> QED  BY <1>1, <1>6, <1>11, <1>12, <2>1
<1>14. Stoi(Trim(part)) = {}
  BY <1>12, <1>13, NoNumber
<1> QED  BY <1>10, <1>14, Zenon DEF NumberIn

-----------------------------------------------------------------------------
(* The settings                                                            *)

\* The setting as the program reads it.
Setting(json, key, default) ==
  IF key \in StringKeys THEN ReadJsonString(json, key, default)
                         ELSE ReadJsonInt(json, key, default)

LEMMA SettingRead ==
  ASSUME NEW T, NEW S, NEW written \in Seq(S), HasMembers(T, written), Expected(written),
         NEW key \in Keys, NEW default
  PROVE  Setting(Json(written), key, default) = Said(written, key, default)
<1> PICK json : json = Json(written)
  OBVIOUS
<1> DEFINE named == {i \in DOMAIN written : written[i].key = key}
           value == written[Min(named)].value
<1>0. Said(written, key, default) =
        IF named = {} THEN default
        ELSE IF key \in StringKeys THEN value.text
        ELSE IF TextValue(value) THEN default
        ELSE CHOOSE n \in Stoi(value.text) : TRUE
  BY Zenon DEF Said
<1>1. NotAText(written, key) /\ json \in Seq(FileOf(T))
  <2>1. json \in Seq(FileOf(T))
    BY WrittenFile
  <2>2. ASSUME NEW i \in 1..Len(written), NEW k \in 1..Len(written[i].value.text)
        PROVE  written[i].value.text[k] # key
    <3>1. written[i].value.text \in Seq(T)
      BY DEF HasMembers, IsMember
    <3>2. i \in DOMAIN written /\ k \in DOMAIN written[i].value.text
      BY <3>1
    <3>3. written[i].value.text[k] \notin StringKeys \cup IntKeys
      BY <3>2 DEF Expected
    <3> QED  BY <3>3 DEF Keys
  <2> QED  BY <2>1, <2>2 DEF NotAText
<1>2. CASE named = {}
  <2>1. NoneNamed(written, key, Len(written))
    BY <1>2 DEF NoneNamed
  <2>2. FindKey(json, key) = 0
    BY <1>1, <2>1, UnnamedNotFound
  <2>3. ReadJsonString(json, key, default) = default
    BY <2>2, Zenon DEF ReadJsonString
  <2>4. ReadJsonInt(json, key, default) = default
    BY <2>2, Zenon DEF ReadJsonInt
  <2> QED  BY <1>0, <1>2, <2>3, <2>4, Zenon DEF Setting
<1>3. CASE named # {}
  <2> PICK i : i = Min(named)
    OBVIOUS
  <2>1. named \subseteq Nat
    OBVIOUS
  <2>2. i \in named /\ \A j \in named : i <= j
    <3> HIDE DEF named
    <3> QED  BY <1>3, <2>1, HasLeast
  <2>3. i \in 1..Len(written) /\ i \in DOMAIN written /\ written[i].key = key
    BY <2>2
  <2>4. NoneNamed(written, key, i - 1)
    <3> SUFFICES ASSUME NEW j \in 1..(i - 1)
                 PROVE  written[j].key # key
      BY DEF NoneNamed
    <3>1. j \in DOMAIN written /\ ~(i <= j)
      BY <2>3
    <3> QED  BY <2>2, <3>1
  <2> PICK p : p = KeyAt(written, i)
    OBVIOUS
  <2> PICK m : m = written[i]
    OBVIOUS
  <2>5. FindKey(json, m.key) = p /\ m.key = key
    BY <1>1, <2>3, <2>4, NamedFound
  <2>6. IsAt(json, p, m)
    BY <2>3, MemberAt
  <2>7. IsMember(T, m)
    BY <2>3 DEF HasMembers
  <2>8. value = m.value
    BY Zenon
  <2> HIDE DEF named, value
  <2>9. CASE key \in StringKeys
    <3>1. TextValue(m.value)
      BY <2>3, <2>9 DEF Expected
    <3>2. ReadJsonString(json, key, default) = m.value.text
      BY <1>1, <2>5, <2>6, <2>7, <3>1, TextRead
    <3> QED  BY <1>0, <1>3, <2>8, <2>9, <3>2, Zenon DEF Setting
  <2>10. CASE key \notin StringKeys /\ TextValue(m.value)
    <3>1. ReadJsonInt(json, key, default) = default
      <4>1. TextValue(m.value) /\ json \in Seq(FileOf(T)) /\ FindKey(json, m.key) = p
        BY <1>1, <2>5, <2>10
      <4>2. ReadJsonInt(json, m.key, default) = default
        BY ONLY <2>6, <2>7, <4>1, TextIsNoNumber
      <4> QED  BY <2>5, <4>2
    <3> QED  BY <1>0, <1>3, <2>8, <2>10, <3>1, Zenon DEF Setting
  <2>11. CASE key \notin StringKeys /\ ~TextValue(m.value)
    <3>1. ReadJsonInt(json, key, default) = CHOOSE n \in Stoi(m.value.text) : TRUE
      BY <1>1, <2>5, <2>6, <2>7, <2>11, NumberRead
    <3> QED  BY <1>0, <1>3, <2>8, <2>11, <3>1, Zenon DEF Setting
  <2> QED  BY <2>9, <2>10, <2>11
<1> QED  BY <1>2, <1>3

LEMMA DefaultsHaveKeys ==
  DOMAIN ServerDefaults \subseteq Keys /\ DOMAIN ClientDefaults \subseteq Keys
<1>1. DOMAIN ServerDefaults =
        {"bind_ip", "listen_port", "max_clients", "log_file", "stats_file"}
  BY DEF ServerDefaults
<1>2. DOMAIN ClientDefaults =
        {"server_ip", "server_port", "telemetry_file", "client_name", "send_interval_ms"}
  BY DEF ClientDefaults
<1> QED  BY <1>1, <1>2 DEF Keys, StringKeys, IntKeys

\* Every setting of both programs is read from a file of any number of members
\* in any order, whose texts hold any tokens but a quote or a key: the first
\* member with the key counts, what is missing or no number keeps its default
\* (Utils.cpp:18-67).
THEOREM SettingsAreRead ==
  ASSUME NEW T, NEW S, NEW written \in Seq(S), HasMembers(T, written)
  PROVE  ConfigReadsBack(written)
<1> SUFFICES ASSUME Expected(written)
             PROVE  /\ \A key \in DOMAIN ServerDefaults :
                         LoadServerConfig(Json(written))[key]
                           = Said(written, key, ServerDefaults[key])
                    /\ \A key \in DOMAIN ClientDefaults :
                         LoadClientConfig(Json(written))[key]
                           = Said(written, key, ClientDefaults[key])
  BY DEF ConfigReadsBack
<1> PICK json : json = Json(written)
  OBVIOUS
<1>1. ASSUME NEW defaults, NEW key \in DOMAIN defaults, key \in Keys
      PROVE  Load(json, defaults)[key] = Said(written, key, defaults[key])
  <2>1. Load(json, defaults)[key] = Setting(json, key, defaults[key])
    BY DEF Load, Setting
  <2>2. Setting(json, key, defaults[key]) = Said(written, key, defaults[key])
    BY <1>1, SettingRead
  <2> QED  BY <2>1, <2>2
<1> PICK server : server = ServerDefaults
  OBVIOUS
<1> PICK client : client = ClientDefaults
  OBVIOUS
<1>2. LoadServerConfig(json) = Load(json, server) /\ LoadClientConfig(json) = Load(json, client)
  BY Zenon DEF LoadServerConfig, LoadClientConfig
<1>3. DOMAIN server \subseteq Keys /\ DOMAIN client \subseteq Keys
  BY DefaultsHaveKeys
<1>4. \A key \in DOMAIN server : Load(json, server)[key] = Said(written, key, server[key])
  BY <1>1, <1>3
<1>5. \A key \in DOMAIN client : Load(json, client)[key] = Said(written, key, client[key])
  BY <1>1, <1>3
<1> QED  BY <1>2, <1>4, <1>5, Zenon

LEMMA SomeDigits ==
  ASSUME NEW T, NEW text \in Seq(T), Len(text) > 0, text[1] \in Digits
  PROVE  LeadingDigits(text) # <<>>
<1> DEFINE Others == {i \in 1..Len(text) : text[i] \notin Digits}
<1>1. PICK n \in 1..Len(text) : DigitsUpTo(text, n)
  <2>1. CASE Others = {}
    <3>1. DigitsUpTo(text, Len(text)) /\ Len(text) \in 1..Len(text)
      BY <2>1 DEF DigitsUpTo
    <3> QED  BY <3>1
  <2>2. CASE Others # {}
    <3>1. Others \subseteq Nat
      OBVIOUS
    <3>2. PICK k \in Others : \A i \in Others : k <= i
      <4> HIDE DEF Others
      <4> QED  BY <2>2, <3>1, LeastNumber
    <3>3. k # 1
      BY <3>2
    <3>4. DigitsUpTo(text, k - 1) /\ k - 1 \in 1..Len(text)
      BY <3>2, <3>3 DEF DigitsUpTo
    <3> QED  BY <3>4
  <2> QED  BY <2>1, <2>2
<1>2. n \in 0..Len(text)
  OBVIOUS
<1>3. LeadingDigits(text) = SubSeq(text, 1, n) /\ Len(SubSeq(text, 1, n)) = n
  BY <1>1, <1>2, LeadingOf
<1>4. Len(LeadingDigits(text)) > 0
  BY <1>3
<1> QED  BY <1>4

-----------------------------------------------------------------------------
(* The run                                                                 *)

LEMMA FileIsText == MCSpec => [](file \in Seq(FileTokens))
<1>1. MCInit => file \in Seq(FileTokens)
  BY DEF MCInit
<1>2. file \in Seq(FileTokens) /\ [MCNext]_<<files, processorVars>> => (file \in Seq(FileTokens))'
  <2> SUFFICES ASSUME file \in Seq(FileTokens), [MCNext]_<<files, processorVars>>
               PROVE  file' \in Seq(FileTokens)
    OBVIOUS
  <2>1. ASSUME NEW token \in FileTokens, Write(token)
        PROVE  file' \in Seq(FileTokens)
    BY <2>1 DEF Write
  <2>2. ASSUME NEW key, NEW value, Configure(key, value)
        PROVE  file' = file
    BY <2>2 DEF Configure
  <2>3. CASE Sample
    BY <2>3 DEF Sample, files
  <2>4. CASE UNCHANGED <<files, processorVars>>
    BY <2>4 DEF files
  <2> QED  BY <2>1, <2>2, <2>3, <2>4 DEF MCNext
<1> QED  BY <1>1, <1>2, PTL DEF MCSpec

LEMMA PlainId == IsPlain(FileTokens, <<"w">>)
<1>1. "w" \in FileTokens
  BY Zenon DEF FileTokens
<1>2. "w" # Comma /\ "w" # Space /\ "w" # Newline
  BY Zenon DEF Comma, Space, Newline
<1> PICK word : word = <<"w">>
  OBVIOUS
<1>3. word \in Seq(FileTokens) /\ Len(word) = 1 /\ word[1] = "w"
  BY <1>1
<1> QED  BY <1>2, <1>3 DEF IsPlain, IsTrimmed, NoComma, Blanks

\* What the run of the inputs checks of the files of a few tokens, for files of
\* every length: the records read back, cut packets do no harm, and lines read
\* alike with their decoration.
THEOREM InputsReadBack == MCSpec => [](RecordsReadBack /\ CutPacketsHarmless /\ LinesReadAlike)
<1>1. file \in Seq(FileTokens) => RecordsReadBack
  BY PlainId, RecordsSurviveTheWire DEF RecordsReadBack
<1>2. file \in Seq(FileTokens) => CutPacketsHarmless
  BY PlainId, CutsAreRefusedOrSmaller DEF CutPacketsHarmless
<1>3. file \in Seq(FileTokens) => LinesReadAlike
  <2> SUFFICES ASSUME file \in Seq(FileTokens), NEW i \in DOMAIN Lines(file)
               PROVE  DecorationIgnored(Lines(file)[i], <<"w">>)
    BY DEF LinesReadAlike
  <2>1. Lines(file)[i] \in Seq(FileTokens)
    BY FieldType DEF Lines
  <2> QED  BY <2>1, DecorationNeverMatters
<1> QED  BY <1>1, <1>2, <1>3, FileIsText, PTL

LEMMA ValuesAreMembers ==
  ASSUME NEW key \in Keys, NEW value \in MCValues
  PROVE  IsMember({"x", Colon, Comma, CloseBrace, "7", "max_clients", "0", Minus},
                  [key |-> key, value |-> value])
<1> PICK T : T = {"x", Colon, Comma, CloseBrace, "7", "max_clients", "0", Minus}
  OBVIOUS
<1> PICK m : m = [key |-> key, value |-> value]
  OBVIOUS
<1>1. /\ "x" \in T /\ Colon \in T /\ Comma \in T /\ CloseBrace \in T /\ "7" \in T
      /\ "max_clients" \in T /\ "0" \in T /\ Minus \in T
  OBVIOUS
<1>2. m.key = key /\ m.value = value
  OBVIOUS
<1> PICK text : text = value.text
  OBVIOUS
<1>3. CASE value \in [kind : {"text"}, text : {<<>>, <<"x", Colon, Comma, CloseBrace>>, <<"7">>,
                                               <<"max_clients">>}]
  <2>1. TextValue(value)
    BY <1>3 DEF TextValue
  <2>2. \A token \in {"x", "7", "max_clients"} : token # Quote
    BY Zenon DEF Quote
  <2>3. \/ text = <<>> \/ text = <<"x", Colon, Comma, CloseBrace>> \/ text = <<"7">>
        \/ text = <<"max_clients">>
    BY <1>3
  <2>4. text \in Seq(T) /\ \A i \in 1..Len(text) : text[i] # Quote
    <3>1. CASE text = <<>>
      BY <3>1
    <3>2. CASE text = <<"x", Colon, Comma, CloseBrace>>
      <4>1. text \in Seq(T) /\ Len(text) = 4
        BY ONLY <1>1, <3>2
      <4>2. text[1] = "x" /\ text[2] = Colon /\ text[3] = Comma /\ text[4] = CloseBrace
        BY ONLY <3>2
      <4>3. \A i \in 1..4 : i = 1 \/ i = 2 \/ i = 3 \/ i = 4
        OBVIOUS
      <4>4. Colon # Quote /\ Comma # Quote /\ CloseBrace # Quote /\ "x" # Quote
        BY <2>2, LayoutDiffers
      <4> QED  BY ONLY <4>1, <4>2, <4>3, <4>4
    <3>3. CASE text = <<"7">>
      BY <1>1, <2>2, <3>3
    <3>4. CASE text = <<"max_clients">>
      BY <1>1, <2>2, <3>4
    <3> QED  BY <2>3, <3>1, <3>2, <3>3, <3>4
  <2> QED  BY <1>2, <2>1, <2>4 DEF IsMember
<1>4. CASE value \in [kind : {"number"}, text : {<<"7", "0">>, <<Minus, "7">>}]
  <2>1. ~TextValue(value)
    BY <1>4 DEF TextValue
  <2>2. "7" \in Digits /\ "0" \in Digits /\ "7" # Minus
    <3>1. Digit(7) \in Digits /\ Digit(0) \in Digits
      BY DEF Digits
    <3>2. "7" # Minus
      BY Zenon DEF Minus
    <3> QED  BY <3>1, <3>2, TenDigits
  <2>3. \A token \in {"7", "0", Minus} :
          token \notin Blanks /\ token \notin {Comma, CloseBrace, Newline}
    <3>1. "7" # Space /\ "7" # Newline /\ "7" # Comma /\ "7" # CloseBrace
      BY Zenon DEF Space, Newline, Comma, CloseBrace
    <3>2. "0" # Space /\ "0" # Newline /\ "0" # Comma /\ "0" # CloseBrace
      BY Zenon DEF Space, Newline, Comma, CloseBrace
    <3>3. Minus # Space /\ Minus # Newline /\ Minus # Comma /\ Minus # CloseBrace
      BY Zenon DEF Space, Newline, Comma, CloseBrace, Minus
    <3> QED  BY <3>1, <3>2, <3>3 DEF Blanks
  <2>4. text = <<"7", "0">> \/ text = <<Minus, "7">>
    BY <1>4
  <2>5. /\ text \in Seq(T) /\ Len(text) = 2
        /\ \/ text[1] = "7" /\ text[2] = "0"
           \/ text[1] = Minus /\ text[2] = "7"
    <3>1. CASE text = <<"7", "0">>
      BY ONLY <1>1, <3>1
    <3>2. CASE text = <<Minus, "7">>
      BY ONLY <1>1, <3>2
    <3> QED  BY <2>4, <3>1, <3>2
  <2>6. IsTrimmed(text)
    BY <2>3, <2>5 DEF IsTrimmed
  <2>7. \A i \in 1..Len(text) : text[i] \notin {Comma, CloseBrace, Newline}
    <3>1. \A i \in 1..2 : i = 1 \/ i = 2
      OBVIOUS
    <3> QED  BY <2>3, <2>5, <3>1
  <2>8. Stoi(text) # {}
    <3> PICK body : body = Unsigned(text)
      OBVIOUS
    <3>1. body \in Seq(T) /\ Len(body) > 0 /\ body[1] \in Digits
      <4>1. CASE text[1] = "7"
        BY <2>2, <2>5, <4>1 DEF Unsigned, Negative
      <4>2. CASE text[1] = Minus /\ text[2] = "7"
        <5>1. body = Tail(text)
          BY <2>5, <4>2 DEF Unsigned, Negative
        <5> QED  BY <2>2, <2>5, <4>2, <5>1
      <4> QED  BY <2>5, <4>1, <4>2
    <3>2. LeadingDigits(body) # <<>>
      BY <3>1, SomeDigits
    <3> QED  BY <3>2, Zenon DEF Stoi
  <2> QED  BY <1>2, <2>1, <2>5, <2>6, <2>7, <2>8 DEF IsMember, IsNumber
<1>5. IsMember(T, m)
  BY <1>3, <1>4, Zenon DEF MCValues
<1> QED  BY <1>5, Zenon

LEMMA MembersAreWritten == MCSpec => [](members \in Seq([key : Keys, value : MCValues]))
<1> DEFINE S == [key : Keys, value : MCValues]
<1> HIDE DEF S
<1>1. MCInit => members \in Seq(S)
  BY DEF MCInit
<1>2. members \in Seq(S) /\ [MCNext]_<<files, processorVars>> => (members \in Seq(S))'
  <2> SUFFICES ASSUME members \in Seq(S), [MCNext]_<<files, processorVars>>
               PROVE  members' \in Seq(S)
    BY DEF S
  <2>1. ASSUME NEW token, Write(token)
        PROVE  members' = members
    BY <2>1 DEF Write
  <2>2. ASSUME NEW key \in StringKeys \cup IntKeys, NEW value \in MCValues, Configure(key, value)
        PROVE  members' \in Seq(S)
    <3> PICK m : m = [key |-> key, value |-> value]
      OBVIOUS
    <3>1. m \in S
      BY DEF S, Keys
    <3>2. members' = Append(members, m)
      BY <2>2 DEF Configure
    <3> QED  BY <3>1, <3>2
  <2>3. CASE Sample
    BY <2>3 DEF Sample, files
  <2>4. CASE UNCHANGED <<files, processorVars>>
    BY <2>4 DEF files
  <2> QED  BY <2>1, <2>2, <2>3, <2>4 DEF MCNext
<1>3. MCSpec => [](members \in Seq(S))
  BY <1>1, <1>2, PTL DEF MCSpec
<1> QED  BY <1>3 DEF S

\* What the run of the inputs checks of the files of a few members, for files of
\* any number of them.
THEOREM ConfigurationsReadBack == MCSpec => []SettingsReadBack
<1>1. members \in Seq([key : Keys, value : MCValues]) => SettingsReadBack
  <2> SUFFICES ASSUME members \in Seq([key : Keys, value : MCValues])
               PROVE  ConfigReadsBack(members)
    BY DEF SettingsReadBack
  <2> PICK written : written = members
    OBVIOUS
  <2> PICK S : S = [key : Keys, value : MCValues]
    OBVIOUS
  <2> PICK T : T = {"x", Colon, Comma, CloseBrace, "7", "max_clients", "0", Minus}
    OBVIOUS
  <2>1. written \in Seq(S)
    OBVIOUS
  <2>2. ASSUME NEW i \in 1..Len(written)
        PROVE  IsMember(T, written[i])
    <3>1. written[i] \in S
      BY ONLY <2>1, i \in 1..Len(written)
    <3>2. PICK key \in Keys, value \in MCValues : written[i] = [key |-> key, value |-> value]
      BY <3>1
    <3> QED  BY <3>2, ValuesAreMembers
  <2>3. HasMembers(T, written)
    BY <2>2 DEF HasMembers
  <2>4. ConfigReadsBack(written)
    BY <2>1, <2>3, SettingsAreRead
  <2> QED  BY <2>4
<1> QED  BY <1>1, MembersAreWritten, PTL
=============================================================================
