--------------------------- MODULE MarkdownProofs ---------------------------
(***************************************************************************)
(* What is said in a document and in its markdown form: for any slots and  *)
(* any text, writing and reading keep every word, and what markdown can    *)
(* hold comes back from it line by line.                                   *)
(***************************************************************************)
EXTENDS Markdown, FiniteSetTheorems, SequenceTheorems, TLAPS

-----------------------------------------------------------------------------
(* Sequences.                                                              *)

\* A set of naturals that is not empty has a least member.
LEMMA LeastExists ==
  ASSUME NEW S \in SUBSET Nat, S # {}
  PROVE  \E n \in S : \A m \in S : n <= m
<1>1. PICK n \in S : \A m \in S : ~(<<m, n>> \in OpToRel(<, Nat))
  BY WFMin, NatLessThanWellFounded
<1>2. ASSUME NEW m \in S PROVE n <= m
  <2>1. ~(m < n)
    BY <1>1 DEF OpToRel
  <2> QED
    BY <2>1
<1> QED
  BY <1>2

\* Induction, as a fact about sets of naturals.
LEMMA SetInduction ==
  ASSUME NEW N \in SUBSET Nat, 0 \in N, \A n \in N : n + 1 \in N
  PROVE  N = Nat
<1> SUFFICES ASSUME Nat \ N # {} PROVE FALSE
  OBVIOUS
<1>1. PICK n \in Nat \ N : \A m \in Nat \ N : n <= m
  <2>1. Nat \ N \in SUBSET Nat
    OBVIOUS
  <2> QED
    BY <2>1, LeastExists
<1>2. n - 1 \in Nat /\ n - 1 < n /\ (n - 1) + 1 = n
  OBVIOUS
<1>3. n - 1 \in N
  BY <1>1, <1>2
<1> QED
  BY <1>2, <1>3

\* The least of a set of naturals, ...
LEMMA MinIs ==
  ASSUME NEW S \in SUBSET Nat, S # {}
  PROVE  Min(S) \in S /\ \A i \in S : Min(S) <= i
<1>1. \E n \in S : \A m \in S : n <= m
  BY LeastExists
<1> QED
  BY <1>1 DEF Min

\* ... and the largest of a set of places.
LEMMA MaxIs ==
  ASSUME NEW n \in Nat, NEW S \in SUBSET (1..n), S # {}
  PROVE  Max(S) \in S /\ \A i \in S : i <= Max(S)
<1>1. {n - i : i \in S} \in SUBSET Nat /\ {n - i : i \in S} # {}
  <2>1. \A i \in S : n - i \in Nat
    OBVIOUS
  <2> QED
    BY <2>1
<1>2. PICK d \in {n - i : i \in S} : \A m \in {n - i : i \in S} : d <= m
  BY <1>1, LeastExists
<1>3. PICK x \in S : d = n - x
  BY <1>2
<1>4. ASSUME NEW i \in S PROVE x >= i
  <2>1. d <= n - i
    BY <1>2
  <2> QED
    BY <1>3, <2>1
<1> QED
  BY <1>4 DEF Max

\* What is in a sequence.
LEMMA Members ==
  ASSUME NEW S, NEW s \in Seq(S)
  PROVE  /\ DOMAIN s = 1..Len(s) /\ Len(s) \in Nat /\ ToSet(s) \subseteq S
         /\ \A x : x \in ToSet(s) <=> \E i \in 1..Len(s) : s[i] = x
  BY DEF ToSet

\* What is in one after the other.
LEMMA ConcatMembers ==
  ASSUME NEW S, NEW s \in Seq(S), NEW t \in Seq(S)
  PROVE  /\ s \o t \in Seq(S) /\ Len(s \o t) = Len(s) + Len(t)
         /\ ToSet(s \o t) = ToSet(s) \cup ToSet(t)
<1>1. /\ s \o t \in Seq(S) /\ Len(s \o t) = Len(s) + Len(t)
      /\ \A i \in 1..Len(s) : (s \o t)[i] = s[i]
      /\ \A i \in 1..Len(t) : (s \o t)[Len(s) + i] = t[i]
  OBVIOUS
<1>2. ASSUME NEW x \in ToSet(s) PROVE x \in ToSet(s \o t)
  <2>1. PICK i \in 1..Len(s) : s[i] = x
    BY Members
  <2>2. i \in 1..Len(s \o t) /\ (s \o t)[i] = x
    BY <1>1, <2>1, Members
  <2> QED
    BY <1>1, <2>2, Members
<1>3. ASSUME NEW x \in ToSet(t) PROVE x \in ToSet(s \o t)
  <2>1. PICK i \in 1..Len(t) : t[i] = x
    BY Members
  <2>2. Len(s) + i \in 1..Len(s \o t) /\ (s \o t)[Len(s) + i] = x
    BY <1>1, <2>1
  <2> QED
    BY <1>1, <2>2, Members
<1>4. ASSUME NEW x \in ToSet(s \o t) PROVE x \in ToSet(s) \cup ToSet(t)
  <2>1. PICK i \in 1..Len(s \o t) : (s \o t)[i] = x
    BY <1>1, Members
  <2>2. CASE i <= Len(s)
    <3>1. i \in 1..Len(s) /\ s[i] = x
      BY <1>1, <2>1, <2>2
    <3> QED
      BY <3>1, Members
  <2>3. CASE i > Len(s)
    <3>1. i - Len(s) \in 1..Len(t) /\ i = Len(s) + (i - Len(s))
      BY <1>1, <2>3
    <3>2. t[i - Len(s)] = x
      BY <1>1, <2>1, <3>1
    <3> QED
      BY <3>1, <3>2, Members
  <2> QED
    BY <2>2, <2>3, <1>1
<1> QED
  BY <1>1, <1>2, <1>3, <1>4

\* Where the lines of two texts are.
LEMMA ConcatPlaces ==
  ASSUME NEW S, NEW s \in Seq(S), NEW t \in Seq(S)
  PROVE  /\ s \o t \in Seq(S) /\ Len(s \o t) = Len(s) + Len(t)
         /\ Len(s) \in Nat /\ Len(t) \in Nat
         /\ \A i \in 1..Len(s) : (s \o t)[i] = s[i]
         /\ \A i \in 1..Len(t) : (s \o t)[Len(s) + i] = t[i]
  OBVIOUS

\* One after the other, however they are put in brackets.
LEMMA Regroup ==
  ASSUME NEW S, NEW p \in Seq(S), NEW q \in Seq(S), NEW r \in Seq(S)
  PROVE  p \o (q \o r) = (p \o q) \o r
  BY ConcatAssociative

\* What is in one more.
LEMMA AppendMembers ==
  ASSUME NEW S, NEW s \in Seq(S), NEW x \in S
  PROVE  /\ Append(s, x) \in Seq(S) /\ Len(Append(s, x)) = Len(s) + 1
         /\ ToSet(Append(s, x)) = ToSet(s) \cup {x}
<1>1. Append(s, x) = s \o <<x>> /\ <<x>> \in Seq(S) /\ Len(<<x>>) = 1
  OBVIOUS
<1>2. ToSet(<<x>>) = {x}
  BY DEF ToSet
<1>3. /\ s \o <<x>> \in Seq(S) /\ Len(s \o <<x>>) = Len(s) + Len(<<x>>)
      /\ ToSet(s \o <<x>>) = ToSet(s) \cup ToSet(<<x>>)
  BY <1>1, ConcatMembers
<1> QED
  BY <1>1, <1>2, <1>3

\* What is in a part.
LEMMA PartMembers ==
  ASSUME NEW S, NEW s \in Seq(S), NEW a \in Nat, NEW b \in Nat, 1 <= a, a <= b + 1, b <= Len(s)
  PROVE  /\ SubSeq(s, a, b) \in Seq(S) /\ Len(SubSeq(s, a, b)) = b - a + 1
         /\ \A i \in 1..(b - a + 1) : SubSeq(s, a, b)[i] = s[a + i - 1]
         /\ \A x : x \in ToSet(SubSeq(s, a, b)) <=> \E i \in a..b : s[i] = x
<1>1. /\ SubSeq(s, a, b) \in Seq(S) /\ Len(SubSeq(s, a, b)) = b - a + 1
      /\ \A i \in 1..(b - a + 1) : SubSeq(s, a, b)[i] = s[a + i - 1]
  OBVIOUS
<1>2. ASSUME NEW i \in a..b PROVE s[i] \in ToSet(SubSeq(s, a, b))
  <2>1. i - a + 1 \in 1..(b - a + 1) /\ i = a + (i - a + 1) - 1
    OBVIOUS
  <2>2. SubSeq(s, a, b)[i - a + 1] = s[i]
    BY <1>1, <2>1
  <2> QED
    BY <1>1, <2>1, <2>2, Members
<1>3. ASSUME NEW x \in ToSet(SubSeq(s, a, b)) PROVE \E i \in a..b : s[i] = x
  <2>1. PICK i \in 1..(b - a + 1) : SubSeq(s, a, b)[i] = x
    BY <1>1, Members
  <2>2. a + i - 1 \in a..b
    BY <2>1
  <2> QED
    BY <1>1, <2>1, <2>2
<1> QED
  BY <1>1, <1>2, <1>3

-----------------------------------------------------------------------------
(* Concatenating many, as Filter of Resolver a recursive function: it is   *)
(* the only function that satisfies its definition.                        *)

\* The first n of a sequence of sequences, one after the other.
Flat(f, ss, n) == f = [i \in 1..n |-> IF i = 1 THEN ss[i] ELSE f[i - 1] \o ss[i]]

\* The function FlattenSeq is defined by.
LEMMA FlatExists ==
  ASSUME NEW S, NEW ss \in Seq(Seq(S)), NEW n \in Nat, n <= Len(ss)
  PROVE  \E f : Flat(f, ss, n)
<1>DEFINE N == {k \in Nat : k <= Len(ss) => \E f : Flat(f, ss, k)}
<1>1. 0 \in N
  <2>1. Flat(<<>>, ss, 0)
    BY DEF Flat
  <2> QED
    BY <2>1
<1>2. ASSUME NEW k \in N PROVE k + 1 \in N
  <2> SUFFICES ASSUME k + 1 <= Len(ss) PROVE \E f : Flat(f, ss, k + 1)
    OBVIOUS
  <2>1. PICK f : Flat(f, ss, k)
    OBVIOUS
  <2>DEFINE new == IF k = 0 THEN ss[1] ELSE f[k] \o ss[k + 1]
            g == [i \in 1..(k + 1) |-> IF i <= k THEN f[i] ELSE new]
  <2>2. ASSUME NEW i \in 1..(k + 1)
        PROVE  g[i] = IF i = 1 THEN ss[i] ELSE g[i - 1] \o ss[i]
    <3>1. CASE i <= k
      <4>1. i \in 1..k /\ g[i] = f[i] /\ (i # 1 => i - 1 \in 1..(k + 1) /\ g[i - 1] = f[i - 1])
        BY <3>1
      <4>2. f[i] = IF i = 1 THEN ss[i] ELSE f[i - 1] \o ss[i]
        BY <2>1, <4>1 DEF Flat
      <4> QED
        BY <4>1, <4>2
    <3>2. CASE i = k + 1
      <4>1. g[i] = new
        BY <3>2
      <4>2. CASE k = 0
        BY <3>2, <4>1, <4>2
      <4>3. CASE k # 0
        <5>1. i # 1 /\ i - 1 = k /\ k \in 1..(k + 1) /\ g[k] = f[k]
          BY <3>2, <4>3
        <5> QED
          BY <3>2, <4>1, <4>3, <5>1
      <4> QED
        BY <4>2, <4>3
    <3> QED
      BY <3>1, <3>2
  <2>3. g = [i \in 1..(k + 1) |-> IF i = 1 THEN ss[i] ELSE g[i - 1] \o ss[i]]
    BY <2>2
  <2> QED
    BY <2>3 DEF Flat
<1> HIDE DEF N
<1>3. N = Nat
  <2>1. N \in SUBSET Nat
    BY DEF N
  <2> QED
    BY <1>1, <1>2, <2>1, SetInduction
<1> QED
  BY <1>3 DEF N

\* What such a function gives.
LEMMA FlatMembers ==
  ASSUME NEW S, NEW ss \in Seq(Seq(S)), NEW f, Flat(f, ss, Len(ss)), NEW n \in 1..Len(ss)
  PROVE  f[n] \in Seq(S) /\ \A x : x \in ToSet(f[n]) <=> \E i \in 1..n : x \in ToSet(ss[i])
<1>DEFINE P(k) == f[k] \in Seq(S) /\ \A x : x \in ToSet(f[k]) <=> \E i \in 1..k : x \in ToSet(ss[i])
          N == {k \in Nat : k \in 1..Len(ss) => P(k)}
<1>0. Len(ss) \in Nat /\ \A i \in 1..Len(ss) : ss[i] \in Seq(S)
  OBVIOUS
<1>1. 0 \in N
  OBVIOUS
<1>2. ASSUME NEW k \in N PROVE k + 1 \in N
  <2> SUFFICES ASSUME k + 1 \in 1..Len(ss) PROVE P(k + 1)
    OBVIOUS
  <2>1. f[k + 1] = IF k + 1 = 1 THEN ss[k + 1] ELSE f[(k + 1) - 1] \o ss[k + 1]
    BY DEF Flat
  <2>2. CASE k = 0
    <3>1. f[1] = ss[1] /\ k + 1 = 1
      BY <2>1, <2>2
    <3>2. \A i \in 1..1 : i = 1
      OBVIOUS
    <3> QED
      BY <1>0, <3>1, <3>2
  <2>3. CASE k # 0
    <3>1. P(k) /\ f[k + 1] = f[k] \o ss[k + 1]
      <4>1. k \in 1..Len(ss) /\ k + 1 # 1 /\ (k + 1) - 1 = k
        BY <1>0, <2>3
      <4> QED
        BY <2>1, <4>1
    <3>2. f[k + 1] \in Seq(S) /\ ToSet(f[k + 1]) = ToSet(f[k]) \cup ToSet(ss[k + 1])
      BY <1>0, <3>1, ConcatMembers
    <3>3. ASSUME NEW x, x \in ToSet(f[k + 1]) PROVE \E i \in 1..(k + 1) : x \in ToSet(ss[i])
      <4>1. k + 1 \in 1..(k + 1) /\ \A i \in 1..k : i \in 1..(k + 1)
        OBVIOUS
      <4> QED
        BY <3>1, <3>2, <3>3, <4>1
    <3>4. ASSUME NEW x, NEW i \in 1..(k + 1), x \in ToSet(ss[i]) PROVE x \in ToSet(f[k + 1])
      <4>1. i \in 1..k \/ i = k + 1
        OBVIOUS
      <4> QED
        BY <3>1, <3>2, <3>4, <4>1
    <3> QED
      BY <3>2, <3>3, <3>4
  <2> QED
    BY <2>2, <2>3
<1> HIDE DEF N
<1>3. N = Nat
  <2>1. N \in SUBSET Nat
    BY DEF N
  <2> QED
    BY <1>1, <1>2, <2>1, SetInduction
<1>4. n \in N
  BY <1>3
<1> QED
  BY <1>4 DEF N

\* Concatenation keeps what is there.
LEMMA Flattened ==
  ASSUME NEW S, NEW ss \in Seq(Seq(S))
  PROVE  /\ FlattenSeq(ss) \in Seq(S)
         /\ \A x : x \in ToSet(FlattenSeq(ss)) <=> \E i \in 1..Len(ss) : x \in ToSet(ss[i])
<1>0. Len(ss) \in Nat
  OBVIOUS
<1>1. CASE Len(ss) = 0
  <2>1. FlattenSeq(ss) = ss /\ ss = <<>>
    BY <1>1 DEF FlattenSeq
  <2>2. ToSet(<<>>) = {} /\ 1..0 = {}
    BY DEF ToSet
  <2> QED
    BY <1>1, <2>1, <2>2
<1>2. CASE Len(ss) # 0
  <2>DEFINE f == CHOOSE g : g = [i \in 1..Len(ss) |-> IF i = 1 THEN ss[i] ELSE g[i - 1] \o ss[i]]
  <2>1. FlattenSeq(ss) = f[Len(ss)]
    BY <1>2 DEF FlattenSeq
  <2>2. \E g : g = [i \in 1..Len(ss) |-> IF i = 1 THEN ss[i] ELSE g[i - 1] \o ss[i]]
    <3>1. \E g : Flat(g, ss, Len(ss))
      BY <1>0, FlatExists
    <3> QED
      BY <3>1 DEF Flat
  <2>3. Flat(f, ss, Len(ss))
    BY <2>2 DEF Flat
  <2>4. Len(ss) \in 1..Len(ss)
    BY <1>0, <1>2
  <2> HIDE DEF f
  <2>5. f[Len(ss)] \in Seq(S) /\ \A x : x \in ToSet(f[Len(ss)]) <=> \E i \in 1..Len(ss) : x \in ToSet(ss[i])
    BY <2>3, <2>4, FlatMembers
  <2> QED
    BY <2>1, <2>5
<1> QED
  BY <1>1, <1>2

-----------------------------------------------------------------------------
(* Words in lines and texts.  Trimming takes spaces away, and those are    *)
(* nobody's words.                                                         *)

\* The words of a text are those of its lines.
LEMMA TextSays ==
  ASSUME NEW text \in Seq(Line)
  PROVE  \A w : w \in WordsOf(text) <=> w \notin Marks /\ \E i \in 1..Len(text) : w \in ToSet(text[i])
<1>DEFINE U == UNION {ToSet(text[i]) : i \in DOMAIN text}
<1>1. DOMAIN text = 1..Len(text)
  OBVIOUS
<1>2. \A w : w \in U <=> \E i \in 1..Len(text) : w \in ToSet(text[i])
  BY <1>1
<1>3. WordsOf(text) = U \ Marks
  BY DEF WordsOf
<1> HIDE DEF U
<1> QED
  BY <1>2, <1>3

\* The words of some lines, as a set of lines.
LEMMA LinesSay ==
  ASSUME NEW text \in Seq(Line)
  PROVE  \A w : w \in WordsOf(text) <=> w \notin Marks /\ \E l \in ToSet(text) : w \in ToSet(l)
<1>1. \A l : l \in ToSet(text) <=> \E i \in 1..Len(text) : text[i] = l
  BY Members
<1> QED
  BY <1>1, TextSays

\* Texts say what their parts do.
LEMMA ConcatSays ==
  ASSUME NEW s \in Seq(Line), NEW t \in Seq(Line)
  PROVE  s \o t \in Seq(Line) /\ WordsOf(s \o t) = WordsOf(s) \cup WordsOf(t)
<1>1. s \o t \in Seq(Line) /\ ToSet(s \o t) = ToSet(s) \cup ToSet(t)
  BY ConcatMembers
<1> QED
  BY <1>1, LinesSay

\* One line.
LEMMA LineSays ==
  ASSUME NEW line \in Line
  PROVE  <<line>> \in Text /\ WordsOf(<<line>>) = ToSet(line) \ Marks
<1>1. <<line>> \in Seq(Line) /\ Len(<<line>>) = 1 /\ <<line>>[1] = line /\ <<line>> # <<>>
  OBVIOUS
<1>2. \A w : w \in WordsOf(<<line>>) <=> w \notin Marks /\ \E i \in 1..1 : w \in ToSet(<<line>>[i])
  BY <1>1, TextSays
<1> QED
  BY <1>1, <1>2 DEF Text

\* Nothing is said by nothing.
LEMMA NothingSays ==
  /\ <<>> \in Line /\ ToSet(<<>>) = {}
  /\ EmptyText \in Text /\ WordsOf(EmptyText) = {} /\ WordsOf(<<>>) = {}
<1>1. <<>> \in Line /\ ToSet(<<>>) = {}
  BY DEF Line, ToSet
<1>2. EmptyText \in Text /\ WordsOf(EmptyText) = {}
  BY <1>1, LineSays DEF EmptyText
<1> QED
  BY <1>1, <1>2 DEF WordsOf

\* A text is one line and others.
LEMMA HeadAndTail ==
  ASSUME NEW text \in Text
  PROVE  /\ Head(text) \in Line /\ Tail(text) \in Seq(Line)
         /\ WordsOf(text) = (ToSet(Head(text)) \ Marks) \cup WordsOf(Tail(text))
<1>1. text \in Seq(Line) /\ text # <<>>
  BY DEF Text
<1>2. Head(text) \in Line /\ Tail(text) \in Seq(Line) /\ text = <<Head(text)>> \o Tail(text)
  BY <1>1
<1>3. <<Head(text)>> \in Seq(Line) /\ WordsOf(<<Head(text)>>) = ToSet(Head(text)) \ Marks
  BY <1>2, LineSays DEF Text
<1> QED
  BY <1>2, <1>3, ConcatSays

\* A line of spaces has no word.
LEMMA BlanksSay ==
  ASSUME NEW line, BlankLine(line)
  PROVE  ToSet(line) \ Marks = {}
  BY DEF BlankLine, Marks

\* From the first place to the last that a set has.
LEMMA BetweenPlaces ==
  ASSUME NEW S, NEW s \in Seq(S), NEW P \in SUBSET (1..Len(s)), P # {}
  PROVE  /\ Min(P) \in 1..Len(s) /\ Max(P) \in 1..Len(s) /\ Min(P) <= Max(P)
         /\ P \subseteq Min(P)..Max(P)
         /\ SubSeq(s, Min(P), Max(P)) \in Seq(S) /\ SubSeq(s, Min(P), Max(P)) # <<>>
         /\ ToSet(SubSeq(s, Min(P), Max(P))) \subseteq ToSet(s)
         /\ \A i \in P : s[i] \in ToSet(SubSeq(s, Min(P), Max(P)))
<1>0. Len(s) \in Nat /\ P \in SUBSET Nat
  OBVIOUS
<1>1. Min(P) \in P /\ \A i \in P : Min(P) <= i
  BY <1>0, MinIs
<1>2. Max(P) \in P /\ \A i \in P : i <= Max(P)
  BY <1>0, MaxIs
<1>3. /\ Min(P) \in 1..Len(s) /\ Max(P) \in 1..Len(s) /\ Min(P) <= Max(P)
      /\ P \subseteq Min(P)..Max(P)
  <2>1. Min(P) \in Nat /\ Max(P) \in Nat /\ Min(P) <= Max(P)
    BY <1>0, <1>1, <1>2
  <2>2. \A i \in P : i \in Nat /\ Min(P) <= i /\ i <= Max(P)
    BY <1>0, <1>1, <1>2
  <2> QED
    BY <1>1, <1>2, <2>1, <2>2
<1>4. /\ Min(P) \in Nat /\ Max(P) \in Nat /\ 1 <= Min(P) /\ Min(P) <= Max(P) + 1 /\ Max(P) <= Len(s)
  BY <1>0, <1>3
<1>5. /\ SubSeq(s, Min(P), Max(P)) \in Seq(S) /\ Len(SubSeq(s, Min(P), Max(P))) = Max(P) - Min(P) + 1
      /\ \A x : x \in ToSet(SubSeq(s, Min(P), Max(P))) <=> \E i \in Min(P)..Max(P) : s[i] = x
  BY <1>4, PartMembers
<1>6. SubSeq(s, Min(P), Max(P)) # <<>>
  <2>1. Len(SubSeq(s, Min(P), Max(P))) # 0
    BY <1>3, <1>4, <1>5
  <2>2. Len(<<>>) = 0
    OBVIOUS
  <2> QED
    BY <2>1, <2>2
<1>7. \A i \in Min(P)..Max(P) : i \in 1..Len(s)
  BY <1>0, <1>3
<1>8. ASSUME NEW x \in ToSet(SubSeq(s, Min(P), Max(P))) PROVE x \in ToSet(s)
  BY <1>5, <1>7, Members
<1> QED
  BY <1>3, <1>5, <1>6, <1>8

\* strings.TrimSpace of a line.
LEMMA TrimLineSays ==
  ASSUME NEW line \in Line
  PROVE  /\ TrimLine(line) \in Line
         /\ ToSet(TrimLine(line)) \subseteq ToSet(line)
         /\ ToSet(TrimLine(line)) \ Marks = ToSet(line) \ Marks
<1>DEFINE solid == {i \in DOMAIN line : line[i] \notin Spaces}
<1>0. line \in Seq(Piece) /\ DOMAIN line = 1..Len(line)
  BY DEF Line
<1>1. TrimLine(line) = IF solid = {} THEN <<>> ELSE SubSeq(line, Min(solid), Max(solid))
  BY DEF TrimLine
<1>2. solid \in SUBSET (1..Len(line)) /\ \A i \in 1..Len(line) : line[i] \notin Marks => i \in solid
  BY <1>0 DEF Marks
<1>3. \A x : x \in ToSet(line) <=> \E i \in 1..Len(line) : line[i] = x
  BY <1>0, Members
<1> HIDE DEF solid
<1>4. CASE solid = {}
  <2>1. TrimLine(line) = <<>> /\ ToSet(line) \ Marks = {}
    BY <1>1, <1>2, <1>3, <1>4
  <2> QED
    BY <2>1, NothingSays
<1>5. CASE solid # {}
  <2>1. /\ TrimLine(line) \in Seq(Piece) /\ ToSet(TrimLine(line)) \subseteq ToSet(line)
        /\ \A i \in solid : line[i] \in ToSet(TrimLine(line))
    BY <1>0, <1>1, <1>2, <1>5, BetweenPlaces
  <2> QED
    BY <1>2, <1>3, <2>1 DEF Line
<1> QED
  BY <1>4, <1>5

\* strings.Trim(s, "\n").
LEMMA TrimNewlinesSays ==
  ASSUME NEW text \in Text
  PROVE  TrimNewlines(text) \in Text /\ WordsOf(TrimNewlines(text)) = WordsOf(text)
<1>DEFINE full == {i \in DOMAIN text : text[i] # <<>>}
<1>0. text \in Seq(Line) /\ DOMAIN text = 1..Len(text)
  BY DEF Text
<1>1. TrimNewlines(text) = IF full = {} THEN EmptyText ELSE SubSeq(text, Min(full), Max(full))
  BY DEF TrimNewlines
<1>2. full \in SUBSET (1..Len(text)) /\ \A i \in 1..Len(text) : i \notin full => ToSet(text[i]) = {}
  BY <1>0, NothingSays
<1>3. \A l : l \in ToSet(text) <=> \E i \in 1..Len(text) : text[i] = l
  BY <1>0, Members
<1> HIDE DEF full
<1>4. CASE full = {}
  <2>1. TrimNewlines(text) = EmptyText /\ WordsOf(text) = {}
    BY <1>0, <1>1, <1>2, <1>4, TextSays
  <2> QED
    BY <2>1, NothingSays
<1>5. CASE full # {}
  <2>1. /\ TrimNewlines(text) \in Seq(Line) /\ TrimNewlines(text) # <<>>
        /\ ToSet(TrimNewlines(text)) \subseteq ToSet(text)
        /\ \A i \in full : text[i] \in ToSet(TrimNewlines(text))
    <3>1. TrimNewlines(text) = SubSeq(text, Min(full), Max(full))
      BY <1>1, <1>5
    <3>2. /\ SubSeq(text, Min(full), Max(full)) \in Seq(Line) /\ SubSeq(text, Min(full), Max(full)) # <<>>
          /\ ToSet(SubSeq(text, Min(full), Max(full))) \subseteq ToSet(text)
          /\ \A i \in full : text[i] \in ToSet(SubSeq(text, Min(full), Max(full)))
      BY <1>0, <1>2, <1>5, BetweenPlaces
    <3> QED
      BY <3>1, <3>2
  <2>2. \A l \in ToSet(text) : ToSet(l) # {} => l \in ToSet(TrimNewlines(text))
    BY <1>2, <1>3, <2>1
  <2>3. \A w : w \in WordsOf(text) <=> w \in WordsOf(TrimNewlines(text))
    BY <1>0, <2>1, <2>2, LinesSay
  <2> QED
    BY <2>1, <2>3 DEF Text
<1> QED
  BY <1>4, <1>5

\* A part of a line outside of which there are only spaces.
LEMMA CutSays ==
  ASSUME NEW line \in Line, NEW lo \in Nat, NEW hi \in Nat, 1 <= lo, lo <= hi + 1, hi <= Len(line),
         \A i \in 1..Len(line) : line[i] \notin Marks => lo <= i /\ i <= hi
  PROVE  SubSeq(line, lo, hi) \in Line /\ ToSet(SubSeq(line, lo, hi)) \ Marks = ToSet(line) \ Marks
<1>1. line \in Seq(Piece) /\ Len(line) \in Nat
  BY DEF Line
<1>2. /\ SubSeq(line, lo, hi) \in Seq(Piece)
      /\ \A x : x \in ToSet(SubSeq(line, lo, hi)) <=> \E i \in lo..hi : line[i] = x
  BY <1>1, PartMembers
<1>3. \A x : x \in ToSet(line) <=> \E i \in 1..Len(line) : line[i] = x
  BY <1>1, Members
<1>4. \A i \in lo..hi : i \in 1..Len(line)
  BY <1>1
<1>5. ASSUME NEW x \in ToSet(line), x \notin Marks PROVE x \in ToSet(SubSeq(line, lo, hi))
  <2>1. PICK i \in 1..Len(line) : line[i] = x
    BY <1>3
  <2>2. i \in lo..hi
    BY <1>5, <2>1
  <2> QED
    BY <1>2, <2>1, <2>2
<1> QED
  BY <1>2, <1>3, <1>4, <1>5 DEF Line

\* Line by line the same words.
LEMMA SameWords ==
  ASSUME NEW s \in Seq(Line), NEW t \in Seq(Line), Len(s) = Len(t),
         \A i \in 1..Len(s) : ToSet(s[i]) \ Marks = ToSet(t[i]) \ Marks
  PROVE  WordsOf(s) = WordsOf(t)
<1>1. \A w : w \in WordsOf(s) <=> w \notin Marks /\ \E i \in 1..Len(s) : w \in ToSet(s[i])
  BY TextSays
<1>2. \A w : w \in WordsOf(t) <=> w \notin Marks /\ \E i \in 1..Len(s) : w \in ToSet(t[i])
  BY TextSays
<1>3. ASSUME NEW i \in 1..Len(s), NEW w, w \notin Marks
      PROVE  w \in ToSet(s[i]) <=> w \in ToSet(t[i])
  BY <1>3
<1>4. ASSUME NEW w PROVE w \in WordsOf(s) <=> w \in WordsOf(t)
  BY <1>1, <1>2, <1>3, Zenon
<1> QED
  BY <1>4

\* The first and the last place of a line that is not a space.
LEMMA SolidPlaces ==
  ASSUME NEW line \in Line, ~BlankLine(line)
  PROVE  LET left == SelectInSeq(line, LAMBDA w : w \notin Spaces)
             right == SelectLastInSeq(line, LAMBDA w : w \notin Spaces)
         IN /\ left \in 1..Len(line) /\ right \in 1..Len(line) /\ left <= right
            /\ \A i \in 1..Len(line) : line[i] \notin Marks => left <= i /\ i <= right
<1>DEFINE P == {i \in 1..Len(line) : line[i] \notin Spaces}
<1>0. line \in Seq(Piece) /\ Len(line) \in Nat
  BY DEF Line
<1>1. P # {}
  <2>1. \A x : x \in ToSet(line) <=> \E i \in 1..Len(line) : line[i] = x
    BY <1>0, Members
  <2> QED
    BY <2>1 DEF BlankLine
<1>2. \A i \in 1..Len(line) : line[i] \notin Marks => i \in P
  BY DEF Marks
<1>3. SelectInSeq(line, LAMBDA w : w \notin Spaces) = Min(P)
  BY <1>1 DEF SelectInSeq
<1>4. SelectLastInSeq(line, LAMBDA w : w \notin Spaces) = Max(P)
  BY <1>1 DEF SelectLastInSeq
<1>5. P \in SUBSET (1..Len(line))
  OBVIOUS
<1> HIDE DEF P
<1>6. /\ Min(P) \in 1..Len(line) /\ Max(P) \in 1..Len(line) /\ Min(P) <= Max(P)
      /\ P \subseteq Min(P)..Max(P)
  BY <1>0, <1>1, <1>5, BetweenPlaces
<1>7. \A i \in 1..Len(line) : line[i] \notin Marks => Min(P) <= i /\ i <= Max(P)
  BY <1>0, <1>2, <1>6
<1> QED
  BY <1>3, <1>4, <1>6, <1>7, Zenon

\* strings.TrimSpace of a text.
LEMMA TrimSpaceSays ==
  ASSUME NEW text \in Text
  PROVE  TrimSpace(text) \in Text /\ WordsOf(TrimSpace(text)) = WordsOf(text)
<1>DEFINE solid == {i \in DOMAIN text : ~BlankLine(text[i])}
          Left(line) == SelectInSeq(line, LAMBDA w : w \notin Spaces)
          Right(line) == SelectLastInSeq(line, LAMBDA w : w \notin Spaces)
          lo(i) == IF i = Min(solid) THEN Left(text[i]) ELSE 1
          hi(i) == IF i = Max(solid) THEN Right(text[i]) ELSE Len(text[i])
          Cut(i) == SubSeq(text[i], lo(i), hi(i))
          size == Max(solid) - Min(solid) + 1
          trimmed == [j \in 1..size |-> Cut(Min(solid) + j - 1)]
<1>0. /\ text \in Seq(Line) /\ DOMAIN text = 1..Len(text) /\ Len(text) \in Nat
      /\ \A i \in 1..Len(text) : text[i] \in Line
  BY DEF Text
<1>1. TrimSpace(text) = IF solid = {} THEN EmptyText ELSE trimmed
  BY DEF TrimSpace
<1>2. solid \in SUBSET (1..Len(text)) /\ \A i \in solid : ~BlankLine(text[i])
  BY <1>0
<1>3. \A i \in 1..Len(text) : i \notin solid => ToSet(text[i]) \ Marks = {}
  BY <1>0, BlanksSay
<1> HIDE DEF solid
<1>4. CASE solid = {}
  <2>1. WordsOf(text) = {}
    BY <1>0, <1>3, <1>4, TextSays
  <2> QED
    BY <1>1, <1>4, <2>1, NothingSays
<1>5. CASE solid # {}
  <2>1. /\ Min(solid) \in 1..Len(text) /\ Max(solid) \in 1..Len(text) /\ Min(solid) <= Max(solid)
        /\ solid \subseteq Min(solid)..Max(solid)
    BY <1>0, <1>2, <1>5, BetweenPlaces
  <2>2. Min(solid) \in solid /\ Max(solid) \in solid
    <3>1. solid \in SUBSET Nat
      BY <1>2
    <3> QED
      BY <1>0, <1>2, <1>5, <3>1, MinIs, MaxIs
  <2>3. ASSUME NEW i \in Min(solid)..Max(solid)
        PROVE  Cut(i) \in Line /\ ToSet(Cut(i)) \ Marks = ToSet(text[i]) \ Marks
    <3>1. i \in 1..Len(text) /\ text[i] \in Line /\ Len(text[i]) \in Nat
      BY <1>0, <2>1 DEF Line
    <3>2. i \in solid => /\ Left(text[i]) \in 1..Len(text[i]) /\ Right(text[i]) \in 1..Len(text[i])
                         /\ Left(text[i]) <= Right(text[i])
                         /\ \A j \in 1..Len(text[i]) : text[i][j] \notin Marks
                              => Left(text[i]) <= j /\ j <= Right(text[i])
      BY <1>2, <3>1, SolidPlaces
    <3> HIDE DEF Left, Right
    <3>3. /\ lo(i) \in Nat /\ hi(i) \in Nat /\ 1 <= lo(i) /\ lo(i) <= hi(i) + 1 /\ hi(i) <= Len(text[i])
          /\ \A j \in 1..Len(text[i]) : text[i][j] \notin Marks => lo(i) <= j /\ j <= hi(i)
      BY <2>2, <3>1, <3>2
    <3> HIDE DEF lo, hi
    <3> QED
      BY <3>1, <3>3, CutSays
  <2> HIDE DEF Cut
  <2>4. size \in Nat /\ size # 0 /\ \A j \in 1..size : Min(solid) + j - 1 \in Min(solid)..Max(solid)
    BY <2>1
  <2>5. trimmed \in Seq(Line) /\ Len(trimmed) = size
        /\ \A j \in 1..size : trimmed[j] = Cut(Min(solid) + j - 1)
    BY <2>3, <2>4
  <2>6. ASSUME NEW w, w \in WordsOf(trimmed) PROVE w \in WordsOf(text)
    <3>1. PICK j \in 1..size : w \notin Marks /\ w \in ToSet(trimmed[j])
      BY <2>5, <2>6, TextSays
    <3>2. Min(solid) + j - 1 \in 1..Len(text) /\ w \in ToSet(text[Min(solid) + j - 1])
      BY <2>1, <2>3, <2>4, <2>5, <3>1
    <3> QED
      BY <1>0, <3>1, <3>2, TextSays
  <2>7. ASSUME NEW w, w \in WordsOf(text) PROVE w \in WordsOf(trimmed)
    <3>1. PICK i \in 1..Len(text) : w \notin Marks /\ w \in ToSet(text[i])
      BY <1>0, <2>7, TextSays
    <3>2. i \in Min(solid)..Max(solid)
      BY <1>3, <2>1, <3>1
    <3>3. /\ i - Min(solid) + 1 \in 1..size /\ Min(solid) + (i - Min(solid) + 1) - 1 = i
      BY <2>1, <3>2
    <3>4. trimmed[i - Min(solid) + 1] = Cut(i)
      BY <2>5, <3>3
    <3>5. w \in ToSet(trimmed[i - Min(solid) + 1])
      BY <2>3, <3>1, <3>2, <3>4
    <3> QED
      BY <2>5, <3>1, <3>3, <3>5, TextSays
  <2>8. trimmed # <<>>
    <3>1. Len(<<>>) = 0
      OBVIOUS
    <3> QED
      BY <2>4, <2>5, <3>1
  <2> QED
    BY <1>1, <1>5, <2>5, <2>6, <2>7, <2>8 DEF Text
<1> QED
  BY <1>4, <1>5

-----------------------------------------------------------------------------
(* What is written.                                                        *)

\* The marks the code writes.
LEMMA MarksArePieces ==
  /\ {Bullet, Title, Heading, Bold, BoldEnd, Indent} \subseteq Piece \cap Marks
  /\ \A k \in Key : HeadingOf[k] \in Piece \cap Marks
<1>1. {Bullet, Title, Heading, Bold, BoldEnd, Indent} \subseteq Marks
  BY DEF Marks, Spaces
<1> QED
  BY <1>1, MarkdownAssumption DEF Marks

\* A mark before a line is nobody's word.
LEMMA MarkedSays ==
  ASSUME NEW line \in Line, NEW m \in Piece, m \in Marks
  PROVE  <<m>> \o line \in Line /\ ToSet(<<m>> \o line) \ Marks = ToSet(line) \ Marks
<1>1. <<m>> \in Seq(Piece) /\ line \in Seq(Piece)
  BY DEF Line
<1>2. ToSet(<<m>>) = {m}
  BY DEF ToSet
<1>3. <<m>> \o line \in Seq(Piece) /\ ToSet(<<m>> \o line) = ToSet(<<m>>) \cup ToSet(line)
  BY <1>1, ConcatMembers
<1> QED
  BY <1>2, <1>3 DEF Line

\* An item is written with all its words.
LEMMA WriteBulletSays ==
  ASSUME NEW item \in Text
  PROVE  WriteBullet(item) \in Seq(Line) /\ WordsOf(WriteBullet(item)) = WordsOf(item)
<1>DEFINE lines == TrimNewlines(item)
          rest == Tail(lines)
          More(i) == IF BlankLine(rest[i]) THEN <<>> ELSE <<Indent>> \o rest[i]
          first == <<Bullet>> \o Head(lines)
          more == [i \in DOMAIN rest |-> More(i)]
<1>1. /\ Head(lines) \in Line /\ rest \in Seq(Line)
      /\ WordsOf(item) = (ToSet(Head(lines)) \ Marks) \cup WordsOf(rest)
  BY TrimNewlinesSays, HeadAndTail
<1>2. WriteBullet(item) = <<first>> \o more
  BY DEF WriteBullet
<1> HIDE DEF lines, rest
<1>3. first \in Line /\ ToSet(first) \ Marks = ToSet(Head(lines)) \ Marks
  BY <1>1, MarkedSays, MarksArePieces
<1>4. ASSUME NEW i \in 1..Len(rest)
      PROVE  More(i) \in Line /\ ToSet(More(i)) \ Marks = ToSet(rest[i]) \ Marks
  <2>1. rest[i] \in Line
    BY <1>1
  <2>2. <<Indent>> \o rest[i] \in Line /\ ToSet(<<Indent>> \o rest[i]) \ Marks = ToSet(rest[i]) \ Marks
    BY <2>1, MarkedSays, MarksArePieces
  <2> QED
    BY <2>2, NothingSays, BlanksSay
<1> HIDE DEF first, More
<1>5. more \in Seq(Line) /\ Len(more) = Len(rest) /\ \A i \in 1..Len(rest) : more[i] = More(i)
  BY <1>1, <1>4
<1>6. WordsOf(more) = WordsOf(rest)
  BY <1>1, <1>4, <1>5, SameWords
<1>7. <<first>> \in Seq(Line) /\ WordsOf(<<first>>) = ToSet(first) \ Marks
  BY <1>3, LineSays DEF Text
<1>8. <<first>> \o more \in Seq(Line) /\ WordsOf(<<first>> \o more) = WordsOf(<<first>>) \cup WordsOf(more)
  BY <1>5, <1>7, ConcatSays
<1> QED
  BY <1>1, <1>2, <1>3, <1>6, <1>7, <1>8

\* A term and what it means become one item.
LEMMA TermItemSays ==
  ASSUME NEW t \in [term : Line, definition : Text]
  PROVE  /\ TermItem(t) \in Text
         /\ WordsOf(TermItem(t)) = (ToSet(t.term) \ Marks) \cup WordsOf(t.definition)
<1>DEFINE rest == Tail(t.definition)
          meant == <<BoldEnd>> \o Head(t.definition)
          said == t.term \o meant
          first == <<Bold>> \o said
<1>1. /\ t.term \in Line /\ Head(t.definition) \in Line /\ rest \in Seq(Line)
      /\ WordsOf(t.definition) = (ToSet(Head(t.definition)) \ Marks) \cup WordsOf(rest)
  BY HeadAndTail
<1> HIDE DEF rest
<1>a. /\ t.term \in Seq(Piece) /\ Head(t.definition) \in Seq(Piece)
      /\ <<Bold>> \in Seq(Piece) /\ <<BoldEnd>> \in Seq(Piece)
  BY <1>1, MarksArePieces DEF Line
<1>2. meant \in Line /\ ToSet(meant) \ Marks = ToSet(Head(t.definition)) \ Marks
  BY <1>1, MarkedSays, MarksArePieces
<1>3. said \in Line /\ ToSet(said) = ToSet(t.term) \cup ToSet(meant)
  <2>1. meant \in Seq(Piece)
    BY <1>2 DEF Line
  <2> HIDE DEF meant
  <2> QED
    BY <1>a, <2>1, ConcatMembers DEF Line
<1>4. first \in Line /\ ToSet(first) \ Marks = ToSet(said) \ Marks
  BY <1>3, MarkedSays, MarksArePieces
<1>5. TermItem(t) = <<first>> \o rest
  <2>1. first = <<Bold>> \o t.term \o <<BoldEnd>> \o Head(t.definition)
    <3>1. first = (<<Bold>> \o t.term) \o meant
      <4>1. meant \in Seq(Piece)
        BY <1>2 DEF Line
      <4> HIDE DEF meant
      <4>2. <<Bold>> \o (t.term \o meant) = (<<Bold>> \o t.term) \o meant
        BY <1>a, <4>1, Regroup
      <4> QED
        BY <4>2 DEF first, said
    <3>2. (<<Bold>> \o t.term) \o meant = ((<<Bold>> \o t.term) \o <<BoldEnd>>) \o Head(t.definition)
      <4>DEFINE opened == <<Bold>> \o t.term
                 closing == <<BoldEnd>>
                 means == Head(t.definition)
      <4>1. opened \in Seq(Piece) /\ closing \in Seq(Piece) /\ means \in Seq(Piece)
        BY <1>a
      <4> HIDE DEF opened, closing, means
      <4>2. opened \o (closing \o means) = (opened \o closing) \o means
        BY <4>1, Regroup
      <4> QED
        BY <4>2 DEF opened, closing, means, meant
    <3> QED
      BY <3>1, <3>2
  <2> QED
    BY <2>1 DEF TermItem, rest
<1> HIDE DEF first
<1>6. <<first>> \in Seq(Line) /\ WordsOf(<<first>>) = ToSet(first) \ Marks /\ Len(<<first>>) = 1
  BY <1>4, LineSays DEF Text
<1>7. /\ <<first>> \o rest \in Seq(Line) /\ WordsOf(<<first>> \o rest) = WordsOf(<<first>>) \cup WordsOf(rest)
      /\ <<first>> \o rest # <<>>
  <2>1. Len(<<first>> \o rest) # 0
    BY <1>1, <1>6, ConcatMembers
  <2>2. Len(<<>>) = 0
    OBVIOUS
  <2> QED
    BY <1>1, <1>6, <2>1, <2>2, ConcatSays
<1>8. WordsOf(TermItem(t)) = (ToSet(t.term) \ Marks) \cup WordsOf(t.definition)
  BY <1>1, <1>2, <1>3, <1>4, <1>5, <1>6, <1>7
<1> QED
  BY <1>5, <1>7, <1>8 DEF Text

\* The entries of a slot as items.
LEMMA EntriesAre ==
  ASSUME NEW k \in Key, KindOf[k] # "prose", NEW slot \in SlotType(k)
  PROVE  /\ slot \in Seq(Entry(k)) /\ Entries(k, slot) \in Seq(Text) /\ Len(Entries(k, slot)) = Len(slot)
         /\ \A w : w \in WordsIn(k, slot) <=> \E i \in 1..Len(slot) : w \in WordsOf(Entries(k, slot)[i])
<1>1. slot \in Seq(Entry(k)) /\ DOMAIN slot = 1..Len(slot)
  BY DEF SlotType
<1>2. Entries(k, slot) \in Seq(Text) /\ Len(Entries(k, slot)) = Len(slot)
  <2>1. CASE KindOf[k] = "terms"
    <3>1. \A i \in 1..Len(slot) : slot[i] \in Entry(k)
      BY <1>1
    <3>2. ASSUME NEW i \in 1..Len(slot) PROVE TermItem(slot[i]) \in Text
      <4>1. slot[i] \in [term : Line, definition : Text]
        BY <2>1, <3>1 DEF Entry
      <4> QED
        BY <4>1, TermItemSays
    <3>3. Entries(k, slot) = [i \in 1..Len(slot) |-> TermItem(slot[i])]
      BY <1>1, <2>1 DEF Entries
    <3> QED
      BY <3>1, <3>2, <3>3
  <2>2. CASE KindOf[k] # "terms"
    BY <1>1, <2>2 DEF Entries, Entry
  <2> QED
    BY <2>1, <2>2
<1>3. WordsIn(k, slot) = UNION {WordsOf(Entries(k, slot)[i]) : i \in 1..Len(slot)}
  BY <1>1 DEF WordsIn
<1> QED
  BY <1>1, <1>2, <1>3

\* Many texts say what each says.
LEMMA FlatSays ==
  ASSUME NEW ss \in Seq(Seq(Line))
  PROVE  /\ FlattenSeq(ss) \in Seq(Line)
         /\ \A w : w \in WordsOf(FlattenSeq(ss)) <=> \E i \in 1..Len(ss) : w \in WordsOf(ss[i])
<1>1. /\ FlattenSeq(ss) \in Seq(Line)
      /\ \A x : x \in ToSet(FlattenSeq(ss)) <=> \E i \in 1..Len(ss) : x \in ToSet(ss[i])
  BY Flattened
<1>2. \A i \in 1..Len(ss) : ss[i] \in Seq(Line)
  OBVIOUS
<1>3. \A w : w \in WordsOf(FlattenSeq(ss)) <=> w \notin Marks /\ \E l \in ToSet(FlattenSeq(ss)) : w \in ToSet(l)
  BY <1>1, LinesSay
<1>4. \A i \in 1..Len(ss) : \A w :
        w \in WordsOf(ss[i]) <=> w \notin Marks /\ \E l \in ToSet(ss[i]) : w \in ToSet(l)
  BY <1>2, LinesSay
<1> QED
  BY <1>1, <1>3, <1>4

\* What each keeps and concatenation keeps, all of them together keep.
LEMMA FlatIn ==
  ASSUME NEW S, NEW ss \in Seq(Seq(S)), NEW Q, <<>> \in Q, \A s, t \in Q : s \o t \in Q,
         \A i \in 1..Len(ss) : ss[i] \in Q
  PROVE  FlattenSeq(ss) \in Q
<1>0. Len(ss) \in Nat
  OBVIOUS
<1>1. CASE Len(ss) = 0
  <2>1. FlattenSeq(ss) = ss /\ ss = <<>>
    BY <1>1 DEF FlattenSeq
  <2> QED
    BY <2>1
<1>2. CASE Len(ss) # 0
  <2>DEFINE f == CHOOSE g : g = [i \in 1..Len(ss) |-> IF i = 1 THEN ss[i] ELSE g[i - 1] \o ss[i]]
            N == {k \in Nat : k \in 1..Len(ss) => f[k] \in Q}
  <2>1. FlattenSeq(ss) = f[Len(ss)]
    BY <1>2 DEF FlattenSeq
  <2>2. \E g : g = [i \in 1..Len(ss) |-> IF i = 1 THEN ss[i] ELSE g[i - 1] \o ss[i]]
    <3>1. \E g : Flat(g, ss, Len(ss))
      BY <1>0, FlatExists
    <3> QED
      BY <3>1 DEF Flat
  <2>3. f = [i \in 1..Len(ss) |-> IF i = 1 THEN ss[i] ELSE f[i - 1] \o ss[i]]
    BY <2>2
  <2> HIDE DEF f
  <2>4. 0 \in N
    OBVIOUS
  <2>5. ASSUME NEW k \in N PROVE k + 1 \in N
    <3> SUFFICES ASSUME k + 1 \in 1..Len(ss) PROVE f[k + 1] \in Q
      OBVIOUS
    <3>1. f[k + 1] = IF k + 1 = 1 THEN ss[k + 1] ELSE f[(k + 1) - 1] \o ss[k + 1]
      BY <2>3
    <3>2. ss[k + 1] \in Q
      OBVIOUS
    <3>3. CASE k = 0
      BY <3>1, <3>2, <3>3
    <3>4. CASE k # 0
      <4>1. k \in 1..Len(ss) /\ k + 1 # 1 /\ (k + 1) - 1 = k /\ f[k] \in Q
        BY <1>0, <3>4
      <4> QED
        BY <3>1, <3>2, <4>1
    <3> QED
      BY <3>3, <3>4
  <2> HIDE DEF N
  <2>6. N = Nat
    <3>1. N \in SUBSET Nat
      BY DEF N
    <3> QED
      BY <2>4, <2>5, <3>1, SetInduction
  <2>7. Len(ss) \in N /\ Len(ss) \in 1..Len(ss)
    BY <1>0, <1>2, <2>6
  <2> QED
    BY <2>1, <2>7 DEF N
<1> QED
  BY <1>1, <1>2

\* A section says what its lines say, and begins with its heading.
LEMMA SectionSays ==
  ASSUME NEW k \in Key, NEW middle \in Seq(Line)
  PROVE  LET section == <<<<Heading, HeadingOf[k]>>, <<>>>> \o middle \o <<<<>>>>
         IN /\ section \in Seq(Line) /\ WordsOf(section) = WordsOf(middle)
            /\ StartsWith(section[1], Heading) /\ section # <<>>
<1>DEFINE head == <<Heading, HeadingOf[k]>>
          opening == <<head, <<>>>>
          closing == <<<<>>>>
          section == opening \o middle \o closing
<1>1. head \in Line /\ ToSet(head) \ Marks = {} /\ StartsWith(head, Heading)
  <2>1. Heading \in Piece \cap Marks /\ HeadingOf[k] \in Piece \cap Marks
    BY MarksArePieces
  <2>2. head \in Seq(Piece) /\ ToSet(head) = {Heading, HeadingOf[k]} /\ head # <<>> /\ Head(head) = Heading
    BY <2>1 DEF ToSet
  <2> QED
    BY <2>1, <2>2 DEF Line, StartsWith
<1> HIDE DEF head
<1>2. opening \in Seq(Line) /\ Len(opening) = 2 /\ opening[1] = head /\ opening[2] = <<>>
  BY <1>1, NothingSays
<1>3. WordsOf(opening) = {}
  <2>1. \A i \in 1..2 : i = 1 \/ i = 2
    OBVIOUS
  <2> HIDE DEF opening
  <2> QED
    BY <1>1, <1>2, <2>1, TextSays, NothingSays
<1>4. closing \in Seq(Line) /\ WordsOf(closing) = {}
  BY NothingSays DEF EmptyText, Text
<1> HIDE DEF opening, closing
<1>5. opening \o middle \in Seq(Line) /\ WordsOf(opening \o middle) = WordsOf(middle)
      /\ (opening \o middle)[1] = head /\ Len(opening \o middle) >= 2
  <2>1. opening \o middle \in Seq(Line) /\ WordsOf(opening \o middle) = WordsOf(middle)
    <3>1. /\ opening \o middle \in Seq(Line)
          /\ WordsOf(opening \o middle) = WordsOf(opening) \cup WordsOf(middle)
      BY <1>2, ConcatSays
    <3> QED
      BY <1>3, <3>1
  <2>2. /\ Len(opening \o middle) = Len(opening) + Len(middle) /\ Len(middle) \in Nat
        /\ \A i \in 1..Len(opening) : (opening \o middle)[i] = opening[i]
    BY <1>2, ConcatPlaces
  <2> QED
    BY <1>2, <2>1, <2>2
<1>6. /\ section \in Seq(Line) /\ WordsOf(section) = WordsOf(middle)
      /\ section[1] = head /\ Len(section) >= 2
  <2>DEFINE begun == opening \o middle
  <2> HIDE DEF begun
  <2>0. begun \in Seq(Line) /\ WordsOf(begun) = WordsOf(middle) /\ begun[1] = head /\ Len(begun) >= 2
    BY <1>5 DEF begun
  <2>1. begun \o closing \in Seq(Line) /\ WordsOf(begun \o closing) = WordsOf(middle)
    <3>1. /\ begun \o closing \in Seq(Line)
          /\ WordsOf(begun \o closing) = WordsOf(begun) \cup WordsOf(closing)
      BY <1>4, <2>0, ConcatSays
    <3> QED
      BY <1>4, <2>0, <3>1
  <2>2. /\ Len(begun \o closing) = Len(begun) + Len(closing) /\ Len(begun) \in Nat /\ Len(closing) \in Nat
        /\ \A i \in 1..Len(begun) : (begun \o closing)[i] = begun[i]
    BY <1>4, <2>0, ConcatPlaces
  <2> QED
    BY <2>0, <2>1, <2>2 DEF begun
<1>7. section # <<>>
  <2>1. Len(<<>>) = 0
    OBVIOUS
  <2> QED
    BY <1>6, <2>1
<1> QED
  BY <1>1, <1>6, <1>7 DEF opening, closing, head

\* A slot is written with all its words, under its heading.
LEMMA WriteSlotSays ==
  ASSUME NEW k \in Key, NEW slot \in SlotType(k)
  PROVE  /\ writeSlot(k, slot) \in Seq(Line) /\ WordsOf(writeSlot(k, slot)) = WordsIn(k, slot)
         /\ writeSlot(k, slot) = <<>> \/ StartsWith(writeSlot(k, slot)[1], Heading)
<1>1. CASE KindOf[k] = "prose"
  <2>1. slot \in Text /\ WordsIn(k, slot) = WordsOf(slot)
    BY <1>1 DEF SlotType, WordsIn
  <2>2. CASE Blank(slot)
    <3>1. writeSlot(k, slot) = <<>>
      BY <1>1, <2>2 DEF writeSlot
    <3>2. WordsOf(slot) = {}
      BY <2>1, <2>2, TextSays, BlanksSay DEF Blank, Text
    <3>3. <<>> \in Seq(Line)
      OBVIOUS
    <3> QED
      BY <2>1, <3>1, <3>2, <3>3, NothingSays
  <2>3. CASE ~Blank(slot)
    <3>1. TrimNewlines(slot) \in Seq(Line) /\ WordsOf(TrimNewlines(slot)) = WordsOf(slot)
      BY <2>1, TrimNewlinesSays DEF Text
    <3>2. writeSlot(k, slot) = <<<<Heading, HeadingOf[k]>>, <<>>>> \o TrimNewlines(slot) \o <<<<>>>>
      BY <1>1, <2>3 DEF writeSlot
    <3> QED
      BY <2>1, <3>1, <3>2, SectionSays
  <2> QED
    BY <2>2, <2>3
<1>2. CASE KindOf[k] # "prose"
  <2>DEFINE items == [i \in DOMAIN slot |-> WriteBullet(Entries(k, slot)[i])]
  <2>1. /\ slot \in Seq(Entry(k)) /\ Entries(k, slot) \in Seq(Text) /\ Len(Entries(k, slot)) = Len(slot)
        /\ \A w : w \in WordsIn(k, slot) <=> \E i \in 1..Len(slot) : w \in WordsOf(Entries(k, slot)[i])
    BY <1>2, EntriesAre
  <2>2. DOMAIN slot = 1..Len(slot) /\ Len(slot) \in Nat
    BY <2>1
  <2>3. \A i \in 1..Len(slot) : Entries(k, slot)[i] \in Text
    BY <2>1
  <2>4. \A i \in 1..Len(slot) : /\ WriteBullet(Entries(k, slot)[i]) \in Seq(Line)
                                /\ WordsOf(WriteBullet(Entries(k, slot)[i])) = WordsOf(Entries(k, slot)[i])
    BY <2>3, WriteBulletSays
  <2>5. items \in Seq(Seq(Line)) /\ Len(items) = Len(slot)
        /\ \A i \in 1..Len(slot) : WordsOf(items[i]) = WordsOf(Entries(k, slot)[i])
    BY <2>2, <2>4
  <2>6. CASE slot = <<>>
    <3>1. writeSlot(k, slot) = <<>> /\ Len(slot) = 0
      BY <1>2, <2>6 DEF writeSlot
    <3>2. WordsIn(k, slot) = {}
      BY <2>1, <3>1
    <3>3. <<>> \in Seq(Line)
      OBVIOUS
    <3> QED
      BY <3>1, <3>2, <3>3, NothingSays
  <2>7. CASE slot # <<>>
    <3>1. writeSlot(k, slot) = <<<<Heading, HeadingOf[k]>>, <<>>>> \o FlattenSeq(items) \o <<<<>>>>
      BY <1>2, <2>7 DEF writeSlot
    <3> HIDE DEF items
    <3>2. FlattenSeq(items) \in Seq(Line) /\ WordsOf(FlattenSeq(items)) = WordsIn(k, slot)
      BY <2>1, <2>5, FlatSays
    <3> QED
      BY <3>1, <3>2, SectionSays
  <2> QED
    BY <2>6, <2>7
<1> QED
  BY <1>1, <1>2

\* Where a text begins if its first line, once trimmed, is a title.
LEMMA TitleStays ==
  ASSUME NEW name \in Piece
  PROVE  StartsWith(TrimLine(<<Title, name>>), Title)
<1>DEFINE line == <<Title, name>>
          solid == {i \in DOMAIN line : line[i] \notin Spaces}
<1>1. line \in Seq(Piece) /\ Len(line) = 2 /\ line[1] = Title /\ DOMAIN line = 1..2
  BY MarkdownAssumption
<1>2. Title \notin Spaces
  BY DEF Title, Spaces, Indent
<1>3. 1 \in solid /\ solid \in SUBSET (1..Len(line)) /\ \A i \in solid : 1 <= i
  BY <1>1, <1>2
<1>4. TrimLine(line) = SubSeq(line, Min(solid), Max(solid))
  <2>1. TrimLine(line) = IF solid = {} THEN <<>> ELSE SubSeq(line, Min(solid), Max(solid))
    BY DEF TrimLine
  <2> QED
    BY <1>3, <2>1
<1> HIDE DEF line, solid
<1>5. /\ Min(solid) \in 1..Len(line) /\ Max(solid) \in 1..Len(line) /\ Min(solid) <= Max(solid)
      /\ solid \subseteq Min(solid)..Max(solid)
      /\ SubSeq(line, Min(solid), Max(solid)) \in Seq(Piece)
      /\ SubSeq(line, Min(solid), Max(solid)) # <<>>
  BY <1>1, <1>3, BetweenPlaces
<1>6. Min(solid) = 1
  BY <1>1, <1>3, <1>5
<1>7. SubSeq(line, 1, Max(solid))[1] = line[1]
  BY <1>1, <1>5, <1>6
<1> QED
  BY <1>1, <1>4, <1>5, <1>6, <1>7 DEF StartsWith, line

\* A body that is no title and begins with a heading, if it has any lines.
LEMMA UntitledSays ==
  ASSUME NEW lines \in Seq(Line), lines = <<>> \/ StartsWith(lines[1], Heading)
  PROVE  WordsInBody(EmptyText \o lines) = WordsOf(lines)
<1>DEFINE body == EmptyText \o lines
<1>1. EmptyText \in Seq(Line) /\ WordsOf(EmptyText) = {} /\ Len(EmptyText) = 1 /\ EmptyText[1] = <<>>
  BY NothingSays DEF EmptyText, Text
<1>2. body \in Seq(Line) /\ WordsOf(body) = WordsOf(EmptyText) \cup WordsOf(lines)
  BY <1>1, ConcatSays
<1>3. /\ Len(body) = Len(EmptyText) + Len(lines) /\ Len(lines) \in Nat
      /\ \A i \in 1..Len(EmptyText) : body[i] = EmptyText[i]
      /\ \A i \in 1..Len(lines) : body[Len(EmptyText) + i] = lines[i]
  <2>1. EmptyText \in Seq(Line)
    BY <1>1
  <2> QED
    BY <2>1, ConcatPlaces
<1> HIDE DEF body
<1>4. DOMAIN body = 1..Len(body) /\ body[1] = <<>>
  BY <1>1, <1>2, <1>3
<1>5. Before(body) = {}
  <2> SUFFICES ASSUME NEW i \in Before(body) PROVE FALSE
    OBVIOUS
  <2>1. i \in 1..Len(body) /\ ~BlankLine(body[i]) /\ \A h \in HeadingsIn(body) : i < h
    BY <1>4 DEF Before
  <2>2. i # 1
    BY <1>4, <2>1, NothingSays DEF BlankLine
  <2>3. Len(lines) >= 1 /\ lines # <<>>
    BY <1>1, <1>3, <2>1, <2>2
  <2>4. body[2] = lines[1] /\ 2 \in 1..Len(body)
    BY <1>1, <1>3, <2>3
  <2>5. 2 \in HeadingsIn(body)
    BY <1>4, <2>3, <2>4 DEF HeadingsIn
  <2> QED
    BY <2>1, <2>2, <2>5
<1>6. TitleLines(body) = {}
  BY <1>5 DEF TitleLines
<1>7. WordsInBody(body) = WordsOf(body)
  BY <1>6 DEF WordsInBody, WordsOf
<1> QED
  BY <1>1, <1>2, <1>7 DEF body

\* A body with a title.
LEMMA TitledSays ==
  ASSUME NEW lines \in Seq(Line), NEW name \in Piece
  PROVE  LET body == (EmptyText \o <<<<Title, name>>, <<>>>>) \o lines
         IN body \in Seq(Line) /\ WordsInBody(body) = WordsOf(lines)
<1>DEFINE title == <<Title, name>>
          front == EmptyText \o <<title, <<>>>>
          body == front \o lines
<1>0. title \in Line /\ title # <<>> /\ Head(title) = Title /\ Title \in ToSet(title)
  BY MarkdownAssumption DEF Line, ToSet
<1>a. StartsWith(TrimLine(title), Title)
  BY TitleStays
<1> HIDE DEF title
<1>1. /\ front \in Seq(Line) /\ Len(front) = 3
      /\ front[1] = <<>> /\ front[2] = title /\ front[3] = <<>>
  BY <1>0, NothingSays DEF EmptyText
<1> HIDE DEF front
<1>2. /\ body \in Seq(Line) /\ Len(body) = 3 + Len(lines) /\ Len(lines) \in Nat
      /\ \A i \in 1..3 : body[i] = front[i]
      /\ \A i \in 1..Len(lines) : body[3 + i] = lines[i]
  <2>0. front \in Seq(Line)
    BY <1>1
  <2>1. /\ body \in Seq(Line) /\ Len(body) = Len(front) + Len(lines) /\ Len(lines) \in Nat
        /\ \A i \in 1..Len(front) : body[i] = front[i]
        /\ \A i \in 1..Len(lines) : body[Len(front) + i] = lines[i]
    BY <2>0, ConcatPlaces
  <2> HIDE DEF body
  <2> QED
    BY <1>1, <2>1
<1> HIDE DEF body
<1>3. DOMAIN body = 1..Len(body) /\ body[1] = <<>> /\ body[2] = title /\ body[3] = <<>>
  BY <1>1, <1>2
<1>4. 2 \in Before(body)
  <2>1. ~BlankLine(title)
    <3>1. Title \notin Spaces
      BY DEF Title, Spaces, Indent
    <3> QED
      BY <1>0, <3>1 DEF BlankLine
  <2>2. Title # Heading
    BY DEF Title, Heading
  <2>3. 1 \notin HeadingsIn(body) /\ 2 \notin HeadingsIn(body)
    BY <1>0, <1>3, <2>2 DEF HeadingsIn, StartsWith
  <2>4. \A h \in HeadingsIn(body) : h \in 1..Len(body)
    BY <1>3 DEF HeadingsIn
  <2>5. \A h \in HeadingsIn(body) : 2 < h
    BY <1>2, <2>3, <2>4
  <2>6. 2 \in DOMAIN body
    BY <1>2, <1>3
  <2> QED
    BY <1>3, <2>1, <2>5, <2>6 DEF Before
<1>5. 1 \notin Before(body)
  BY <1>3, NothingSays DEF Before, BlankLine
<1>6. Before(body) \in SUBSET (1..Len(body))
  BY <1>3 DEF Before
<1>7. Min(Before(body)) = 2
  <2>1. Before(body) \in SUBSET Nat
    BY <1>6
  <2>2. Min(Before(body)) \in Before(body) /\ \A i \in Before(body) : Min(Before(body)) <= i
    BY <1>4, <2>1, MinIs
  <2> QED
    BY <1>2, <1>4, <1>5, <1>6, <2>2
<1>8. TitleLines(body) = {2}
  BY <1>3, <1>4, <1>7, <1>a DEF TitleLines
<1>9. WordsInBody(body) = WordsOf(lines)
  <2>1. \A w : w \in WordsInBody(body) <=> w \notin Marks /\ \E i \in (1..Len(body)) \ {2} : w \in ToSet(body[i])
    BY <1>3, <1>8 DEF WordsInBody
  <2>2. ASSUME NEW w, w \in WordsInBody(body) PROVE w \in WordsOf(lines)
    <3>1. PICK i \in (1..Len(body)) \ {2} : w \in ToSet(body[i])
      BY <2>1, <2>2
    <3>2. i # 1 /\ i # 3
      BY <1>3, <3>1, NothingSays
    <3>3. i - 3 \in 1..Len(lines) /\ 3 + (i - 3) = i
      BY <1>2, <3>1, <3>2
    <3>4. w \in ToSet(lines[i - 3])
      BY <1>2, <3>1, <3>3
    <3> QED
      BY <2>1, <2>2, <3>3, <3>4, TextSays
  <2>3. ASSUME NEW w, w \in WordsOf(lines) PROVE w \in WordsInBody(body)
    <3>1. PICK i \in 1..Len(lines) : w \notin Marks /\ w \in ToSet(lines[i])
      BY <2>3, TextSays
    <3>2. 3 + i \in (1..Len(body)) \ {2} /\ body[3 + i] = lines[i]
      BY <1>2
    <3> QED
      BY <2>1, <3>1, <3>2
  <2> QED
    BY <2>2, <2>3
<1> QED
  BY <1>2, <1>9 DEF body, front, title

\* Writing a document keeps its words: those of the file are those of the slots.
THEOREM WritingKeepsWords ==
  ASSUME NEW doc, IsIdentity(doc.id), \A k \in Key : doc.slots[k] \in SlotType(k)
  PROVE  /\ MarshalMarkdown(doc).body \in Seq(Line)
         /\ IsIdentity(MarshalMarkdown(doc).front.id)
         /\ \A w : w \in WordsInBody(MarshalMarkdown(doc).body)
                     <=> \E k \in Key : w \in WordsIn(k, doc.slots[k])
<1>DEFINE slots == [i \in DOMAIN SlotTable |-> writeSlot(SlotTable[i], doc.slots[SlotTable[i]])]
          title == IF doc.id.name = Unset THEN <<>> ELSE <<<<Title, doc.id.name>>, <<>>>>
          visibility == IF doc.id.visibility = Unset THEN "internal" ELSE doc.id.visibility
          Q == {s \in Seq(Line) : s = <<>> \/ StartsWith(s[1], Heading)}
<1>1. /\ MarshalMarkdown(doc).body = EmptyText \o title \o FlattenSeq(slots)
      /\ MarshalMarkdown(doc).front.id = [doc.id EXCEPT !.visibility = visibility]
  BY DEF MarshalMarkdown, EmptyText
<1>2. IsIdentity(MarshalMarkdown(doc).front.id)
  BY <1>1 DEF IsIdentity
<1>3. /\ DOMAIN SlotTable = 1..Len(SlotTable) /\ Len(SlotTable) \in Nat
      /\ \A k : k \in Key <=> \E i \in 1..Len(SlotTable) : SlotTable[i] = k
  BY DocumentAssumption, Members DEF Key
<1>4. \A i \in 1..Len(SlotTable) :
        /\ slots[i] \in Seq(Line) /\ WordsOf(slots[i]) = WordsIn(SlotTable[i], doc.slots[SlotTable[i]])
        /\ slots[i] = <<>> \/ StartsWith(slots[i][1], Heading)
  BY <1>3, WriteSlotSays
<1>5. slots \in Seq(Seq(Line)) /\ Len(slots) = Len(SlotTable)
  BY <1>3, <1>4
<1> HIDE DEF slots
<1>6. /\ FlattenSeq(slots) \in Seq(Line)
      /\ \A w : w \in WordsOf(FlattenSeq(slots)) <=> \E i \in 1..Len(slots) : w \in WordsOf(slots[i])
  BY <1>5, FlatSays
<1>7. \A w : w \in WordsOf(FlattenSeq(slots)) <=> \E k \in Key : w \in WordsIn(k, doc.slots[k])
  BY <1>3, <1>4, <1>5, <1>6
<1>8. FlattenSeq(slots) \in Q
  <2>1. <<>> \in Q
    OBVIOUS
  <2>2. ASSUME NEW s \in Q, NEW t \in Q PROVE s \o t \in Q
    <3>1. s \in Seq(Line) /\ t \in Seq(Line)
      OBVIOUS
    <3>2. CASE s = <<>>
      <4>1. s \o t = t
        BY <3>1, <3>2
      <4> QED
        BY <4>1
    <3>3. CASE s # <<>>
      <4>1. Len(s) >= 1
        BY <3>1, <3>3
      <4>2. s \o t \in Seq(Line) /\ (s \o t)[1] = s[1]
        BY <3>1, <4>1, ConcatPlaces
      <4>3. StartsWith(s[1], Heading)
        BY <3>3
      <4> QED
        BY <4>2, <4>3
    <3> QED
      BY <3>2, <3>3
  <2>3. \A i \in 1..Len(slots) : slots[i] \in Q
    BY <1>4, <1>5
  <2> HIDE DEF Q
  <2> QED
    BY <1>5, <2>1, <2>2, <2>3, FlatIn
<1>9. CASE doc.id.name = Unset
  <2>1. MarshalMarkdown(doc).body = EmptyText \o FlattenSeq(slots)
    BY <1>1, <1>9 DEF EmptyText
  <2>2. WordsInBody(EmptyText \o FlattenSeq(slots)) = WordsOf(FlattenSeq(slots))
    BY <1>8, UntitledSays
  <2>3. EmptyText \o FlattenSeq(slots) \in Seq(Line)
    BY <1>6, NothingSays, ConcatSays DEF Text
  <2> QED
    BY <1>2, <1>7, <2>1, <2>2, <2>3
<1>10. CASE doc.id.name # Unset
  <2>1. MarshalMarkdown(doc).body = (EmptyText \o <<<<Title, doc.id.name>>, <<>>>>) \o FlattenSeq(slots)
    BY <1>1, <1>10
  <2>2. doc.id.name \in Piece
    BY DEF IsIdentity
  <2>3. /\ (EmptyText \o <<<<Title, doc.id.name>>, <<>>>>) \o FlattenSeq(slots) \in Seq(Line)
        /\ WordsInBody((EmptyText \o <<<<Title, doc.id.name>>, <<>>>>) \o FlattenSeq(slots))
             = WordsOf(FlattenSeq(slots))
    BY <1>6, <2>2, TitledSays
  <2> QED
    BY <1>2, <1>7, <2>1, <2>3
<1> QED
  BY <1>9, <1>10

-----------------------------------------------------------------------------
(* What is read.                                                           *)

\* A mark taken off a line is nobody's word.
LEMMA UnmarkedSays ==
  ASSUME NEW line \in Line, line # <<>>, Head(line) \in Marks
  PROVE  Tail(line) \in Line /\ ToSet(Tail(line)) \ Marks = ToSet(line) \ Marks
<1>1. line \in Seq(Piece)
  BY DEF Line
<1>2. Head(line) \in Piece /\ Tail(line) \in Line /\ line = <<Head(line)>> \o Tail(line)
  BY <1>1 DEF Line
<1>3. ToSet(<<Head(line)>> \o Tail(line)) \ Marks = ToSet(Tail(line)) \ Marks
  BY <1>2, MarkedSays
<1> QED
  BY <1>2, <1>3

\* A line of **term**: definition says what the term and the definition say.
LEMMA ParseTermSays ==
  ASSUME NEW item \in Text, NEW t \in ParseTerm(item)
  PROVE  t \in [term : Line, definition : Text] /\ WordsOf(TermItem(t)) = WordsOf(item)
<1>DEFINE line == Head(item)
          more == Tail(item)
          end == {i \in DOMAIN line : line[i] = BoldEnd /\ i > 2}
          before == SubSeq(line, 2, Min(end) - 1)
          after == SubSeq(line, Min(end) + 1, Len(line))
          means == <<after>> \o more
<1>1. /\ line \in Line /\ more \in Seq(Line)
      /\ WordsOf(item) = (ToSet(line) \ Marks) \cup WordsOf(more)
  BY HeadAndTail
<1>2. /\ StartsWith(line, Bold) /\ end # {}
      /\ t = [term |-> TrimLine(before), definition |-> TrimSpace(means)]
  BY DEF ParseTerm
<1> HIDE DEF line, more
<1>3. line \in Seq(Piece) /\ Len(line) \in Nat /\ DOMAIN line = 1..Len(line)
  BY <1>1 DEF Line
<1>4. end \in SUBSET Nat /\ \A i \in end : i \in 1..Len(line) /\ line[i] = BoldEnd /\ i > 2
  BY <1>3
<1>5. Min(end) \in 1..Len(line) /\ line[Min(end)] = BoldEnd /\ Min(end) > 2 /\ Min(end) \in Nat
  <2> HIDE DEF end
  <2>1. Min(end) \in end
    BY <1>2, <1>4, MinIs
  <2> QED
    BY <1>3, <1>4, <2>1
<1> HIDE DEF end
<1>6. /\ before \in Seq(Piece)
      /\ \A x : x \in ToSet(before) <=> \E i \in 2..(Min(end) - 1) : line[i] = x
  <2>1. Min(end) - 1 \in Nat /\ 2 <= (Min(end) - 1) + 1 /\ Min(end) - 1 <= Len(line)
    BY <1>3, <1>5
  <2>DEFINE last == Min(end) - 1
  <2> HIDE DEF last
  <2>2. /\ SubSeq(line, 2, last) \in Seq(Piece)
        /\ \A x : x \in ToSet(SubSeq(line, 2, last)) <=> \E i \in 2..last : line[i] = x
    BY <1>3, <2>1, PartMembers DEF last
  <2> QED
    BY <2>2 DEF last
<1>7. /\ after \in Seq(Piece)
      /\ \A x : x \in ToSet(after) <=> \E i \in (Min(end) + 1)..Len(line) : line[i] = x
  BY <1>3, <1>5, PartMembers
<1> HIDE DEF before, after
<1>8. ToSet(line) \ Marks = (ToSet(before) \ Marks) \cup (ToSet(after) \ Marks)
  <2>1. \A x : x \in ToSet(line) <=> \E i \in 1..Len(line) : line[i] = x
    BY <1>3, Members
  <2>2. line[1] \in Marks /\ line[Min(end)] \in Marks
    BY <1>2, <1>3, <1>5, MarksArePieces DEF StartsWith
  <2>3. \A i \in 1..Len(line) : i = 1 \/ i \in 2..(Min(end) - 1) \/ i = Min(end) \/ i \in (Min(end) + 1)..Len(line)
    BY <1>3, <1>5
  <2>4. \A i : i \in 2..(Min(end) - 1) \/ i \in (Min(end) + 1)..Len(line) => i \in 1..Len(line)
    BY <1>3, <1>5
  <2> QED
    BY <1>6, <1>7, <2>1, <2>2, <2>3, <2>4
<1>9. TrimLine(before) \in Line /\ ToSet(TrimLine(before)) \ Marks = ToSet(before) \ Marks
  BY <1>6, TrimLineSays DEF Line
<1>10. means \in Text /\ WordsOf(means) = (ToSet(after) \ Marks) \cup WordsOf(more)
  <2>1. <<after>> \in Seq(Line) /\ WordsOf(<<after>>) = ToSet(after) \ Marks /\ Len(<<after>>) = 1
    BY <1>7, LineSays DEF Line, Text
  <2>2. means \in Seq(Line) /\ WordsOf(means) = WordsOf(<<after>>) \cup WordsOf(more)
    BY <1>1, <2>1, ConcatSays
  <2>3. means # <<>>
    <3>1. Len(means) = Len(<<after>>) + Len(more) /\ Len(more) \in Nat
      BY <1>1, <2>1, ConcatPlaces
    <3>2. Len(<<>>) = 0
      OBVIOUS
    <3> QED
      BY <2>1, <3>1, <3>2
  <2> QED
    BY <2>1, <2>2, <2>3 DEF Text
<1> HIDE DEF means
<1>11. TrimSpace(means) \in Text /\ WordsOf(TrimSpace(means)) = WordsOf(means)
  BY <1>10, TrimSpaceSays
<1>12. t \in [term : Line, definition : Text]
  BY <1>2, <1>9, <1>11
<1>13. WordsOf(TermItem(t)) = (ToSet(t.term) \ Marks) \cup WordsOf(t.definition)
  BY <1>12, TermItemSays
<1> QED
  BY <1>1, <1>2, <1>8, <1>9, <1>10, <1>11, <1>12, <1>13

\* The words of some items.
Said(items) == UNION {WordsOf(items[i]) : i \in DOMAIN items}

\* What items say is what each of them says.
LEMMA ItemsSay ==
  ASSUME NEW items \in Seq(Text)
  PROVE  \A w : w \in Said(items) <=> \E x \in ToSet(items) : w \in WordsOf(x)
<1>1. DOMAIN items = 1..Len(items) /\ \A x : x \in ToSet(items) <=> \E i \in 1..Len(items) : items[i] = x
  BY Members
<1> QED
  BY <1>1 DEF Said

\* One more item.
LEMMA OneMoreSays ==
  ASSUME NEW items \in Seq(Text), NEW item \in Text
  PROVE  Append(items, item) \in Seq(Text) /\ Said(Append(items, item)) = Said(items) \cup WordsOf(item)
<1>1. Append(items, item) \in Seq(Text) /\ ToSet(Append(items, item)) = ToSet(items) \cup {item}
  BY AppendMembers
<1>2. \A w : w \in Said(items) <=> \E x \in ToSet(items) : w \in WordsOf(x)
  BY ItemsSay
<1>3. \A w : w \in Said(Append(items, item)) <=> \E x \in ToSet(Append(items, item)) : w \in WordsOf(x)
  BY <1>1, ItemsSay
<1> QED
  BY <1>1, <1>2, <1>3

\* One more line of the last item.
LEMMA LongerSays ==
  ASSUME NEW items \in Seq(Text), items # <<>>, NEW rest \in Line
  PROVE  LET longer == Front(items) \o <<Append(Last(items), rest)>>
         IN longer \in Seq(Text) /\ Said(longer) = Said(items) \cup (ToSet(rest) \ Marks)
<1>DEFINE front == Front(items)
          last == Last(items)
<1>1. front \in Seq(Text) /\ last \in Text /\ items = Append(front, last)
  <2>1. Len(items) \in Nat /\ Len(items) # 0
    OBVIOUS
  <2>2. front = SubSeq(items, 1, Len(items) - 1) /\ last = items[Len(items)]
    BY DEF Front, Last
  <2>3. front \in Seq(Text) /\ last \in Text
    BY <2>1, <2>2
  <2>4. Len(front) = Len(items) - 1 /\ \A i \in 1..(Len(items) - 1) : front[i] = items[i]
    <3>DEFINE n == Len(items) - 1
    <3>1. n \in Nat /\ n + 1 = Len(items)
      BY <2>1
    <3> HIDE DEF n
    <3>2. /\ Len(SubSeq(items, 1, n)) = n - 1 + 1
          /\ \A i \in 1..(n - 1 + 1) : SubSeq(items, 1, n)[i] = items[1 + i - 1]
      BY <3>1, PartMembers
    <3>3. n - 1 + 1 = n /\ \A i \in 1..n : 1 + i - 1 = i
      BY <3>1
    <3> QED
      BY <2>2, <3>2, <3>3 DEF n
  <2> HIDE DEF front, last
  <2>5. Append(front, last) \in Seq(Text) /\ Len(Append(front, last)) = Len(items)
    BY <2>1, <2>3, <2>4
  <2>6. \A i \in 1..Len(items) : Append(front, last)[i] = items[i]
    BY <2>1, <2>2, <2>3, <2>4
  <2> QED
    BY <2>3, <2>5, <2>6, SeqEqual
<1> HIDE DEF front, last
<1>2. last \in Seq(Line)
  BY <1>1 DEF Text
<1>3. Append(last, rest) \in Seq(Line) /\ Append(last, rest) # <<>>
  BY <1>2
<1>4. WordsOf(Append(last, rest)) = WordsOf(last) \cup (ToSet(rest) \ Marks)
  <2>1. Append(last, rest) = last \o <<rest>> /\ <<rest>> \in Seq(Line)
    BY <1>2
  <2>2. WordsOf(last \o <<rest>>) = WordsOf(last) \cup WordsOf(<<rest>>)
    BY <1>2, <2>1, ConcatSays
  <2>3. WordsOf(<<rest>>) = ToSet(rest) \ Marks
    BY LineSays
  <2> QED
    BY <2>1, <2>2, <2>3
<1>5. Append(last, rest) \in Text
  BY <1>3 DEF Text
<1>6. /\ Append(front, Append(last, rest)) \in Seq(Text)
      /\ Said(Append(front, Append(last, rest))) = Said(front) \cup WordsOf(Append(last, rest))
  BY <1>1, <1>5, OneMoreSays
<1>7. Said(items) = Said(front) \cup WordsOf(last)
  BY <1>1, OneMoreSays
<1>8. front \o <<Append(last, rest)>> = Append(front, Append(last, rest))
  BY <1>1, <1>5
<1>9. Said(Append(front, Append(last, rest))) = Said(items) \cup (ToSet(rest) \ Marks)
  BY <1>4, <1>6, <1>7
<1> QED
  BY <1>6, <1>8, <1>9 DEF front, last

\* What has been read of a section.
Reading == [items : Seq(Text), stray : BOOLEAN]

\* A line that is not stray is kept with all its words.
LEMMA ReadBulletSays ==
  ASSUME NEW acc \in Reading, NEW line \in Line
  PROVE  /\ ReadBullet(acc, line) \in Reading
         /\ ~ReadBullet(acc, line).stray =>
              ~acc.stray /\ Said(ReadBullet(acc, line).items) = Said(acc.items) \cup (ToSet(line) \ Marks)
<1>DEFINE next == ReadBullet(acc, line)
          longer(rest) == Front(acc.items) \o <<Append(Last(acc.items), rest)>>
<1>0. acc.items \in Seq(Text) /\ acc.stray \in BOOLEAN /\ acc = [items |-> acc.items, stray |-> acc.stray]
  BY DEF Reading
<1>1. CASE StartsWith(line, Bullet)
  <2>DEFINE more == Append(acc.items, <<Tail(line)>>)
  <2>1. next = [acc EXCEPT !.items = more]
    <3>1. ~BlankLine(line)
      <4>1. line \in Seq(Piece) /\ Len(line) # 0
        BY <1>1 DEF StartsWith, Line
      <4>2. line[1] = Bullet /\ 1 \in DOMAIN line
        BY <1>1, <4>1 DEF StartsWith
      <4>3. Bullet \in ToSet(line) /\ Bullet \notin Spaces
        BY <4>2 DEF ToSet, Bullet, Spaces, Indent
      <4> QED
        BY <4>3 DEF BlankLine
    <3>2. ~StartsWith(line, Indent)
      BY <1>1 DEF StartsWith, Bullet, Indent
    <3> QED
      BY <1>1, <3>1, <3>2 DEF ReadBullet
  <2>2. Tail(line) \in Line /\ ToSet(Tail(line)) \ Marks = ToSet(line) \ Marks
    BY <1>1, UnmarkedSays, MarksArePieces DEF StartsWith
  <2>3. <<Tail(line)>> \in Text /\ WordsOf(<<Tail(line)>>) = ToSet(line) \ Marks
    BY <2>2, LineSays
  <2>4. more \in Seq(Text) /\ Said(more) = Said(acc.items) \cup WordsOf(<<Tail(line)>>)
    BY <1>0, <2>3, OneMoreSays
  <2> HIDE DEF next, more
  <2>5. next = [items |-> more, stray |-> acc.stray]
    BY <1>0, <2>1
  <2>6. next \in Reading
    BY <1>0, <2>4, <2>5 DEF Reading
  <2>7. Said(next.items) = Said(acc.items) \cup (ToSet(line) \ Marks) /\ next.stray = acc.stray
    BY <2>3, <2>4, <2>5
  <2> QED
    BY <2>6, <2>7 DEF next
<1>2. CASE ~StartsWith(line, Bullet) /\ BlankLine(line)
  <2>0. ToSet(line) \ Marks = {}
    BY <1>2, BlanksSay
  <2>1. CASE acc.items = <<>>
    <3>1. next = acc
      BY <1>2, <2>1 DEF ReadBullet
    <3> QED
      BY <1>0, <2>0, <3>1
  <2>2. CASE acc.items # <<>>
    <3>1. next = [items |-> longer(<<>>), stray |-> acc.stray]
      BY <1>0, <1>2, <2>2 DEF ReadBullet
    <3>2. longer(<<>>) \in Seq(Text) /\ Said(longer(<<>>)) = Said(acc.items) \cup (ToSet(<<>>) \ Marks)
      BY <1>0, <2>2, LongerSays, NothingSays
    <3> HIDE DEF longer
    <3> QED
      BY <1>0, <2>0, <3>1, <3>2, NothingSays DEF Reading
  <2> QED
    BY <2>1, <2>2
<1>3. CASE ~StartsWith(line, Bullet) /\ ~BlankLine(line) /\ StartsWith(line, Indent) /\ acc.items # <<>>
  <2>1. next = [items |-> longer(Tail(line)), stray |-> acc.stray]
    BY <1>0, <1>3 DEF ReadBullet
  <2>2. Tail(line) \in Line /\ ToSet(Tail(line)) \ Marks = ToSet(line) \ Marks
    BY <1>3, UnmarkedSays, MarksArePieces DEF StartsWith
  <2>3. longer(Tail(line)) \in Seq(Text)
        /\ Said(longer(Tail(line))) = Said(acc.items) \cup (ToSet(Tail(line)) \ Marks)
    BY <1>0, <1>3, <2>2, LongerSays
  <2> HIDE DEF longer
  <2> QED
    BY <1>0, <2>1, <2>2, <2>3 DEF Reading
<1>4. CASE ~StartsWith(line, Bullet) /\ ~BlankLine(line) /\ ~(StartsWith(line, Indent) /\ acc.items # <<>>)
  <2>1. next = [items |-> acc.items, stray |-> TRUE]
    BY <1>0, <1>4 DEF ReadBullet
  <2> QED
    BY <1>0, <2>1 DEF Reading
<1> QED
  BY <1>1, <1>2, <1>3, <1>4

\* Nothing read yet.
Unread == [items |-> <<>>, stray |-> FALSE]

\* What has been read of the first n lines: the function Read of parseBullets.
ReadTo(f, content, n) == f = [i \in 0..n |-> IF i = 0 THEN Unread ELSE ReadBullet(f[i - 1], content[i])]

\* There is such a function.
LEMMA ReadExists ==
  ASSUME NEW content, NEW n \in Nat
  PROVE  \E f : ReadTo(f, content, n)
<1>DEFINE N == {k \in Nat : \E f : ReadTo(f, content, k)}
<1>1. 0 \in N
  <2>DEFINE f == [i \in 0..0 |-> Unread]
  <2>1. \A i \in 0..0 : i = 0
    OBVIOUS
  <2>2. f = [i \in 0..0 |-> IF i = 0 THEN Unread ELSE ReadBullet(f[i - 1], content[i])]
    BY <2>1
  <2> QED
    BY <2>2 DEF ReadTo
<1>2. ASSUME NEW k \in N PROVE k + 1 \in N
  <2>1. PICK f : ReadTo(f, content, k)
    OBVIOUS
  <2>DEFINE new == ReadBullet(f[k], content[k + 1])
            g == [i \in 0..(k + 1) |-> IF i <= k THEN f[i] ELSE new]
  <2>2. ASSUME NEW i \in 0..(k + 1)
        PROVE  g[i] = IF i = 0 THEN Unread ELSE ReadBullet(g[i - 1], content[i])
    <3>1. CASE i <= k
      <4>1. i \in 0..k /\ g[i] = f[i] /\ (i # 0 => i - 1 \in 0..(k + 1) /\ g[i - 1] = f[i - 1])
        BY <3>1
      <4>2. f[i] = IF i = 0 THEN Unread ELSE ReadBullet(f[i - 1], content[i])
        BY <2>1, <4>1 DEF ReadTo
      <4> HIDE DEF g
      <4> QED
        BY <4>1, <4>2
    <3>2. CASE i = k + 1
      <4>1. g[i] = new
        BY <3>2
      <4>2. i # 0 /\ i - 1 = k /\ k \in 0..(k + 1) /\ g[k] = f[k]
        BY <3>2
      <4> HIDE DEF g
      <4> QED
        BY <3>2, <4>1, <4>2
    <3> QED
      BY <3>1, <3>2
  <2>3. g = [i \in 0..(k + 1) |-> IF i = 0 THEN Unread ELSE ReadBullet(g[i - 1], content[i])]
    BY <2>2
  <2>4. ReadTo(g, content, k + 1)
    BY <2>3 DEF ReadTo
  <2> QED
    BY <2>4
<1> HIDE DEF N
<1>3. N = Nat
  <2>1. N \in SUBSET Nat
    BY DEF N
  <2> QED
    BY <1>1, <1>2, <2>1, SetInduction
<1> QED
  BY <1>3 DEF N

\* Every such function keeps the words of the lines it has read.
LEMMA ReadKeeps ==
  ASSUME NEW content \in Seq(Line), NEW f, ReadTo(f, content, Len(content)), NEW n \in 0..Len(content)
  PROVE  /\ f[n] \in Reading
         /\ ~f[n].stray => \A w : w \in Said(f[n].items)
                                    <=> w \notin Marks /\ \E i \in 1..n : w \in ToSet(content[i])
<1>DEFINE P(k) == /\ f[k] \in Reading
                  /\ ~f[k].stray => \A w : w \in Said(f[k].items)
                                             <=> w \notin Marks /\ \E i \in 1..k : w \in ToSet(content[i])
          N == {k \in Nat : k \in 0..Len(content) => P(k)}
<1>0. Len(content) \in Nat /\ \A i \in 1..Len(content) : content[i] \in Line
  OBVIOUS
<1>1. 0 \in N
  <2>1. f[0] = Unread
    BY <1>0 DEF ReadTo
  <2>2. Unread \in Reading
    BY DEF Unread, Reading
  <2>3. Said(Unread.items) = {}
    BY DEF Unread, Said
  <2>4. 1..0 = {}
    OBVIOUS
  <2>5. P(0)
    BY <2>1, <2>2, <2>3, <2>4
  <2> QED
    BY <2>5
<1>2. ASSUME NEW k \in N PROVE k + 1 \in N
  <2> SUFFICES ASSUME k + 1 \in 0..Len(content) PROVE P(k + 1)
    OBVIOUS
  <2>1. k \in 0..Len(content) /\ k + 1 # 0 /\ (k + 1) - 1 = k /\ k + 1 \in 1..Len(content)
    BY <1>0
  <2>2. f[k + 1] = ReadBullet(f[k], content[k + 1])
    BY <2>1 DEF ReadTo
  <2>3. P(k)
    BY <2>1
  <2> HIDE DEF N
  <2>4. content[k + 1] \in Line
    BY <1>0, <2>1
  <2>a. f[k] \in Reading
    BY <2>3
  <2>5. /\ f[k + 1] \in Reading
        /\ ~f[k + 1].stray =>
             ~f[k].stray /\ Said(f[k + 1].items) = Said(f[k].items) \cup (ToSet(content[k + 1]) \ Marks)
    <3> HIDE DEF P
    <3> QED
      BY <2>2, <2>a, <2>4, ReadBulletSays
  <2>6. \A i : i \in 1..(k + 1) <=> i \in 1..k \/ i = k + 1
    BY <2>1
  <2>7. ASSUME ~f[k + 1].stray, NEW w
        PROVE  w \in Said(f[k + 1].items)
                 <=> w \notin Marks /\ \E i \in 1..(k + 1) : w \in ToSet(content[i])
    <3>1. w \in Said(f[k].items) <=> w \notin Marks /\ \E i \in 1..k : w \in ToSet(content[i])
      BY <2>3, <2>5, <2>7
    <3>2. w \in Said(f[k + 1].items) <=> w \in Said(f[k].items) \/ (w \in ToSet(content[k + 1]) /\ w \notin Marks)
      BY <2>5, <2>7
    <3>3. (\E i \in 1..(k + 1) : w \in ToSet(content[i]))
            <=> (\E i \in 1..k : w \in ToSet(content[i])) \/ w \in ToSet(content[k + 1])
      BY <2>6, Zenon
    <3> QED
      BY <3>1, <3>2, <3>3, Zenon
  <2> QED
    BY <2>5, <2>7, Zenon
<1> HIDE DEF N, P
<1>3. N = Nat
  <2>1. N \in SUBSET Nat
    BY DEF N
  <2> QED
    BY <1>1, <1>2, <2>1, SetInduction
<1>4. n \in N
  BY <1>3
<1>5. P(n)
  BY <1>4 DEF N
<1> QED
  BY <1>5 DEF P

\* A section of items that has no stray line is read with all its words.
LEMMA BulletsSay ==
  ASSUME NEW content \in Seq(Line)
  PROVE  /\ parseBullets(content) \in Reading
         /\ ~parseBullets(content).stray => Said(parseBullets(content).items) = WordsOf(content)
<1>DEFINE f == CHOOSE g : g = [i \in 0..Len(content) |->
                                 IF i = 0 THEN [items |-> <<>>, stray |-> FALSE]
                                 ELSE ReadBullet(g[i - 1], content[i])]
          read == f[Len(content)]
          trimmed == [i \in DOMAIN read.items |-> TrimNewlines(read.items[i])]
<1>0. Len(content) \in Nat
  OBVIOUS
<1>1. parseBullets(content) = [read EXCEPT !.items = trimmed]
  BY DEF parseBullets
<1>2. ReadTo(f, content, Len(content))
  <2>1. \E g : ReadTo(g, content, Len(content))
    BY <1>0, ReadExists
  <2>2. \E g : g = [i \in 0..Len(content) |-> IF i = 0 THEN [items |-> <<>>, stray |-> FALSE]
                                              ELSE ReadBullet(g[i - 1], content[i])]
    BY <2>1 DEF ReadTo, Unread
  <2> QED
    BY <2>2 DEF ReadTo, Unread
<1> HIDE DEF f
<1>3. Len(content) \in 0..Len(content)
  BY <1>0
<1>4. /\ read \in Reading
      /\ ~read.stray => \A w : w \in Said(read.items)
                                 <=> w \notin Marks /\ \E i \in 1..Len(content) : w \in ToSet(content[i])
  BY <1>2, <1>3, ReadKeeps
<1>5. ~read.stray => Said(read.items) = WordsOf(content)
  BY <1>4, TextSays
<1> HIDE DEF read
<1>6. read.items \in Seq(Text) /\ DOMAIN read.items = 1..Len(read.items) /\ Len(read.items) \in Nat
  BY <1>4 DEF Reading
<1>7. \A i \in 1..Len(read.items) :
        TrimNewlines(read.items[i]) \in Text /\ WordsOf(TrimNewlines(read.items[i])) = WordsOf(read.items[i])
  BY <1>6, TrimNewlinesSays
<1>8. trimmed \in Seq(Text) /\ DOMAIN trimmed = 1..Len(read.items)
      /\ \A i \in 1..Len(read.items) : WordsOf(trimmed[i]) = WordsOf(read.items[i])
  BY <1>6, <1>7
<1> HIDE DEF trimmed
<1>9. Said(trimmed) = Said(read.items)
  BY <1>6, <1>8 DEF Said
<1>10. parseBullets(content) = [items |-> trimmed, stray |-> read.stray] /\ read.stray \in BOOLEAN
  BY <1>1, <1>4 DEF Reading
<1> QED
  BY <1>5, <1>8, <1>9, <1>10 DEF Reading

\* What a well-formed section gives is a slot with all the words of its lines.
LEMMA ReadSlotSays ==
  ASSUME NEW k \in Key, NEW content \in Seq(Line), NEW slot \in ReadSlot(k, content)
  PROVE  slot \in SlotType(k) /\ WordsIn(k, slot) = WordsOf(content)
<1>DEFINE read == parseBullets(content)
          terms == [i \in DOMAIN read.items |-> ParseTerm(read.items[i])]
<1>0. KindOf[k] \in {"prose", "list", "terms"}
  BY DocumentAssumption
<1>1. CASE KindOf[k] = "prose"
  <2>DEFINE text == IF content = <<>> THEN EmptyText ELSE content
  <2>1. slot = TrimNewlines(text)
    BY <1>1 DEF ReadSlot
  <2>2. text \in Text /\ WordsOf(text) = WordsOf(content)
    BY NothingSays DEF Text
  <2> HIDE DEF text
  <2>3. slot \in Text /\ WordsOf(slot) = WordsOf(content)
    BY <2>1, <2>2, TrimNewlinesSays
  <2> QED
    BY <1>1, <2>3 DEF SlotType, WordsIn
<1>2. read.items \in Seq(Text) /\ (~read.stray => Said(read.items) = WordsOf(content))
  BY BulletsSay DEF Reading
<1>3. DOMAIN read.items = 1..Len(read.items) /\ Len(read.items) \in Nat
  BY <1>2
<1>4. CASE KindOf[k] = "list"
  <2>1. slot = read.items /\ ~read.stray
    BY <1>4 DEF ReadSlot
  <2> HIDE DEF read
  <2>2. slot \in SlotType(k)
    BY <1>2, <1>4, <2>1 DEF SlotType, Entry
  <2>3. WordsIn(k, slot) = Said(slot)
    BY <1>4 DEF WordsIn, Entries, Said
  <2> QED
    BY <1>2, <2>1, <2>2, <2>3
<1>5. CASE KindOf[k] = "terms"
  <2>DEFINE Term(i) == CHOOSE t \in terms[i] : TRUE
  <2>1. ~read.stray /\ \A i \in DOMAIN terms : terms[i] # {}
    BY <1>5 DEF ReadSlot
  <2>2. slot = [i \in DOMAIN terms |-> Term(i)]
    BY <1>5, <2>1 DEF ReadSlot
  <2> HIDE DEF read
  <2>3. DOMAIN terms = 1..Len(read.items)
    BY <1>3
  <2>4. \A i \in 1..Len(read.items) : Term(i) \in ParseTerm(read.items[i]) /\ read.items[i] \in Text
    BY <1>2, <2>1, <2>3
  <2> HIDE DEF terms, Term
  <2>5. \A i \in 1..Len(read.items) : /\ Term(i) \in [term : Line, definition : Text]
                                      /\ WordsOf(TermItem(Term(i))) = WordsOf(read.items[i])
    BY <2>4, ParseTermSays
  <2>6. DOMAIN slot = 1..Len(read.items) /\ \A i \in 1..Len(read.items) : slot[i] = Term(i)
    BY <2>2, <2>3
  <2>7. slot \in Seq([term : Line, definition : Text])
    BY <1>3, <2>2, <2>3, <2>5
  <2>8. slot \in SlotType(k)
    BY <1>5, <2>7 DEF SlotType, Entry
  <2>9. WordsIn(k, slot) = UNION {WordsOf(TermItem(slot[i])) : i \in DOMAIN slot}
    <3>1. Entries(k, slot) = [i \in DOMAIN slot |-> TermItem(slot[i])]
      BY <1>5 DEF Entries
    <3> QED
      BY <1>5, <3>1 DEF WordsIn
  <2>10. WordsIn(k, slot) = Said(read.items)
    BY <1>3, <2>5, <2>6, <2>9 DEF Said
  <2> QED
    BY <1>2, <2>1, <2>8, <2>10
<1> QED
  BY <1>0, <1>1, <1>4, <1>5

\* A slot that is not in the file says nothing.
LEMMA NoContentSays ==
  ASSUME NEW k \in Key
  PROVE  NoContent[k] \in SlotType(k) /\ WordsIn(k, NoContent[k]) = {}
<1>1. CASE KindOf[k] = "prose"
  BY <1>1, NothingSays DEF NoContent, SlotType, WordsIn
<1>2. CASE KindOf[k] # "prose"
  <2>1. NoContent[k] = <<>> /\ DOMAIN NoContent[k] = {}
    BY <1>2 DEF NoContent
  <2>2. NoContent[k] \in SlotType(k)
    BY <1>2, <2>1 DEF SlotType
  <2>3. WordsIn(k, NoContent[k]) = {}
    BY <1>2, <2>1 DEF WordsIn
  <2> QED
    BY <2>2, <2>3
<1> QED
  BY <1>1, <1>2

\* Where the section ends that begins at line h.
EndOf(body, h) == Min({i \in HeadingsIn(body) : i > h} \cup {Len(body) + 1})

\* A section ends after its heading, and not after the next one.
LEMMA EndIs ==
  ASSUME NEW body \in Seq(Line), NEW h \in HeadingsIn(body)
  PROVE  /\ h \in 1..Len(body) /\ EndOf(body, h) \in Nat
         /\ h < EndOf(body, h) /\ EndOf(body, h) <= Len(body) + 1
         /\ \A i : (\A j \in HeadingsIn(body) : j > h => i < j) /\ i \in 1..Len(body) => i < EndOf(body, h)
<1>DEFINE P == {i \in HeadingsIn(body) : i > h} \cup {Len(body) + 1}
<1>0. Len(body) \in Nat /\ DOMAIN body = 1..Len(body)
  OBVIOUS
<1>1. \A i \in HeadingsIn(body) : i \in 1..Len(body)
  BY <1>0 DEF HeadingsIn
<1>2. P \in SUBSET Nat /\ P # {} /\ Len(body) + 1 \in P
  BY <1>0, <1>1
<1>3. \A i \in P : i > h /\ (i = Len(body) + 1 \/ (i \in HeadingsIn(body) /\ i > h))
  BY <1>0, <1>1
<1>4. EndOf(body, h) = Min(P)
  BY DEF EndOf
<1> HIDE DEF P
<1>5. Min(P) \in P /\ \A i \in P : Min(P) <= i
  BY <1>2, MinIs
<1>6. Min(P) \in Nat /\ h < Min(P) /\ Min(P) <= Len(body) + 1
  BY <1>1, <1>2, <1>3, <1>5
<1>7. ASSUME NEW i \in 1..Len(body), \A j \in HeadingsIn(body) : j > h => i < j
      PROVE  i < Min(P)
  <2>1. i < Len(body) + 1
    BY <1>0
  <2> QED
    BY <1>3, <1>5, <1>7, <2>1
<1> QED
  BY <1>1, <1>4, <1>6, <1>7

\* The lines of a section.
LEMMA ContentIs ==
  ASSUME NEW body \in Seq(Line), NEW h \in HeadingsIn(body)
  PROVE  /\ Content(body, h) \in Seq(Line)
         /\ \A w : w \in WordsOf(Content(body, h))
                     <=> w \notin Marks /\ \E i \in (h + 1)..(EndOf(body, h) - 1) : w \in ToSet(body[i])
<1>DEFINE last == EndOf(body, h) - 1
<1>0. Len(body) \in Nat
  OBVIOUS
<1>1. /\ last \in Nat /\ h + 1 \in Nat /\ 1 <= h + 1 /\ h + 1 <= last + 1 /\ last <= Len(body)
  BY <1>0, EndIs
<1>2. Content(body, h) = SubSeq(body, h + 1, last)
  BY DEF Content, EndOf
<1> HIDE DEF last
<1>3. /\ SubSeq(body, h + 1, last) \in Seq(Line)
      /\ \A x : x \in ToSet(SubSeq(body, h + 1, last)) <=> \E i \in (h + 1)..last : body[i] = x
  BY <1>1, PartMembers
<1>4. \A w : w \in WordsOf(SubSeq(body, h + 1, last))
               <=> w \notin Marks /\ \E l \in ToSet(SubSeq(body, h + 1, last)) : w \in ToSet(l)
  BY <1>3, LinesSay
<1>5. \A w : w \in WordsOf(SubSeq(body, h + 1, last))
               <=> w \notin Marks /\ \E i \in (h + 1)..last : w \in ToSet(body[i])
  BY <1>3, <1>4
<1> QED
  BY <1>2, <1>3, <1>5 DEF last

\* The heading of a section is nobody's word.
LEMMA HeadingSays ==
  ASSUME NEW body \in Seq(Line), NEW k \in Key, NEW h \in SectionsOf(body, k)
  PROVE  ToSet(body[h]) \ Marks = {}
<1>1. h \in HeadingsIn(body) /\ TrimLine(Tail(body[h])) = <<HeadingOf[k]>>
  BY DEF SectionsOf
<1>2. body[h] \in Line /\ body[h] # <<>> /\ Head(body[h]) = Heading
  BY <1>1 DEF HeadingsIn, StartsWith
<1>3. Tail(body[h]) \in Line /\ ToSet(Tail(body[h])) \ Marks = ToSet(body[h]) \ Marks
  BY <1>2, UnmarkedSays, MarksArePieces
<1>4. ToSet(TrimLine(Tail(body[h]))) \ Marks = ToSet(Tail(body[h])) \ Marks
  BY <1>3, TrimLineSays
<1>5. ToSet(<<HeadingOf[k]>>) = {HeadingOf[k]}
  BY DEF ToSet
<1> QED
  BY <1>1, <1>3, <1>4, <1>5, MarksArePieces

\* A section that is there once is the last of its slot.
LEMMA OnceIsLast ==
  ASSUME NEW body \in Seq(Line), Once(body), NEW k \in Key, NEW h \in SectionsOf(body, k)
  PROVE  Max(SectionsOf(body, k)) = h
<1>DEFINE P == SectionsOf(body, k)
<1>1. P \in SUBSET (1..Len(body)) /\ Len(body) \in Nat
  BY DEF SectionsOf, HeadingsIn
<1>2. IsFiniteSet(P)
  <2>1. IsFiniteSet(1..Len(body))
    BY <1>1, FS_Interval
  <2> HIDE DEF P
  <2> QED
    BY <1>1, <2>1, FS_Subset
<1>3. Cardinality(P) <= 1
  BY DEF Once
<1> HIDE DEF P
<1>4. Max(P) \in P
  <2>1. P # {} /\ \A i \in P : i <= Len(body)
    BY <1>1 DEF P
  <2>2. P \in SUBSET Nat
    BY <1>1
  <2> QED
    BY <1>1, <2>1, <2>2, MaxIs
<1>5. SUFFICES ASSUME Max(P) # h PROVE FALSE
  BY DEF P
<1>6. {Max(P), h} \subseteq P
  BY <1>4 DEF P
<1>7. Cardinality({Max(P), h}) <= Cardinality(P)
  BY <1>2, <1>6, FS_Subset
<1>8. Cardinality({Max(P), h}) = 2
  <2>1. IsFiniteSet({h}) /\ Cardinality({h}) = 1
    BY FS_Singleton
  <2>2. Cardinality({h} \cup {Max(P)}) = Cardinality({h}) + 1
    BY <1>5, <2>1, FS_AddElement
  <2>3. {h} \cup {Max(P)} = {Max(P), h}
    OBVIOUS
  <2> QED
    BY <2>1, <2>2, <2>3
<1> QED
  BY <1>2, <1>3, <1>7, <1>8, FS_CardinalityType

\* Reading a well-formed file keeps its words: the slots say those of the body.
THEOREM ReadingKeepsWords ==
  ASSUME NEW file, file.body \in Seq(Line), WellFormed(file)
  PROVE  /\ \A k \in Key : UnmarshalMarkdown(file).slots[k] \in SlotType(k)
         /\ UnmarshalMarkdown(file).id = file.front.id
         /\ \A w : w \in WordsInBody(file.body)
                     <=> \E k \in Key : w \in WordsIn(k, UnmarshalMarkdown(file).slots[k])
<1>DEFINE body == file.body
          H == HeadingsIn(body)
          Slot(k) == IF SectionsOf(body, k) = {} THEN NoContent[k]
                     ELSE CHOOSE s \in ReadSlot(k, Content(body, Max(SectionsOf(body, k)))) : TRUE
<1>1. /\ Before(body) \subseteq TitleLines(body) /\ Once(body)
      /\ H \subseteq UNION {SectionsOf(body, k) : k \in Key}
      /\ \A k \in Key, h \in H : h \in SectionsOf(body, k) => ReadSlot(k, Content(body, h)) # {}
  BY DEF WellFormed
<1>2. /\ UnmarshalMarkdown(file).id = file.front.id
      /\ \A k \in Key : UnmarshalMarkdown(file).slots[k] = Slot(k)
  BY DEF UnmarshalMarkdown, Doc
<1>3. /\ body \in Seq(Line) /\ DOMAIN body = 1..Len(body) /\ Len(body) \in Nat
      /\ \A h \in H : h \in 1..Len(body)
  BY DEF HeadingsIn
<1> HIDE DEF Slot
<1>4. \A k \in Key : SectionsOf(body, k) = {} => Slot(k) \in SlotType(k) /\ WordsIn(k, Slot(k)) = {}
  BY NoContentSays DEF Slot
<1>5. ASSUME NEW k \in Key, NEW h \in SectionsOf(body, k)
      PROVE  /\ h \in H
             /\ Slot(k) \in SlotType(k) /\ WordsIn(k, Slot(k)) = WordsOf(Content(body, h))
  <2>1. h \in H
    BY DEF SectionsOf
  <2>2. Content(body, h) \in Seq(Line)
    BY <1>3, <2>1, ContentIs
  <2>3. Max(SectionsOf(body, k)) = h
    BY <1>1, <1>3, OnceIsLast
  <2>4. Slot(k) = CHOOSE s \in ReadSlot(k, Content(body, h)) : TRUE
    BY <2>3 DEF Slot
  <2>5. Slot(k) \in ReadSlot(k, Content(body, h))
    BY <1>1, <2>1, <2>4
  <2> QED
    BY <2>1, <2>2, <2>5, ReadSlotSays
<1>6. \A k \in Key : Slot(k) \in SlotType(k)
  BY <1>4, <1>5
<1>7. \A w : w \in WordsInBody(body)
               <=> w \notin Marks /\ \E i \in (1..Len(body)) \ TitleLines(body) : w \in ToSet(body[i])
  BY <1>3 DEF WordsInBody
<1>8. ASSUME NEW w, w \in WordsInBody(body) PROVE \E k \in Key : w \in WordsIn(k, Slot(k))
  <2>1. w \notin Marks
    BY <1>7, <1>8
  <2>2. PICK i \in (1..Len(body)) \ TitleLines(body) : w \in ToSet(body[i])
    BY <1>7, <1>8
  <2>DEFINE P == {h \in H : h <= i}
  <2>3. P # {}
    <3>1. ~BlankLine(body[i])
      BY <2>1, <2>2, BlanksSay
    <3>2. i \notin Before(body)
      BY <1>1, <2>2
    <3>3. PICK h \in H : ~(i < h)
      BY <1>3, <2>2, <3>1, <3>2 DEF Before
    <3>4. h <= i
      BY <1>3, <2>2, <3>3
    <3> QED
      BY <3>4
  <2>4. P \in SUBSET (1..i) /\ i \in Nat
    BY <1>3, <2>2
  <2>5. Max(P) \in P /\ \A j \in P : j <= Max(P)
    <3> HIDE DEF P
    <3> QED
      BY <2>3, <2>4, MaxIs
  <2> DEFINE h == Max(P)
  <2>6. h \in H /\ h <= i /\ \A j \in H : j > h => i < j
    <3>1. h \in H /\ h <= i
      BY <2>5
    <3>2. ASSUME NEW j \in H, j > h PROVE i < j
      <4>1. j \in Nat /\ h \in Nat /\ (j <= i => j \in P)
        BY <1>3, <3>1
      <4>2. j \in P => j <= h
        BY <2>5
      <4> HIDE DEF h, P
      <4> QED
        BY <2>4, <3>2, <4>1, <4>2
    <3> HIDE DEF h
    <3> QED
      BY <3>1, <3>2
  <2> HIDE DEF h, P
  <2>7. PICK k \in Key : h \in SectionsOf(body, k)
    BY <1>1, <2>6
  <2>8. h # i
    BY <1>3, <2>1, <2>2, <2>7, HeadingSays
  <2>9. i \in (h + 1)..(EndOf(body, h) - 1)
    <3>1. /\ h \in 1..Len(body) /\ EndOf(body, h) \in Nat
          /\ i < EndOf(body, h)
      BY <1>3, <2>2, <2>6, EndIs
    <3> QED
      BY <2>2, <2>6, <2>8, <3>1
  <2>10. w \in WordsOf(Content(body, h))
    BY <1>3, <2>1, <2>2, <2>6, <2>9, ContentIs
  <2> QED
    BY <1>5, <2>7, <2>10
<1>9. ASSUME NEW k \in Key, NEW w, w \in WordsIn(k, Slot(k)) PROVE w \in WordsInBody(body)
  <2>1. PICK h : h \in SectionsOf(body, k)
    BY <1>4, <1>9
  <2>2. h \in H /\ w \in WordsOf(Content(body, h))
    BY <1>5, <1>9, <2>1
  <2>3. w \notin Marks /\ \E i \in (h + 1)..(EndOf(body, h) - 1) : w \in ToSet(body[i])
    BY <1>3, <2>2, ContentIs
  <2>4. PICK i \in (h + 1)..(EndOf(body, h) - 1) : w \in ToSet(body[i])
    BY <2>3
  <2>5. i \in 1..Len(body) /\ h < i
    <3>1. /\ h \in 1..Len(body) /\ EndOf(body, h) \in Nat /\ EndOf(body, h) <= Len(body) + 1
      BY <1>3, <2>2, EndIs
    <3> QED
      BY <1>3, <2>4, <3>1
  <2>6. i \notin TitleLines(body)
    <3>1. i \notin Before(body)
      <4>1. ~(i < h)
        BY <1>3, <2>2, <2>5
      <4> QED
        BY <2>2, <4>1 DEF Before
    <3> QED
      BY <3>1 DEF TitleLines
  <2> QED
    BY <1>7, <2>3, <2>4, <2>5, <2>6
<1> QED
  BY <1>2, <1>6, <1>8, <1>9

-----------------------------------------------------------------------------
(* What comes back of what was written.  First, what trimming leaves as it *)
(* is.                                                                     *)

\* From the first place to the last is everything if both ends are among them,
\* and only then.
LEMMA WholeIs ==
  ASSUME NEW S, NEW s \in Seq(S), NEW P \in SUBSET (1..Len(s)), P # {}
  PROVE  SubSeq(s, Min(P), Max(P)) = s <=> 1 \in P /\ Len(s) \in P
<1>DEFINE lo == Min(P)
          hi == Max(P)
          part == SubSeq(s, lo, hi)
<1>0. Len(s) \in Nat /\ P \in SUBSET Nat
  OBVIOUS
<1>1. lo \in P /\ hi \in P /\ \A i \in P : lo <= i /\ i <= hi
  <2>1. lo \in P /\ \A i \in P : lo <= i
    BY <1>0, MinIs
  <2>2. hi \in P /\ \A i \in P : i <= hi
    BY <1>0, MaxIs
  <2> QED
    BY <2>1, <2>2
<1> HIDE DEF lo, hi
<1>2. lo \in Nat /\ hi \in Nat /\ 1 <= lo /\ lo <= hi + 1 /\ hi <= Len(s) /\ lo <= hi
  BY <1>0, <1>1
<1>3. /\ part \in Seq(S) /\ Len(part) = hi - lo + 1
      /\ \A i \in 1..(hi - lo + 1) : part[i] = s[lo + i - 1]
  BY <1>2, PartMembers
<1> HIDE DEF part
<1>4. ASSUME part = s PROVE 1 \in P /\ Len(s) \in P
  <2>1. hi - lo + 1 = Len(s)
    BY <1>3, <1>4
  <2>2. lo = 1 /\ hi = Len(s)
    BY <1>0, <1>2, <2>1
  <2> QED
    BY <1>1, <2>2
<1>5. ASSUME 1 \in P, Len(s) \in P PROVE part = s
  <2>1. lo = 1 /\ hi = Len(s)
    BY <1>0, <1>1, <1>2, <1>5
  <2>2. Len(part) = Len(s) /\ \A i \in 1..Len(s) : part[i] = s[i]
    BY <1>0, <1>3, <2>1
  <2> QED
    BY <1>3, <2>2, SeqEqual
<1> QED
  BY <1>4, <1>5 DEF part, lo, hi

\* Whether a line has a space at either end.
Tight(line) == line # <<>> /\ line[1] \notin Spaces /\ line[Len(line)] \notin Spaces

\* The lines that TrimSpace leaves as they are.
LEMMA TightIsTrimmed ==
  ASSUME NEW line \in Line, line # <<>>
  PROVE  TrimLine(line) = line <=> Tight(line)
<1> DEFINE solid == {i \in DOMAIN line : line[i] \notin Spaces}
<1>0. line \in Seq(Piece) /\ DOMAIN line = 1..Len(line) /\ Len(line) \in Nat /\ Len(line) # 0
  BY DEF Line
<1>1. TrimLine(line) = IF solid = {} THEN <<>> ELSE SubSeq(line, Min(solid), Max(solid))
  BY DEF TrimLine
<1>2. /\ solid \in SUBSET (1..Len(line))
      /\ 1 \in solid <=> line[1] \notin Spaces
      /\ Len(line) \in solid <=> line[Len(line)] \notin Spaces
  BY <1>0
<1> HIDE DEF solid
<1>3. solid # {} => (SubSeq(line, Min(solid), Max(solid)) = line <=> 1 \in solid /\ Len(line) \in solid)
  BY <1>0, <1>2, WholeIs
<1> QED
  BY <1>1, <1>2, <1>3 DEF Tight

\* A tight line is not blank.
LEMMA TightIsNotBlank ==
  ASSUME NEW line \in Line, Tight(line)
  PROVE  ~BlankLine(line)
<1>1. line \in Seq(Piece) /\ 1 \in 1..Len(line)
  BY DEF Tight, Line
<1>2. line[1] \in ToSet(line)
  BY <1>1, Members
<1> QED
  BY <1>2 DEF BlankLine, Tight

\* One after the other, tight lines are one.
LEMMA TightConcat ==
  ASSUME NEW line \in Line, NEW more \in Line, Tight(line), Tight(more)
  PROVE  line \o more \in Line /\ Tight(line \o more)
<1>1. line \in Seq(Piece) /\ more \in Seq(Piece) /\ line # <<>> /\ more # <<>>
  BY DEF Line, Tight
<1>2. /\ line \o more \in Seq(Piece) /\ Len(line \o more) = Len(line) + Len(more)
      /\ Len(line) \in Nat /\ Len(more) \in Nat
      /\ \A i \in 1..Len(line) : (line \o more)[i] = line[i]
      /\ \A i \in 1..Len(more) : (line \o more)[Len(line) + i] = more[i]
  BY <1>1, ConcatPlaces
<1>3. Len(line) # 0 /\ Len(more) # 0
  BY <1>1
<1>4. /\ (line \o more)[1] = line[1] /\ (line \o more)[Len(line \o more)] = more[Len(more)]
      /\ line \o more # <<>>
  BY <1>1, <1>2, <1>3
<1> QED
  BY <1>2, <1>4 DEF Tight, Line

\* A text with no empty line at either end.
Full(text) == text # <<>> /\ text[1] # <<>> /\ text[Len(text)] # <<>>

\* The texts that strings.Trim leaves as they are.
LEMMA FullIsTrimmed ==
  ASSUME NEW text \in Text, text # EmptyText, text = TrimNewlines(text)
  PROVE  Full(text)
<1> DEFINE full == {i \in DOMAIN text : text[i] # <<>>}
<1>0. text \in Seq(Line) /\ text # <<>> /\ DOMAIN text = 1..Len(text)
  BY DEF Text
<1>1. TrimNewlines(text) = IF full = {} THEN EmptyText ELSE SubSeq(text, Min(full), Max(full))
  BY DEF TrimNewlines
<1>2. /\ full \in SUBSET (1..Len(text))
      /\ 1 \in full => text[1] # <<>>
      /\ Len(text) \in full => text[Len(text)] # <<>>
  BY <1>0
<1> HIDE DEF full
<1>3. full # {} => (SubSeq(text, Min(full), Max(full)) = text <=> 1 \in full /\ Len(text) \in full)
  BY <1>0, <1>2, WholeIs
<1> QED
  BY <1>0, <1>1, <1>2, <1>3 DEF Full

\* Where the lines of three texts are.
LEMMA ThreePlaces ==
  ASSUME NEW S, NEW p \in Seq(S), NEW q \in Seq(S), NEW r \in Seq(S)
  PROVE  /\ p \o q \o r \in Seq(S) /\ Len(p \o q \o r) = Len(p) + Len(q) + Len(r)
         /\ Len(p) \in Nat /\ Len(q) \in Nat /\ Len(r) \in Nat
         /\ \A i \in 1..Len(p) : (p \o q \o r)[i] = p[i]
         /\ \A i \in 1..Len(q) : (p \o q \o r)[Len(p) + i] = q[i]
         /\ \A i \in 1..Len(r) : (p \o q \o r)[Len(p) + Len(q) + i] = r[i]
<1> DEFINE upper == p \o q
<1>1. /\ upper \in Seq(S) /\ Len(upper) = Len(p) + Len(q) /\ Len(p) \in Nat /\ Len(q) \in Nat
      /\ \A i \in 1..Len(p) : upper[i] = p[i]
      /\ \A i \in 1..Len(q) : upper[Len(p) + i] = q[i]
  BY ConcatPlaces
<1>a. upper \in Seq(S)
  BY <1>1
<1> HIDE DEF upper
<1>2. /\ upper \o r \in Seq(S) /\ Len(upper \o r) = Len(upper) + Len(r) /\ Len(r) \in Nat
      /\ \A i \in 1..Len(upper) : (upper \o r)[i] = upper[i]
      /\ \A i \in 1..Len(r) : (upper \o r)[Len(upper) + i] = r[i]
  BY <1>a, ConcatPlaces
<1>3. \A i \in 1..Len(p) : i \in 1..Len(upper)
  BY <1>1
<1>4. \A i \in 1..Len(q) : Len(p) + i \in 1..Len(upper)
  BY <1>1
<1> QED
  BY <1>1, <1>2, <1>3, <1>4 DEF upper

\* Empty lines before and after such a text go.
LEMMA PaddingGoes ==
  ASSUME NEW text \in Seq(Line), Full(text), NEW above \in Seq(Line), NEW below \in Seq(Line),
         \A i \in 1..Len(above) : above[i] = <<>>, \A i \in 1..Len(below) : below[i] = <<>>
  PROVE  TrimNewlines(above \o text \o below) = text
<1> DEFINE padded == above \o text \o below
          full == {i \in DOMAIN padded : padded[i] # <<>>}
          n == Len(above)
<1>3. /\ padded \in Seq(Line) /\ Len(padded) = n + Len(text) + Len(below)
      /\ n \in Nat /\ Len(text) \in Nat /\ Len(below) \in Nat
      /\ \A i \in 1..n : padded[i] = above[i]
      /\ \A i \in 1..Len(text) : padded[n + i] = text[i]
      /\ \A i \in 1..Len(below) : padded[n + Len(text) + i] = below[i]
  BY ThreePlaces
<1>4. text # <<>> /\ text[1] # <<>> /\ text[Len(text)] # <<>> /\ Len(text) # 0
  BY DEF Full
<1> HIDE DEF padded, n
<1>5. DOMAIN padded = 1..Len(padded)
  BY <1>3
<1>7. n + 1 \in full /\ n + Len(text) \in full
  <2>1. 1 \in 1..Len(text) /\ Len(text) \in 1..Len(text)
    BY <1>3, <1>4
  <2>2. padded[n + 1] # <<>> /\ padded[n + Len(text)] # <<>>
    BY <1>3, <1>4, <2>1
  <2>3. n + 1 \in 1..Len(padded) /\ n + Len(text) \in 1..Len(padded)
    BY <1>3, <2>1
  <2> QED
    BY <1>5, <2>2, <2>3
<1>8. ASSUME NEW i \in full PROVE i \in (n + 1)..(n + Len(text))
  <2>1. i \in 1..Len(padded) /\ padded[i] # <<>>
    BY <1>5
  <2>2. ~(i <= n)
    <3> SUFFICES ASSUME i <= n PROVE FALSE
      OBVIOUS
    <3>1. i \in 1..n
      BY <1>3, <2>1
    <3>2. padded[i] = above[i]
      BY <1>3, <3>1
    <3>3. above[i] = <<>>
      BY <3>1 DEF n
    <3> QED
      BY <2>1, <3>2, <3>3
  <2>3. ~(i > n + Len(text))
    <3> SUFFICES ASSUME i > n + Len(text) PROVE FALSE
      OBVIOUS
    <3>1. i - (n + Len(text)) \in 1..Len(below) /\ n + Len(text) + (i - (n + Len(text))) = i
      BY <1>3, <2>1
    <3>2. padded[i] = below[i - (n + Len(text))]
      BY <1>3, <3>1
    <3> QED
      BY <2>1, <3>1, <3>2
  <2> QED
    BY <1>3, <2>1, <2>2, <2>3
<1>9. TrimNewlines(padded) = SubSeq(padded, Min(full), Max(full))
  <2>1. TrimNewlines(padded) = IF full = {} THEN EmptyText ELSE SubSeq(padded, Min(full), Max(full))
    BY DEF TrimNewlines
  <2> QED
    BY <1>7, <2>1
<1>10. full \in SUBSET (1..Len(padded))
  BY <1>5
<1> HIDE DEF full
<1>11. Min(full) = n + 1 /\ Max(full) = n + Len(text)
  <2>1. Min(full) \in full /\ \A i \in full : Min(full) <= i
    <3>1. full \in SUBSET Nat
      BY <1>10
    <3> QED
      BY <1>7, <3>1, MinIs
  <2>2. Max(full) \in full /\ \A i \in full : i <= Max(full)
    <3>1. Len(padded) \in Nat
      BY <1>3
    <3> QED
      BY <1>7, <1>10, <3>1, MaxIs
  <2> QED
    BY <1>3, <1>7, <1>8, <2>1, <2>2
<1>12. /\ SubSeq(padded, n + 1, n + Len(text)) \in Seq(Line)
       /\ Len(SubSeq(padded, n + 1, n + Len(text))) = (n + Len(text)) - (n + 1) + 1
       /\ \A i \in 1..((n + Len(text)) - (n + 1) + 1) :
            SubSeq(padded, n + 1, n + Len(text))[i] = padded[(n + 1) + i - 1]
  <2> DEFINE a == n + 1
            b == n + Len(text)
  <2>1. a \in Nat /\ b \in Nat /\ 1 <= a /\ a <= b + 1 /\ b <= Len(padded)
    BY <1>3
  <2> HIDE DEF a, b
  <2>2. /\ SubSeq(padded, a, b) \in Seq(Line) /\ Len(SubSeq(padded, a, b)) = b - a + 1
        /\ \A i \in 1..(b - a + 1) : SubSeq(padded, a, b)[i] = padded[a + i - 1]
    BY <1>3, <2>1, PartMembers
  <2> QED
    BY <2>2 DEF a, b
<1>13. (n + Len(text)) - (n + 1) + 1 = Len(text) /\ \A i \in 1..Len(text) : (n + 1) + i - 1 = n + i
  BY <1>3
<1>14. TrimNewlines(padded) = SubSeq(padded, n + 1, n + Len(text))
  BY <1>9, <1>11
<1>15. /\ TrimNewlines(padded) \in Seq(Line) /\ Len(TrimNewlines(padded)) = Len(text)
       /\ \A i \in 1..Len(text) : TrimNewlines(padded)[i] = text[i]
  BY <1>3, <1>12, <1>13, <1>14
<1>16. TrimNewlines(padded) = text
  BY <1>15, SeqEqual
<1> QED
  BY <1>16 DEF padded

-----------------------------------------------------------------------------
(* Where the parts of a concatenation are.                                 *)

\* A sequence followed by another.
Joined(S, both, s, t) ==
  /\ both \in Seq(S) /\ Len(both) = Len(s) + Len(t) /\ Len(t) \in Nat
  /\ \A i \in 1..Len(s) : both[i] = s[i]
  /\ \A i \in 1..Len(t) : both[Len(s) + i] = t[i]

\* Is what a concatenation is.
LEMMA ConcatJoins ==
  ASSUME NEW S, NEW s \in Seq(S), NEW t \in Seq(S)
  PROVE  Joined(S, s \o t, s, t)
  BY ConcatPlaces DEF Joined

\* Part i ends at end[i].
Laid(whole, parts, end, n) ==
  /\ \A i \in 1..n : end[i] = end[i - 1] + Len(parts[i])
  /\ \A i \in 0..n : end[i] <= end[n]
  /\ \A i \in 1..n : \A j \in 1..Len(parts[i]) : whole[end[i - 1] + j] = parts[i][j]
  /\ \A p \in 1..end[n] : \E i \in 1..n : \E j \in 1..Len(parts[i]) : p = end[i - 1] + j

\* One part more.
LEMMA OneMoreLaid ==
  ASSUME NEW S, NEW parts \in Seq(Seq(S)), NEW end \in [0..Len(parts) -> Nat],
         NEW n \in Nat, n + 1 \in 1..Len(parts), NEW whole \in Seq(S), Len(whole) = end[n],
         Laid(whole, parts, end, n), end[n + 1] = end[n] + Len(parts[n + 1])
  PROVE  Laid(whole \o parts[n + 1], parts, end, n + 1)
<1> DEFINE part == parts[n + 1]
          more == whole \o part
<1>0. /\ Len(parts) \in Nat /\ part \in Seq(S) /\ n \in 0..Len(parts) /\ (n + 1) - 1 = n
      /\ \A i \in 1..(n + 1) : i \in 1..n \/ i = n + 1
      /\ \A i \in 0..(n + 1) : i \in 0..n \/ i = n + 1
      /\ \A i \in 1..n : i \in 1..(n + 1) /\ i \in 1..Len(parts) /\ i - 1 \in 0..Len(parts)
      /\ n + 1 \in 1..(n + 1)
  OBVIOUS
<1>1. /\ more \in Seq(S) /\ Len(more) = end[n] + Len(part) /\ Len(part) \in Nat
      /\ \A i \in 1..end[n] : more[i] = whole[i]
      /\ \A i \in 1..Len(part) : more[end[n] + i] = part[i]
  <2>1. part \in Seq(S)
    BY <1>0
  <2> HIDE DEF part
  <2>2. /\ more \in Seq(S) /\ Len(more) = Len(whole) + Len(part) /\ Len(part) \in Nat
        /\ \A i \in 1..Len(whole) : more[i] = whole[i]
        /\ \A i \in 1..Len(part) : more[Len(whole) + i] = part[i]
    <3>1. Joined(S, more, whole, part)
      BY <2>1, ConcatJoins
    <3> QED
      BY <3>1 DEF Joined
  <2> QED
    BY <2>2
<1>2. /\ end[n] \in Nat /\ end[n + 1] = end[n] + Len(part)
      /\ \A i \in 0..Len(parts) : end[i] \in Nat
      /\ \A i \in 1..n : Len(parts[i]) \in Nat
  <2>1. \A i \in 1..Len(parts) : parts[i] \in Seq(S)
    OBVIOUS
  <2>2. \A i \in 1..n : Len(parts[i]) \in Nat
    BY <1>0, <2>1
  <2>3. end[n] \in Nat /\ \A i \in 0..Len(parts) : end[i] \in Nat
    BY <1>0
  <2> QED
    BY <2>2, <2>3
<1> HIDE DEF more, part
<1>3. \A i \in 1..(n + 1) : end[i] = end[i - 1] + Len(parts[i])
  <2>1. \A i \in 1..n : end[i] = end[i - 1] + Len(parts[i])
    BY DEF Laid
  <2>2. end[n + 1] = end[(n + 1) - 1] + Len(parts[n + 1])
    BY <1>0
  <2> QED
    BY <1>0, <2>1, <2>2
<1>4. \A i \in 0..(n + 1) : end[i] <= end[n + 1]
  <2>1. end[n] <= end[n + 1]
    BY <1>1, <1>2
  <2>2. ASSUME NEW i \in 0..n PROVE end[i] <= end[n + 1]
    <3>1. end[i] <= end[n] /\ end[i] \in Nat
      BY <1>0, <1>2 DEF Laid
    <3> QED
      BY <1>1, <1>2, <2>1, <3>1
  <2> QED
    BY <1>0, <1>1, <1>2, <2>2
<1>5. ASSUME NEW i \in 1..(n + 1), NEW j \in 1..Len(parts[i]) PROVE more[end[i - 1] + j] = parts[i][j]
  <2>1. CASE i \in 1..n
    <3>1. whole[end[i - 1] + j] = parts[i][j] /\ end[i] = end[i - 1] + Len(parts[i]) /\ end[i] <= end[n]
      <4>1. i \in 0..n
        BY <2>1
      <4> QED
        BY <2>1, <4>1 DEF Laid
    <3>2. end[i - 1] \in Nat /\ end[i] \in Nat /\ Len(parts[i]) \in Nat
      <4>1. i \in 0..Len(parts) /\ i - 1 \in 0..Len(parts)
        BY <1>0, <2>1
      <4> QED
        BY <1>2, <2>1, <4>1
    <3>3. end[i - 1] + j \in 1..end[n]
      <4>1. end[i - 1] + j <= end[i] /\ j \in Nat /\ j >= 1
        BY <3>1, <3>2
      <4>2. end[i - 1] + j <= end[n]
        <5>1. ASSUME NEW x, NEW y \in Nat, NEW z \in Nat, x <= y, y <= z, x \in Nat PROVE x <= z
          BY <5>1
        <5>2. end[i - 1] + j \in Nat
          BY <3>2, <4>1
        <5> QED
          BY <1>2, <3>1, <3>2, <4>1, <5>1, <5>2, Zenon
      <4>3. end[i - 1] + j \in Nat
        BY <3>2, <4>1
      <4>4. end[i - 1] + j >= 1
        BY <3>2, <4>1
      <4> QED
        BY <1>2, <4>2, <4>3, <4>4
    <3> QED
      BY <1>1, <3>1, <3>3
  <2>2. CASE i = n + 1
    BY <1>0, <1>1, <2>2 DEF part
  <2> QED
    BY <1>0, <2>1, <2>2
<1>6. ASSUME NEW p \in 1..end[n + 1]
      PROVE  \E i \in 1..(n + 1) : \E j \in 1..Len(parts[i]) : p = end[i - 1] + j
  <2>1. CASE p <= end[n]
    <3>1. p \in 1..end[n]
      BY <1>2, <2>1
    <3>2. PICK i \in 1..n : \E j \in 1..Len(parts[i]) : p = end[i - 1] + j
      BY <3>1 DEF Laid
    <3> QED
      BY <1>0, <3>2
  <2>2. CASE p > end[n]
    <3>1. p - end[n] \in 1..Len(part) /\ p = end[n] + (p - end[n])
      BY <1>1, <1>2, <2>2
    <3>2. \E j \in 1..Len(parts[n + 1]) : p = end[(n + 1) - 1] + j
      BY <1>0, <3>1 DEF part
    <3> QED
      BY <1>0, <3>2
  <2> QED
    BY <1>2, <2>1, <2>2
<1>7. Laid(more, parts, end, n + 1)
  BY <1>3, <1>4, <1>5, <1>6 DEF Laid
<1> QED
  BY <1>7 DEF more, part

\* All parts of a concatenation are laid one after the other.
LEMMA FlatPlaces ==
  ASSUME NEW S, NEW parts \in Seq(Seq(S))
  PROVE  /\ FlattenSeq(parts) \in Seq(S)
         /\ \E end \in [0..Len(parts) -> Nat] :
              /\ end[0] = 0 /\ end[Len(parts)] = Len(FlattenSeq(parts))
              /\ Laid(FlattenSeq(parts), parts, end, Len(parts))
              /\ \A i, j \in 0..Len(parts) : i <= j => end[i] <= end[j]
<1>0. Len(parts) \in Nat /\ FlattenSeq(parts) \in Seq(S)
  BY Flattened
<1>1. CASE Len(parts) = 0
  <2> DEFINE end == [i \in 0..0 |-> 0]
  <2>1. FlattenSeq(parts) = parts /\ parts = <<>>
    BY <1>1 DEF FlattenSeq
  <2>2. end \in [0..Len(parts) -> Nat] /\ end[0] = 0 /\ \A i \in 0..0 : i = 0
    BY <1>1
  <2>3. 1..0 = {} /\ Len(<<>>) = 0
    OBVIOUS
  <2>4. Laid(<<>>, parts, end, 0)
    BY <2>2, <2>3 DEF Laid
  <2>5. \A i, j \in 0..0 : end[i] <= end[j]
    BY <2>2
  <2> HIDE DEF end
  <2> QED
    BY <1>0, <1>1, <2>1, <2>2, <2>3, <2>4, <2>5
<1>2. CASE Len(parts) # 0
  <2> DEFINE f == CHOOSE g : g = [i \in 1..Len(parts) |-> IF i = 1 THEN parts[i] ELSE g[i - 1] \o parts[i]]
            end == [i \in 0..Len(parts) |-> IF i = 0 THEN 0 ELSE Len(f[i])]
            P(k) == Laid(f[k], parts, end, k)
            N == {k \in Nat : k \in 1..Len(parts) => P(k)}
  <2>1. FlattenSeq(parts) = f[Len(parts)]
    BY <1>2 DEF FlattenSeq
  <2>2. \E g : g = [i \in 1..Len(parts) |-> IF i = 1 THEN parts[i] ELSE g[i - 1] \o parts[i]]
    <3>1. \E g : Flat(g, parts, Len(parts))
      BY <1>0, FlatExists
    <3> QED
      BY <3>1 DEF Flat
  <2>3. f = [i \in 1..Len(parts) |-> IF i = 1 THEN parts[i] ELSE f[i - 1] \o parts[i]]
    BY <2>2
  <2> HIDE DEF f
  <2>4. \A i \in 1..Len(parts) : f[i] \in Seq(S) /\ parts[i] \in Seq(S)
    <3>1. Flat(f, parts, Len(parts))
      BY <2>3 DEF Flat
    <3>2. \A i \in 1..Len(parts) : f[i] \in Seq(S)
      BY <3>1, FlatMembers
    <3> QED
      BY <3>2
  <2>5. /\ end \in [0..Len(parts) -> Nat] /\ end[0] = 0
        /\ \A i \in 1..Len(parts) : end[i] = Len(f[i])
    BY <1>0, <2>4
  <2> HIDE DEF end
  <2>6. 1 \in 1..Len(parts) /\ f[1] = parts[1] /\ end[1] = Len(parts[1])
    <3>1. 1 \in 1..Len(parts)
      BY <1>0, <1>2
    <3>2. f[1] = parts[1]
      BY <2>3, <3>1
    <3> QED
      BY <2>5, <3>1, <3>2
  <2>7. P(1)
    <3>1. Laid(<<>>, parts, end, 0)
      BY <2>5 DEF Laid
    <3>2. <<>> \in Seq(S) /\ Len(<<>>) = end[0]
      BY <2>5
    <3>3. end[1] = end[0] + Len(parts[1])
      <4>1. parts[1] \in Seq(S)
        BY <2>4, <2>6
      <4>2. Len(parts[1]) \in Nat
        BY <4>1
      <4> QED
        BY <2>5, <2>6, <4>2
    <3>4. Laid(<<>> \o parts[1], parts, end, 1)
      <4>1. 0 \in Nat /\ 0 + 1 \in 1..Len(parts) /\ end[0 + 1] = end[0] + Len(parts[0 + 1]) /\ 0 + 1 = 1
        BY <2>6, <3>3
      <4>2. Laid(<<>> \o parts[0 + 1], parts, end, 0 + 1)
        BY <2>5, <3>1, <3>2, <4>1, OneMoreLaid
      <4> QED
        BY <4>1, <4>2
    <3>5. <<>> \o parts[1] = f[1]
      BY <2>4, <2>6
    <3> QED
      BY <3>4, <3>5
  <2>8. ASSUME NEW k \in N PROVE k + 1 \in N
    <3> SUFFICES ASSUME k + 1 \in 1..Len(parts) PROVE P(k + 1)
      OBVIOUS
    <3>1. CASE k = 0
      BY <2>7, <3>1
    <3>2. CASE k # 0
      <4>1. k \in 1..Len(parts) /\ k + 1 # 1 /\ (k + 1) - 1 = k /\ k \in Nat
        BY <1>0, <3>2
      <4>2. P(k)
        BY <4>1
      <4>3. f[k + 1] = f[k] \o parts[k + 1]
        BY <2>3, <4>1
      <4>4. f[k] \in Seq(S) /\ Len(f[k]) = end[k]
        BY <2>4, <2>5, <4>1
      <4>5. end[k + 1] = end[k] + Len(parts[k + 1])
        <5>1. parts[k + 1] \in Seq(S) /\ end[k + 1] = Len(f[k + 1])
          BY <2>4, <2>5
        <5>2. Len(f[k] \o parts[k + 1]) = Len(f[k]) + Len(parts[k + 1])
          BY <4>4, <5>1, ConcatPlaces
        <5> QED
          BY <4>3, <4>4, <5>1, <5>2
      <4> HIDE DEF N
      <4>6. Laid(f[k] \o parts[k + 1], parts, end, k + 1)
        BY <2>5, <4>1, <4>2, <4>4, <4>5, OneMoreLaid
      <4> QED
        BY <4>3, <4>6
    <3> QED
      BY <3>1, <3>2
  <2>9. 0 \in N
    OBVIOUS
  <2> HIDE DEF N
  <2>10. N = Nat
    <3>1. N \in SUBSET Nat
      BY DEF N
    <3> QED
      BY <2>8, <2>9, <3>1, SetInduction
  <2>11. \A k \in 1..Len(parts) : P(k)
    <3>1. \A k \in 1..Len(parts) : k \in N
      BY <2>10
    <3> QED
      BY <3>1 DEF N
  <2>12. Len(parts) \in 1..Len(parts) /\ Len(parts) # 0
    BY <1>0, <1>2
  <2>13. ASSUME NEW i \in 0..Len(parts), NEW j \in 0..Len(parts), i <= j PROVE end[i] <= end[j]
    <3>1. CASE j = 0
      <4>1. i = 0
        BY <2>13, <3>1
      <4> QED
        BY <2>5, <3>1, <4>1
    <3>2. CASE j # 0
      <4>1. j \in 1..Len(parts) /\ i \in 0..j
        BY <1>0, <2>13, <3>2
      <4> QED
        BY <2>11, <4>1 DEF Laid
    <3> QED
      BY <3>1, <3>2
  <2>14. end[Len(parts)] = Len(FlattenSeq(parts)) /\ Laid(FlattenSeq(parts), parts, end, Len(parts))
    BY <2>1, <2>5, <2>11, <2>12
  <2> QED
    BY <1>0, <2>5, <2>13, <2>14
<1> QED
  BY <1>1, <1>2

-----------------------------------------------------------------------------
(* Items come back.                                                        *)

\* Texts that are left as they are when they are items.
Firm(item) == item[1] # <<>> /\ ~BlankLine(item[Len(item)])

\* The lines of an item once the spaces of blank ones are gone.
LEMMA StrippedIs ==
  ASSUME NEW item \in Text
  PROVE  /\ Stripped(item) \in Text /\ Len(Stripped(item)) = Len(item) /\ Len(item) \in Nat \ {0}
         /\ item \in Seq(Line) /\ \A i \in 1..Len(item) : item[i] \in Line
         /\ Stripped(item)[1] = item[1]
         /\ \A i \in 2..Len(item) : Stripped(item)[i] = IF BlankLine(item[i]) THEN <<>> ELSE item[i]
         /\ Firm(item) => /\ Full(item) /\ Full(Stripped(item)) /\ Firm(Stripped(item))
                          /\ Stripped(item)[Len(item)] = item[Len(item)]
<1>0. /\ item \in Seq(Line) /\ item # <<>> /\ Len(item) \in Nat \ {0} /\ DOMAIN item = 1..Len(item)
      /\ \A i \in 1..Len(item) : item[i] \in Line
  BY DEF Text
<1>1. Stripped(item) = [i \in 1..Len(item) |-> IF i > 1 /\ BlankLine(item[i]) THEN <<>> ELSE item[i]]
  BY <1>0 DEF Stripped
<1>2. \A i \in 1..Len(item) : (IF i > 1 /\ BlankLine(item[i]) THEN <<>> ELSE item[i]) \in Line
  BY <1>0, NothingSays
<1>3. Stripped(item) \in Seq(Line) /\ Len(Stripped(item)) = Len(item)
  BY <1>0, <1>1, <1>2
<1>4. Stripped(item) # <<>>
  <2>1. Len(<<>>) = 0
    OBVIOUS
  <2> QED
    BY <1>0, <1>3, <2>1
<1>5. /\ Stripped(item)[1] = item[1]
      /\ \A i \in 2..Len(item) : Stripped(item)[i] = IF BlankLine(item[i]) THEN <<>> ELSE item[i]
  <2>1. 1 \in 1..Len(item) /\ ~(1 > 1) /\ \A i \in 2..Len(item) : i \in 1..Len(item) /\ i > 1
    BY <1>0
  <2> QED
    BY <1>1, <2>1
<1>6. BlankLine(<<>>)
  BY NothingSays DEF BlankLine
<1>7. ASSUME Firm(item)
      PROVE  /\ Full(item) /\ Full(Stripped(item)) /\ Firm(Stripped(item))
             /\ Stripped(item)[Len(item)] = item[Len(item)]
  <2>1. item[1] # <<>> /\ ~BlankLine(item[Len(item)]) /\ item[Len(item)] # <<>>
    BY <1>6, <1>7 DEF Firm
  <2>2. Stripped(item)[Len(item)] = item[Len(item)]
    <3>1. CASE Len(item) = 1
      BY <1>5, <3>1
    <3>2. CASE Len(item) # 1
      <4>1. Len(item) \in 2..Len(item)
        BY <1>0, <3>2
      <4> QED
        BY <1>5, <2>1, <4>1
    <3> QED
      BY <3>1, <3>2
  <2> QED
    BY <1>0, <1>3, <1>4, <1>5, <2>1, <2>2 DEF Full, Firm
<1> QED
  BY <1>0, <1>3, <1>4, <1>5, <1>7 DEF Text

\* Such a text has nothing to trim.
LEMMA FullStays ==
  ASSUME NEW text \in Seq(Line), Full(text)
  PROVE  TrimNewlines(text) = text
<1>1. <<>> \in Seq(Line) /\ \A i \in 1..Len(<<>>) : <<>>[i] = <<>>
  OBVIOUS
<1>2. TrimNewlines(<<>> \o text \o <<>>) = text
  BY <1>1, PaddingGoes
<1>3. <<>> \o text \o <<>> = text
  OBVIOUS
<1> QED
  BY <1>2, <1>3

\* The lines an item is written as.
LEMMA BulletLines ==
  ASSUME NEW item \in Text, Full(item)
  PROVE  /\ WriteBullet(item) \in Seq(Line) /\ Len(WriteBullet(item)) = Len(item)
         /\ WriteBullet(item)[1] = <<Bullet>> \o item[1]
         /\ \A i \in 2..Len(item) :
              WriteBullet(item)[i] = IF BlankLine(item[i]) THEN <<>> ELSE <<Indent>> \o item[i]
<1> DEFINE rest == Tail(item)
          first == <<Bullet>> \o Head(item)
          More(l) == IF BlankLine(l) THEN <<>> ELSE <<Indent>> \o l
          more == [i \in DOMAIN rest |-> More(rest[i])]
<1>0. item \in Seq(Line) /\ item # <<>> /\ Len(item) \in Nat /\ Len(item) # 0
  BY DEF Text
<1>1. TrimNewlines(item) = item /\ WriteBullet(item) \in Seq(Line)
  BY <1>0, FullStays, WriteBulletSays
<1>2. WriteBullet(item) = <<first>> \o more
  BY <1>1 DEF WriteBullet
<1>3. /\ rest \in Seq(Line) /\ Len(rest) = Len(item) - 1 /\ Head(item) = item[1]
      /\ \A i \in 1..(Len(item) - 1) : rest[i] = item[i + 1]
  BY <1>0
<1> HIDE DEF rest, first, More
<1>4. more \in Seq({More(rest[i]) : i \in 1..Len(rest)}) /\ Len(more) = Len(item) - 1
      /\ \A i \in 1..(Len(item) - 1) : more[i] = More(rest[i])
  BY <1>0, <1>3
<1> DEFINE T == {first} \cup {More(rest[i]) : i \in 1..Len(rest)}
<1>5. <<first>> \in Seq(T) /\ Len(<<first>>) = 1 /\ <<first>>[1] = first
  OBVIOUS
<1>6. more \in Seq(T)
  BY <1>4
<1> HIDE DEF T, more
<1>7. /\ Len(<<first>> \o more) = Len(<<first>>) + Len(more)
      /\ \A i \in 1..Len(<<first>>) : (<<first>> \o more)[i] = <<first>>[i]
      /\ \A i \in 1..Len(more) : (<<first>> \o more)[Len(<<first>>) + i] = more[i]
  BY <1>5, <1>6, ConcatPlaces
<1>8. Len(WriteBullet(item)) = Len(item) /\ WriteBullet(item)[1] = first
  BY <1>0, <1>2, <1>4, <1>5, <1>7
<1>9. ASSUME NEW i \in 2..Len(item) PROVE WriteBullet(item)[i] = More(item[i])
  <2>1. i - 1 \in 1..(Len(item) - 1) /\ 1 + (i - 1) = i /\ (i - 1) + 1 = i
    BY <1>0
  <2>2. (<<first>> \o more)[1 + (i - 1)] = more[i - 1]
    BY <1>4, <1>5, <1>7, <2>1
  <2>3. more[i - 1] = More(rest[i - 1]) /\ rest[i - 1] = item[(i - 1) + 1]
    BY <1>3, <1>4, <2>1
  <2> QED
    BY <1>2, <2>1, <2>2, <2>3
<1> QED
  BY <1>1, <1>3, <1>8, <1>9 DEF first, More

\* None of them is a heading.
LEMMA BulletsAreNoHeadings ==
  ASSUME NEW item \in Text, Full(item), NEW i \in 1..Len(item)
  PROVE  ~StartsWith(WriteBullet(item)[i], Heading)
<1>0. item \in Seq(Line) /\ Len(item) \in Nat /\ \A j \in 1..Len(item) : item[j] \in Seq(Piece)
  BY DEF Text, Line
<1>1. CASE i = 1
  <2>1. WriteBullet(item)[i] = <<Bullet>> \o item[1] /\ item[1] \in Seq(Piece)
    BY <1>0, <1>1, BulletLines
  <2>2. Head(<<Bullet>> \o item[1]) = Bullet
    BY <2>1
  <2> QED
    BY <2>1, <2>2 DEF StartsWith, Bullet, Heading
<1>2. CASE i # 1
  <2>1. i \in 2..Len(item)
    BY <1>0, <1>2
  <2>2. WriteBullet(item)[i] = IF BlankLine(item[i]) THEN <<>> ELSE <<Indent>> \o item[i]
    BY <2>1, BulletLines
  <2>3. item[i] \in Seq(Piece)
    BY <1>0
  <2>4. Head(<<Indent>> \o item[i]) = Indent
    BY <2>3
  <2> QED
    BY <2>2, <2>4 DEF StartsWith, Indent, Heading
<1> QED
  BY <1>1, <1>2

\* What is in front of the last.
LEMMA FrontAndLast ==
  ASSUME NEW S, NEW items \in Seq(S), NEW item \in S
  PROVE  /\ Append(items, item) # <<>>
         /\ Front(Append(items, item)) = items /\ Last(Append(items, item)) = item
<1> DEFINE more == Append(items, item)
          n == Len(items)
<1>1. /\ more \in Seq(S) /\ Len(more) = n + 1 /\ n \in Nat /\ more[n + 1] = item /\ more # <<>>
      /\ \A i \in 1..n : more[i] = items[i]
  OBVIOUS
<1> HIDE DEF more, n
<1>2. Last(more) = item
  BY <1>1 DEF Last
<1>3. (n + 1) - 1 = n /\ 1 <= n + 1 /\ n <= Len(more) /\ n - 1 + 1 = n /\ \A i \in 1..n : 1 + i - 1 = i
  BY <1>1
<1>4. /\ SubSeq(more, 1, n) \in Seq(S) /\ Len(SubSeq(more, 1, n)) = n - 1 + 1
      /\ \A i \in 1..(n - 1 + 1) : SubSeq(more, 1, n)[i] = more[1 + i - 1]
  BY <1>1, <1>3, PartMembers
<1>5. Front(more) = SubSeq(more, 1, n)
  BY <1>1, <1>3 DEF Front
<1>6. Front(more) \in Seq(S) /\ Len(Front(more)) = Len(items) /\ \A i \in 1..Len(items) : Front(more)[i] = items[i]
  BY <1>1, <1>3, <1>4, <1>5 DEF n
<1>7. Front(more) = items
  BY <1>6, SeqEqual
<1> QED
  BY <1>1, <1>2, <1>7 DEF more

\* A mark before a line is what it starts with.
LEMMA Marked ==
  ASSUME NEW line \in Line, NEW m \in Piece
  PROVE  /\ <<m>> \o line \in Line /\ StartsWith(<<m>> \o line, m)
         /\ \A other : StartsWith(<<m>> \o line, other) => other = m
         /\ Tail(<<m>> \o line) = line
         /\ BlankLine(<<m>> \o line) <=> m \in Spaces /\ BlankLine(line)
<1>1. line \in Seq(Piece) /\ <<m>> \in Seq(Piece)
  BY DEF Line
<1>2. /\ <<m>> \o line \in Seq(Piece) /\ <<m>> \o line # <<>>
      /\ Head(<<m>> \o line) = m /\ Tail(<<m>> \o line) = line
  BY <1>1
<1>3. ToSet(<<m>> \o line) = ToSet(<<m>>) \cup ToSet(line)
  BY <1>1, ConcatMembers
<1>4. ToSet(<<m>>) = {m}
  BY DEF ToSet
<1>5. BlankLine(<<m>> \o line) <=> m \in Spaces /\ BlankLine(line)
  BY <1>3, <1>4 DEF BlankLine
<1> QED
  BY <1>2, <1>5 DEF StartsWith, Line

\* Reading the line an item begins with.
LEMMA ReadFirst ==
  ASSUME NEW items \in Seq(Text), NEW line \in Line
  PROVE  ReadBullet([items |-> items, stray |-> FALSE], <<Bullet>> \o line)
           = [items |-> Append(items, <<line>>), stray |-> FALSE]
<1>1. Bullet \in Piece /\ Bullet \notin Spaces /\ Bullet # Indent
  BY MarkdownAssumption DEF Bullet, Spaces, Indent
<1>2. /\ StartsWith(<<Bullet>> \o line, Bullet) /\ ~BlankLine(<<Bullet>> \o line)
      /\ ~StartsWith(<<Bullet>> \o line, Indent) /\ Tail(<<Bullet>> \o line) = line
  BY <1>1, Marked
<1> DEFINE marked == <<Bullet>> \o line
<1> HIDE DEF marked
<1>3. StartsWith(marked, Bullet) /\ ~BlankLine(marked) /\ ~StartsWith(marked, Indent) /\ Tail(marked) = line
  BY <1>2 DEF marked
<1>4. ReadBullet([items |-> items, stray |-> FALSE], marked)
        = [items |-> Append(items, <<Tail(marked)>>), stray |-> FALSE]
  BY <1>3 DEF ReadBullet
<1> QED
  BY <1>3, <1>4 DEF marked

\* Reading another line of the last item: an empty one, or one that is not blank.
LEMMA ReadMore ==
  ASSUME NEW items \in Seq(Text), NEW item \in Text, NEW line \in Line,
         NEW written \in Line,
         \/ written = <<>> /\ line = <<>>
         \/ written = <<Indent>> \o line /\ ~BlankLine(line)
  PROVE  ReadBullet([items |-> Append(items, item), stray |-> FALSE], written)
           = [items |-> Append(items, Append(item, line)), stray |-> FALSE]
<1> DEFINE more == Append(items, item)
<1>1. more # <<>> /\ Front(more) = items /\ Last(more) = item
  BY FrontAndLast
<1>2. items \o <<Append(item, line)>> = Append(items, Append(item, line))
  <2>1. Append(item, line) \in Text
    <3>1. item \in Seq(Line)
      BY DEF Text
    <3>2. Append(item, line) \in Seq(Line) /\ Append(item, line) # <<>>
      BY <3>1
    <3> QED
      BY <3>2 DEF Text
  <2> QED
    BY <2>1
<1> HIDE DEF more
<1>3. CASE written = <<>> /\ line = <<>>
  <2>1. ~StartsWith(<<>>, Bullet) /\ BlankLine(<<>>) /\ ~StartsWith(<<>>, Indent)
    BY NothingSays DEF StartsWith, BlankLine
  <2>2. ReadBullet([items |-> more, stray |-> FALSE], <<>>)
          = [items |-> Front(more) \o <<Append(Last(more), <<>>)>>, stray |-> FALSE]
    BY <1>1, <2>1 DEF ReadBullet
  <2> QED
    BY <1>1, <1>2, <1>3, <2>2 DEF more
<1>4. CASE written = <<Indent>> \o line /\ ~BlankLine(line)
  <2>1. Indent \in Piece /\ Bullet # Indent
    BY MarkdownAssumption DEF Bullet, Indent
  <2>2. /\ ~StartsWith(written, Bullet) /\ ~BlankLine(written)
        /\ StartsWith(written, Indent) /\ Tail(written) = line
    BY <1>4, <2>1, Marked
  <2>3. ReadBullet([items |-> more, stray |-> FALSE], written)
          = [items |-> Front(more) \o <<Append(Last(more), Tail(written))>>, stray |-> FALSE]
    BY <1>1, <2>2 DEF ReadBullet
  <2> QED
    BY <1>1, <1>2, <2>2, <2>3 DEF more
<1> QED
  BY <1>3, <1>4

\* The first n of a sequence, and one more.
LEMMA Grows ==
  ASSUME NEW S, NEW g, NEW n \in Nat, \A i \in 1..(n + 1) : g[i] \in S
  PROVE  LET some == [i \in 1..n |-> g[i]]
             more == [i \in 1..(n + 1) |-> g[i]]
         IN some \in Seq(S) /\ Len(some) = n /\ more = Append(some, g[n + 1])
<1> DEFINE some == [i \in 1..n |-> g[i]]
          more == [i \in 1..(n + 1) |-> g[i]]
          last == g[n + 1]
<1>0. n + 1 \in 1..(n + 1) /\ \A i \in 1..n : i \in 1..(n + 1)
  OBVIOUS
<1>1. last \in S
  BY <1>0
<1>2. some \in Seq(S) /\ Len(some) = n /\ \A i \in 1..n : some[i] = g[i]
  BY <1>0
<1>3. more \in Seq(S) /\ Len(more) = n + 1 /\ \A i \in 1..(n + 1) : more[i] = g[i]
  OBVIOUS
<1> HIDE DEF some, more, last
<1>4. /\ Append(some, last) \in Seq(S) /\ Len(Append(some, last)) = n + 1
      /\ \A i \in 1..n : Append(some, last)[i] = some[i]
      /\ Append(some, last)[n + 1] = last
  BY <1>1, <1>2
<1>5. ASSUME NEW i \in 1..(n + 1) PROVE more[i] = Append(some, last)[i]
  <2>1. CASE i = n + 1
    BY <1>0, <1>3, <1>4, <2>1 DEF last
  <2>2. CASE i # n + 1
    <3>1. i \in 1..n
      BY <2>2
    <3> QED
      BY <1>2, <1>3, <1>4, <3>1
  <2> QED
    BY <2>1, <2>2
<1>6. more = Append(some, last)
  BY <1>3, <1>4, <1>5, SeqEqual
<1> QED
  BY <1>2, <1>6 DEF some, more, last

\* Reading all the lines of an item appends it.
LEMMA ReadItem ==
  ASSUME NEW content \in Seq(Line), NEW f, ReadTo(f, content, Len(content)),
         NEW item \in Text, Firm(item), NEW a \in Nat, a + Len(item) <= Len(content),
         \A j \in 1..Len(item) : content[a + j] = WriteBullet(item)[j],
         NEW items \in Seq(Text), f[a] = [items |-> items, stray |-> FALSE]
  PROVE  f[a + Len(item)] = [items |-> Append(items, Stripped(item)), stray |-> FALSE]
<1> DEFINE stripped == Stripped(item)
          part(j) == [i \in 1..j |-> stripped[i]]
          P(j) == f[a + j] = [items |-> Append(items, part(j)), stray |-> FALSE]
          N == {j \in Nat : j \in 1..Len(item) => P(j)}
<1>0. /\ stripped \in Text /\ Len(stripped) = Len(item) /\ Len(item) \in Nat \ {0}
      /\ \A i \in 1..Len(item) : item[i] \in Line
      /\ stripped[1] = item[1] /\ Full(item)
      /\ \A i \in 2..Len(item) : stripped[i] = IF BlankLine(item[i]) THEN <<>> ELSE item[i]
  BY StrippedIs
<1>1. /\ WriteBullet(item) \in Seq(Line) /\ Len(WriteBullet(item)) = Len(item)
      /\ WriteBullet(item)[1] = <<Bullet>> \o item[1]
      /\ \A i \in 2..Len(item) :
           WriteBullet(item)[i] = IF BlankLine(item[i]) THEN <<>> ELSE <<Indent>> \o item[i]
  BY <1>0, BulletLines
<1>2. stripped \in Seq(Line) /\ Len(content) \in Nat /\ \A i \in 1..Len(item) : stripped[i] \in Line
  BY <1>0 DEF Text
<1> HIDE DEF stripped
<1>3. \A j \in 1..Len(item) : f[a + j] = ReadBullet(f[a + j - 1], content[a + j])
  <2> TAKE j \in 1..Len(item)
  <2> DEFINE n == a + j
  <2>1. n \in 0..Len(content) /\ n # 0
    BY <1>0, <1>2
  <2> HIDE DEF n
  <2>2. f[n] = ReadBullet(f[n - 1], content[n])
    BY <2>1 DEF ReadTo
  <2> QED
    BY <2>2 DEF n
<1>4. ASSUME NEW j \in 1..Len(item)
      PROVE  part(j) \in Text /\ (j # Len(item) => part(j + 1) = Append(part(j), stripped[j + 1]))
  <2>1. j - 1 \in Nat /\ (j - 1) + 1 = j /\ \A i \in 1..j : stripped[i] \in Line
    BY <1>0, <1>2
  <2>2. part(j) \in Seq(Line) /\ Len(part(j)) = j
    BY <2>1
  <2>3. part(j) # <<>>
    <3>1. Len(<<>>) = 0
      OBVIOUS
    <3> QED
      <4>1. ASSUME NEW t \in Seq(Line), Len(t) # 0 PROVE t # <<>>
        BY <3>1, <4>1
      <4>2. j # 0
        OBVIOUS
      <4> QED
        BY <2>2, <4>1, <4>2, Zenon
  <2>4. ASSUME j # Len(item) PROVE part(j + 1) = Append(part(j), stripped[j + 1])
    <3>1. j \in Nat /\ \A i \in 1..(j + 1) : stripped[i] \in Line
      BY <1>0, <1>2, <2>4
    <3> QED
      BY <3>1, Grows
  <2> QED
    BY <2>2, <2>3, <2>4 DEF Text
<1>5. part(Len(item)) = stripped
  <2>1. stripped = [i \in 1..Len(item) |-> stripped[i]]
    BY <1>0, <1>2
  <2> QED
    BY <2>1
<1>6. part(1) = <<item[1]>>
  <2>1. \A i \in 1..1 : i = 1
    OBVIOUS
  <2>2. part(1) = [i \in 1..1 |-> item[1]]
    BY <1>0, <2>1
  <2> HIDE DEF part
  <2>3. <<item[1]>> = [i \in 1..1 |-> item[1]]
    OBVIOUS
  <2> QED
    BY <2>2, <2>3
<1> HIDE DEF part
<1>7. P(1)
  <2>1. 1 \in 1..Len(item) /\ a + 1 - 1 = a /\ item[1] \in Line
    BY <1>0
  <2>2. f[a + 1] = ReadBullet(f[a], content[a + 1]) /\ content[a + 1] = <<Bullet>> \o item[1]
    BY <1>1, <1>3, <2>1
  <2>3. f[a + 1] = [items |-> Append(items, <<item[1]>>), stray |-> FALSE]
    BY <2>1, <2>2, ReadFirst
  <2> QED
    BY <1>6, <2>3
<1>8. 0 \in N
  OBVIOUS
<1>9. ASSUME NEW j \in N PROVE j + 1 \in N
  <2> SUFFICES ASSUME j + 1 \in 1..Len(item) PROVE P(j + 1)
    OBVIOUS
  <2>1. CASE j = 0
    BY <1>7, <2>1
  <2>2. CASE j # 0
    <3>1. j \in 1..Len(item) /\ j # Len(item) /\ j + 1 \in 2..Len(item) /\ a + (j + 1) - 1 = a + j
      BY <1>0, <2>2
    <3>2. P(j)
      BY <3>1
    <3>3. f[a + (j + 1)] = ReadBullet([items |-> Append(items, part(j)), stray |-> FALSE], content[a + (j + 1)])
      BY <1>3, <3>1, <3>2
    <3> DEFINE written == content[a + (j + 1)]
              line == stripped[j + 1]
    <3>4. /\ written = IF BlankLine(item[j + 1]) THEN <<>> ELSE <<Indent>> \o item[j + 1]
          /\ line = IF BlankLine(item[j + 1]) THEN <<>> ELSE item[j + 1]
          /\ written \in Line /\ line \in Line /\ part(j) \in Text
      <4>1. written = WriteBullet(item)[j + 1] /\ written \in Line
        <5>1. j + 1 \in 1..Len(item)
          OBVIOUS
        <5>2. WriteBullet(item)[j + 1] \in Line
          BY <1>1, <5>1
        <5> QED
          BY <5>1, <5>2
      <4> QED
        BY <1>0, <1>1, <1>2, <1>4, <3>1, <4>1
    <3> HIDE DEF written, line
    <3>5. ReadBullet([items |-> Append(items, part(j)), stray |-> FALSE], written)
            = [items |-> Append(items, Append(part(j), line)), stray |-> FALSE]
      <4>1. \/ written = <<>> /\ line = <<>>
            \/ written = <<Indent>> \o line /\ ~BlankLine(line)
        BY <3>4
      <4>2. written \in Line /\ line \in Line /\ part(j) \in Text
        BY <3>4
      <4> QED
        BY <4>1, <4>2, ReadMore
    <3>6. part(j + 1) = Append(part(j), line)
      BY <1>4, <3>1 DEF line
    <3> QED
      BY <3>3, <3>5, <3>6 DEF written
  <2> QED
    BY <2>1, <2>2
<1> HIDE DEF N, P
<1>10. N = Nat
  <2>1. N \in SUBSET Nat
    BY DEF N
  <2> QED
    BY <1>8, <1>9, <2>1, SetInduction
<1>11. Len(item) \in N /\ Len(item) \in 1..Len(item)
  BY <1>0, <1>10
<1>12. P(Len(item))
  BY <1>11 DEF N
<1> QED
  BY <1>5, <1>12 DEF P, stripped

\* Reading starts with nothing and goes line by line.
LEMMA ReadStep ==
  ASSUME NEW content \in Seq(Line), NEW f, ReadTo(f, content, Len(content))
  PROVE  f[0] = Unread /\ \A i \in 1..Len(content) : f[i] = ReadBullet(f[i - 1], content[i])
<1>0. Len(content) \in Nat
  OBVIOUS
<1>1. f[0] = Unread
  BY <1>0 DEF ReadTo
<1>2. ASSUME NEW i \in 1..Len(content) PROVE f[i] = ReadBullet(f[i - 1], content[i])
  <2>1. i \in 0..Len(content) /\ i # 0
    BY <1>0
  <2> QED
    BY <2>1 DEF ReadTo
<1> QED
  BY <1>1, <1>2

\* What parseBullets does.
LEMMA ParseIs ==
  ASSUME NEW content \in Seq(Line)
  PROVE  \E f : LET read == f[Len(content)] IN
           /\ ReadTo(f, content, Len(content))
           /\ parseBullets(content) = [items |-> [i \in DOMAIN read.items |-> TrimNewlines(read.items[i])],
                                       stray |-> read.stray]
<1> DEFINE f == CHOOSE g : g = [i \in 0..Len(content) |->
                                 IF i = 0 THEN [items |-> <<>>, stray |-> FALSE]
                                 ELSE ReadBullet(g[i - 1], content[i])]
          read == f[Len(content)]
          trimmed == [i \in DOMAIN read.items |-> TrimNewlines(read.items[i])]
<1>1. parseBullets(content) = [read EXCEPT !.items = trimmed]
  BY DEF parseBullets
<1>2. Len(content) \in Nat /\ Len(content) \in 0..Len(content)
  OBVIOUS
<1>3. ReadTo(f, content, Len(content))
  <2>1. \E g : ReadTo(g, content, Len(content))
    BY <1>2, ReadExists
  <2>2. \E g : g = [i \in 0..Len(content) |-> IF i = 0 THEN [items |-> <<>>, stray |-> FALSE]
                                              ELSE ReadBullet(g[i - 1], content[i])]
    BY <2>1 DEF ReadTo, Unread
  <2> QED
    BY <2>2 DEF ReadTo, Unread
<1> HIDE DEF f
<1>4. read \in Reading
  BY <1>2, <1>3, ReadKeeps
<1> HIDE DEF read, trimmed
<1>5. [read EXCEPT !.items = trimmed] = [items |-> trimmed, stray |-> read.stray]
  BY <1>4 DEF Reading
<1> QED
  BY <1>1, <1>3, <1>5 DEF read, trimmed

\* The section that items are written as has no headings and reads back as them.
LEMMA ItemsComeBack ==
  ASSUME NEW items \in Seq(Text), items # <<>>, \A i \in 1..Len(items) : Firm(items[i])
  PROVE  LET content == EmptyText \o FlattenSeq([i \in 1..Len(items) |-> WriteBullet(items[i])]) \o EmptyText
         IN /\ content \in Seq(Line) /\ HeadingsIn(content) = {}
            /\ parseBullets(content)
                 = [items |-> [i \in 1..Len(items) |-> Stripped(items[i])], stray |-> FALSE]
<1> DEFINE n == Len(items)
          bullets == [i \in 1..n |-> WriteBullet(items[i])]
          whole == FlattenSeq(bullets)
          content == EmptyText \o whole \o EmptyText
          m == Len(whole)
          back(i) == Stripped(items[i])
          upto(k) == [i \in 1..k |-> back(i)]
<1>0. n \in Nat /\ n # 0 /\ \A i \in 1..n : items[i] \in Text /\ Len(items[i]) \in Nat
  BY DEF Text
<1>1. \A i \in 1..n : /\ back(i) \in Text /\ Full(back(i)) /\ Full(items[i])
                      /\ back(i) \in Seq(Line)
  BY <1>0, StrippedIs DEF Text
<1>2. \A i \in 1..n : /\ WriteBullet(items[i]) \in Seq(Line)
                      /\ Len(WriteBullet(items[i])) = Len(items[i])
                      /\ \A j \in 1..Len(items[i]) : ~StartsWith(WriteBullet(items[i])[j], Heading)
  BY <1>0, <1>1, BulletLines, BulletsAreNoHeadings
<1>3. bullets \in Seq(Seq(Line)) /\ Len(bullets) = n /\ \A i \in 1..n : bullets[i] = WriteBullet(items[i])
  BY <1>0, <1>2
<1> HIDE DEF bullets
<1>4. whole \in Seq(Line)
  BY <1>3, FlatPlaces
<1>5. PICK end \in [0..n -> Nat] :
        /\ end[0] = 0 /\ end[n] = m
        /\ Laid(whole, bullets, end, n)
        /\ \A i, j \in 0..n : i <= j => end[i] <= end[j]
  BY <1>3, FlatPlaces
<1> HIDE DEF whole
<1>6. EmptyText \in Seq(Line) /\ Len(EmptyText) = 1 /\ EmptyText[1] = <<>>
  BY NothingSays DEF EmptyText
<1>7. /\ content \in Seq(Line) /\ Len(content) = m + 2 /\ m \in Nat
      /\ content[1] = <<>> /\ content[m + 2] = <<>>
      /\ \A i \in 1..m : content[1 + i] = whole[i]
  <2>1. /\ content \in Seq(Line) /\ Len(content) = Len(EmptyText) + m + Len(EmptyText) /\ m \in Nat
        /\ \A i \in 1..Len(EmptyText) : content[i] = EmptyText[i]
        /\ \A i \in 1..m : content[Len(EmptyText) + i] = whole[i]
        /\ \A i \in 1..Len(EmptyText) : content[Len(EmptyText) + m + i] = EmptyText[i]
    <3>1. EmptyText \in Seq(Line)
      BY <1>6
    <3> QED
      BY <1>4, <3>1, ThreePlaces
  <2>2. 1 \in 1..1 /\ 1 + m + 1 = m + 2
    BY <2>1
  <2> HIDE DEF content, m
  <2> QED
    BY <1>6, <2>1, <2>2
<1> HIDE DEF content, m, n
<1>8. HeadingsIn(content) = {}
  <2> SUFFICES ASSUME NEW h \in HeadingsIn(content) PROVE FALSE
    OBVIOUS
  <2>1. h \in 1..(m + 2) /\ StartsWith(content[h], Heading)
    BY <1>7 DEF HeadingsIn
  <2>2. h # 1 /\ h # m + 2
    BY <1>7, <2>1 DEF StartsWith
  <2>3. h - 1 \in 1..m /\ 1 + (h - 1) = h
    BY <1>7, <2>1, <2>2
  <2>4. PICK i \in 1..n : \E j \in 1..Len(bullets[i]) : h - 1 = end[i - 1] + j
    BY <1>5, <2>3 DEF Laid
  <2>5. PICK j \in 1..Len(bullets[i]) : h - 1 = end[i - 1] + j
    BY <2>4
  <2>6. content[h] = whole[h - 1] /\ whole[h - 1] = bullets[i][j]
    BY <1>5, <1>7, <2>3, <2>5 DEF Laid
  <2> QED
    BY <1>2, <1>3, <2>1, <2>5, <2>6
<1>9. PICK f : LET read == f[Len(content)] IN
        /\ ReadTo(f, content, Len(content))
        /\ parseBullets(content) = [items |-> [i \in DOMAIN read.items |-> TrimNewlines(read.items[i])],
                                    stray |-> read.stray]
  BY <1>7, ParseIs
<1>a. ReadTo(f, content, Len(content))
  BY <1>9
<1>b. f[0] = Unread /\ \A i \in 1..Len(content) : f[i] = ReadBullet(f[i - 1], content[i])
  BY <1>7, <1>a, ReadStep
<1>10. f[1] = Unread
  <2>1. 1 \in 1..Len(content) /\ 1 - 1 = 0
    BY <1>7
  <2>2. f[1 - 1] = Unread
    BY <1>b, <2>1
  <2>3. f[1] = ReadBullet(f[1 - 1], content[1])
    BY <1>b, <2>1
  <2>4. BlankLine(<<>>) /\ ~StartsWith(<<>>, Bullet) /\ ~StartsWith(<<>>, Indent)
    BY NothingSays DEF BlankLine, StartsWith
  <2>5. ReadBullet(Unread, <<>>) = Unread
    BY <2>4 DEF ReadBullet, Unread
  <2> QED
    BY <1>7, <2>2, <2>3, <2>5
<1>11. ASSUME NEW k \in 0..(n - 1)
       PROVE  /\ upto(k) \in Seq(Text) /\ upto(k + 1) = Append(upto(k), back(k + 1))
              /\ k + 1 \in 1..n
  <2>1. k \in Nat /\ k + 1 \in 1..n /\ \A i \in 1..(k + 1) : i \in 1..n
    BY <1>0
  <2>2. \A i \in 1..k : back(i) \in Text
    BY <1>1, <2>1
  <2>3. \A i \in 1..(k + 1) : back(i) \in Text
    BY <1>1, <2>1
  <2> DEFINE g == [i \in 1..n |-> back(i)]
  <2>4. \A i \in 1..(k + 1) : g[i] = back(i) /\ g[i] \in Text
    BY <2>1, <2>3
  <2> HIDE DEF g, back
  <2>5. LET some == [i \in 1..k |-> g[i]]
            more == [i \in 1..(k + 1) |-> g[i]]
        IN some \in Seq(Text) /\ Len(some) = k /\ more = Append(some, g[k + 1])
    BY <2>1, <2>4, Grows
  <2>6. [i \in 1..k |-> g[i]] = upto(k) /\ [i \in 1..(k + 1) |-> g[i]] = upto(k + 1)
    <3>1. \A i \in 1..k : i \in 1..(k + 1)
      BY <2>1
    <3> QED
      BY <2>4, <3>1
  <2>7. g[k + 1] = back(k + 1)
    BY <2>1, <2>4
  <2> QED
    BY <2>1, <2>5, <2>6, <2>7
<1> DEFINE P(k) == f[1 + end[k]] = [items |-> upto(k), stray |-> FALSE]
          N == {k \in Nat : k \in 0..n => P(k)}
<1>12. 0 \in N
  <2>1. upto(0) = <<>>
    OBVIOUS
  <2> HIDE DEF upto
  <2>2. 1 + end[0] = 1
    BY <1>5
  <2>3. P(0)
    BY <1>10, <2>1, <2>2 DEF Unread
  <2> QED
    BY <2>3
<1> HIDE DEF upto, back
<1>13. ASSUME NEW k \in N PROVE k + 1 \in N
  <2> SUFFICES ASSUME k + 1 \in 0..n PROVE P(k + 1)
    OBVIOUS
  <2>1. k \in 0..(n - 1) /\ k \in 0..n /\ k + 1 \in 1..n /\ (k + 1) - 1 = k
    BY <1>0
  <2>2. P(k)
    BY <2>1
  <2> DEFINE a == 1 + end[k]
            item == items[k + 1]
  <2>3. a \in Nat /\ end[k] \in Nat /\ end[k + 1] \in Nat /\ end[k + 1] <= m
    <3>1. k + 1 \in 0..n /\ n \in 0..n /\ k + 1 <= n
      BY <1>0, <2>1
    <3>2. end[k] \in Nat /\ end[k + 1] \in Nat
      BY <2>1, <3>1
    <3>3. end[k + 1] <= end[n]
      BY <1>5, <3>1
    <3> QED
      BY <1>5, <3>2, <3>3
  <2>4. item \in Text /\ Firm(item) /\ Len(item) \in Nat /\ Len(bullets[k + 1]) = Len(item)
    BY <1>0, <1>2, <1>3, <2>1 DEF n
  <2>5. end[k + 1] = end[k] + Len(item)
    BY <1>5, <2>1, <2>4 DEF Laid
  <2>6. a + Len(item) = 1 + end[k + 1] /\ a + Len(item) <= Len(content)
    <3>1. a + Len(item) = 1 + end[k + 1]
      <4>1. ASSUME NEW x \in Nat, NEW l \in Nat PROVE (1 + x) + l = 1 + (x + l)
        OBVIOUS
      <4>2. end[k] \in Nat /\ Len(item) \in Nat
        BY <2>3, <2>4, Zenon
      <4>3. (1 + end[k]) + Len(item) = 1 + (end[k] + Len(item))
        BY <4>1, <4>2, Zenon
      <4> QED
        BY <2>5, <4>3, Zenon
    <3>2. 1 + end[k + 1] <= m + 2
      BY <1>7, <2>3
    <3> QED
      BY <1>7, <3>1, <3>2
  <2>7. ASSUME NEW j \in 1..Len(item) PROVE content[a + j] = WriteBullet(item)[j]
    <3>1. end[k] + j \in 1..m /\ a + j = 1 + (end[k] + j)
      <4> DEFINE e == end[k]
                l == Len(item)
      <4>1. e \in Nat /\ l \in Nat /\ e + l <= m /\ j \in 1..l
        BY <2>3, <2>4, <2>5
      <4> HIDE DEF e, l
      <4>2. e + j \in 1..m /\ (1 + e) + j = 1 + (e + j)
        BY <1>7, <4>1
      <4> QED
        BY <4>2 DEF e
    <3>2. content[a + j] = whole[end[k] + j]
      BY <1>7, <3>1
    <3>3. whole[end[(k + 1) - 1] + j] = bullets[k + 1][j]
      BY <1>5, <2>1, <2>4 DEF Laid
    <3> QED
      BY <1>3, <2>1, <3>2, <3>3
  <2>8. upto(k) \in Seq(Text) /\ upto(k + 1) = Append(upto(k), back(k + 1))
    BY <1>11, <2>1
  <2>9. f[a] = [items |-> upto(k), stray |-> FALSE]
    BY <2>2
  <2> HIDE DEF a, item, N
  <2>10. f[a + Len(item)] = [items |-> Append(upto(k), Stripped(item)), stray |-> FALSE]
    <3>1. content \in Seq(Line) /\ ReadTo(f, content, Len(content))
      BY <1>7, <1>a
    <3>2. item \in Text /\ Firm(item) /\ a \in Nat /\ a + Len(item) <= Len(content)
      BY <2>3, <2>4, <2>6
    <3>3. upto(k) \in Seq(Text)
      BY <2>8
    <3> QED
      BY <2>7, <2>9, <3>1, <3>2, <3>3, ReadItem
  <2> QED
    BY <2>6, <2>8, <2>10 DEF item, back
<1> HIDE DEF N, P
<1>14. N = Nat
  <2>1. N \in SUBSET Nat
    BY DEF N
  <2> QED
    BY <1>12, <1>13, <2>1, SetInduction
<1>15. f[1 + m] = [items |-> upto(n), stray |-> FALSE]
  <2>1. n \in N /\ n \in 0..n
    BY <1>0, <1>14
  <2>2. P(n)
    BY <2>1 DEF N
  <2> QED
    BY <1>5, <2>2 DEF P
<1>16. f[m + 2] = [items |-> Append(upto(n - 1), Append(back(n), <<>>)), stray |-> FALSE]
  <2>1. n - 1 \in 0..(n - 1) /\ (n - 1) + 1 = n /\ n \in 1..n
    BY <1>0
  <2>2. upto(n - 1) \in Seq(Text) /\ upto(n) = Append(upto(n - 1), back(n)) /\ back(n) \in Text
    BY <1>1, <1>11, <2>1
  <2>3. f[m + 2] = ReadBullet(f[m + 1], content[m + 2])
    <3>1. m + 2 \in 1..Len(content) /\ (m + 2) - 1 = m + 1
      BY <1>7
    <3> QED
      BY <1>b, <3>1
  <2>4. 1 + m = m + 1 /\ <<>> \in Line
    BY <1>7, NothingSays
  <2>5. ReadBullet([items |-> Append(upto(n - 1), back(n)), stray |-> FALSE], <<>>)
          = [items |-> Append(upto(n - 1), Append(back(n), <<>>)), stray |-> FALSE]
    BY <2>2, <2>4, ReadMore
  <2> QED
    BY <1>7, <1>15, <2>2, <2>3, <2>4, <2>5
<1>17. parseBullets(content) = [items |-> upto(n), stray |-> FALSE]
  <2> DEFINE longer == Append(back(n), <<>>)
            read == Append(upto(n - 1), longer)
  <2>1. n - 1 \in 0..(n - 1) /\ (n - 1) + 1 = n /\ n \in 1..n /\ n - 1 \in Nat
    BY <1>0
  <2>2. upto(n - 1) \in Seq(Text) /\ back(n) \in Text /\ back(n) \in Seq(Line) /\ Full(back(n))
    BY <1>1, <1>11, <2>1
  <2>3. longer \in Text /\ TrimNewlines(longer) = back(n)
    <3>1. <<>> \in Seq(Line) /\ EmptyText \in Seq(Line) /\ \A i \in 1..Len(<<>>) : <<>>[i] = <<>>
      BY <1>6
    <3>2. \A i \in 1..Len(EmptyText) : EmptyText[i] = <<>>
      <4>1. \A i \in 1..1 : i = 1
        OBVIOUS
      <4> QED
        BY <1>6, <4>1
    <3>3. TrimNewlines(<<>> \o back(n) \o EmptyText) = back(n)
      BY <2>2, <3>1, <3>2, PaddingGoes
    <3>4. <<>> \o back(n) \o EmptyText = longer
      BY <2>2 , NothingSays DEF EmptyText
    <3>5. longer \in Seq(Line) /\ longer # <<>>
      BY <2>2, NothingSays
    <3> QED
      BY <3>3, <3>4, <3>5 DEF Text
  <2> HIDE DEF longer
  <2>4. Len(upto(n - 1)) = n - 1 /\ \A i \in 1..(n - 1) : upto(n - 1)[i] = back(i)
    BY <2>1, <2>2 DEF upto
  <2>5. /\ read \in Seq(Text) /\ Len(read) = n /\ read[n] = longer
        /\ \A i \in 1..(n - 1) : read[i] = back(i)
    <3> DEFINE some == upto(n - 1)
    <3> HIDE DEF some
    <3>1. some \in Seq(Text) /\ Len(some) = n - 1
      BY <2>2, <2>4 DEF some
    <3>2. /\ Append(some, longer) \in Seq(Text) /\ Len(Append(some, longer)) = n
          /\ Append(some, longer)[n] = longer
          /\ \A i \in 1..(n - 1) : Append(some, longer)[i] = some[i]
      BY <2>1, <2>3, <3>1
    <3> QED
      BY <2>4, <3>2 DEF some
  <2> HIDE DEF read
  <2>6. ASSUME NEW i \in 1..n PROVE TrimNewlines(read[i]) = back(i)
    <3>1. CASE i = n
      BY <2>3, <2>5, <3>1
    <3>2. CASE i # n
      <4>1. i \in 1..(n - 1)
        BY <1>0, <3>2
      <4> QED
        BY <1>1, <2>5, <4>1, FullStays
    <3> QED
      BY <3>1, <3>2
  <2>7. f[Len(content)] = [items |-> read, stray |-> FALSE]
    BY <1>7, <1>16 DEF read, longer
  <2>8. parseBullets(content) = [items |-> [i \in DOMAIN read |-> TrimNewlines(read[i])], stray |-> FALSE]
    BY <1>9, <2>7
  <2>9. DOMAIN read = 1..n
    BY <2>5
  <2> QED
    BY <2>6, <2>8, <2>9 DEF upto
<1> QED
  BY <1>7, <1>8, <1>17 DEF content, whole, bullets, upto, back, n

-----------------------------------------------------------------------------
(* Terms come back.                                                        *)

\* A text that begins and ends with something that is not a space.
Tidy(text) ==
  /\ text[1] # <<>> /\ text[1][1] \notin Spaces
  /\ LET last == text[Len(text)] IN last # <<>> /\ last[Len(last)] \notin Spaces

\* Where a line that is not blank begins and ends.
LEMMA SolidEnds ==
  ASSUME NEW line \in Line, ~BlankLine(line)
  PROVE  LET left == SelectInSeq(line, LAMBDA w : w \notin Spaces)
             right == SelectLastInSeq(line, LAMBDA w : w \notin Spaces)
         IN /\ left \in 1..Len(line) /\ right \in 1..Len(line)
            /\ line[left] \notin Spaces /\ line[right] \notin Spaces
            /\ line[1] \notin Spaces => left = 1
            /\ line[Len(line)] \notin Spaces => right = Len(line)
<1> DEFINE P == {i \in 1..Len(line) : line[i] \notin Spaces}
<1>0. line \in Seq(Piece) /\ Len(line) \in Nat
  BY DEF Line
<1>1. P # {}
  <2>1. \A x : x \in ToSet(line) <=> \E i \in 1..Len(line) : line[i] = x
    BY <1>0, Members
  <2> QED
    BY <2>1 DEF BlankLine
<1>2. SelectInSeq(line, LAMBDA w : w \notin Spaces) = Min(P)
  BY <1>1 DEF SelectInSeq
<1>3. SelectLastInSeq(line, LAMBDA w : w \notin Spaces) = Max(P)
  BY <1>1 DEF SelectLastInSeq
<1>4. /\ P \in SUBSET (1..Len(line)) /\ P \in SUBSET Nat
      /\ \A i \in P : line[i] \notin Spaces
      /\ line[1] \notin Spaces => 1 \in P
      /\ line[Len(line)] \notin Spaces => Len(line) \in P
  BY <1>0, <1>1
<1> HIDE DEF P
<1>5. Min(P) \in P /\ \A i \in P : Min(P) <= i
  BY <1>1, <1>4, MinIs
<1>6. Max(P) \in P /\ \A i \in P : i <= Max(P)
  BY <1>0, <1>1, <1>4, MaxIs
<1>7. Min(P) \in 1..Len(line) /\ Max(P) \in 1..Len(line) /\ line[Min(P)] \notin Spaces /\ line[Max(P)] \notin Spaces
  BY <1>4, <1>5, <1>6
<1>8. line[1] \notin Spaces => Min(P) = 1
  BY <1>4, <1>5, <1>7
<1>9. line[Len(line)] \notin Spaces => Max(P) = Len(line)
  BY <1>0, <1>4, <1>6, <1>7
<1> QED
  BY <1>2, <1>3, <1>7, <1>8, <1>9, Zenon

\* The texts that strings.TrimSpace leaves as they are.
LEMMA TidyIsTrimmed ==
  ASSUME NEW text \in Text, ~Blank(text)
  PROVE  TrimSpace(text) = text <=> Tidy(text)
<1> DEFINE solid == {i \in DOMAIN text : ~BlankLine(text[i])}
          Left(line) == SelectInSeq(line, LAMBDA w : w \notin Spaces)
          Right(line) == SelectLastInSeq(line, LAMBDA w : w \notin Spaces)
          lo(i) == IF i = Min(solid) THEN Left(text[i]) ELSE 1
          hi(i) == IF i = Max(solid) THEN Right(text[i]) ELSE Len(text[i])
          Cut(i) == SubSeq(text[i], lo(i), hi(i))
          size == Max(solid) - Min(solid) + 1
          trimmed == [j \in 1..size |-> Cut(Min(solid) + j - 1)]
          n == Len(text)
<1>0. /\ text \in Seq(Line) /\ DOMAIN text = 1..n /\ n \in Nat \ {0}
      /\ \A i \in 1..n : text[i] \in Line /\ text[i] \in Seq(Piece) /\ Len(text[i]) \in Nat
  BY DEF Text, Line
<1>1. TrimSpace(text) = IF solid = {} THEN EmptyText ELSE trimmed
  BY DEF TrimSpace
<1>2. /\ solid \in SUBSET (1..n) /\ solid \in SUBSET Nat /\ solid # {}
      /\ \A i \in 1..n : i \in solid <=> ~BlankLine(text[i])
  BY <1>0 DEF Blank
<1> HIDE DEF solid, n
<1>3. /\ Min(solid) \in solid /\ Max(solid) \in solid
      /\ \A i \in solid : Min(solid) <= i /\ i <= Max(solid)
  BY <1>0, <1>2, MinIs, MaxIs
<1>4. Min(solid) \in 1..n /\ Max(solid) \in 1..n /\ Min(solid) <= Max(solid)
  BY <1>0, <1>2, <1>3
<1>5. \A i \in solid : /\ Left(text[i]) \in 1..Len(text[i]) /\ Right(text[i]) \in 1..Len(text[i])
                       /\ text[i][Left(text[i])] \notin Spaces /\ text[i][Right(text[i])] \notin Spaces
                       /\ text[i][1] \notin Spaces => Left(text[i]) = 1
                       /\ text[i][Len(text[i])] \notin Spaces => Right(text[i]) = Len(text[i])
  BY <1>0, <1>2, SolidEnds
<1> HIDE DEF Left, Right
<1>6. ASSUME TrimSpace(text) = text PROVE Tidy(text)
  <2>1. Min(solid) = 1 /\ Max(solid) = n
    <3>1. text = trimmed
      BY <1>1, <1>2, <1>6
    <3>2. size \in Nat
      BY <1>4
    <3>3. DOMAIN trimmed = 1..size
      OBVIOUS
    <3> HIDE DEF trimmed
    <3>4. 1..n = 1..size
      BY <1>0, <3>1, <3>3
    <3> HIDE DEF size
    <3>5. n = size
      BY <1>0, <3>2, <3>4
    <3> QED
      BY <1>0, <1>4, <3>5 DEF size
  <2>2. size = n /\ 1 \in 1..n /\ n \in 1..n /\ Min(solid) + 1 - 1 = 1 /\ Min(solid) + n - 1 = n
    BY <1>0, <2>1
  <2>3. text[1] = Cut(1) /\ text[n] = Cut(n)
    <3>1. text = trimmed
      BY <1>1, <1>2, <1>6
    <3>2. trimmed[1] = Cut(Min(solid) + 1 - 1) /\ trimmed[n] = Cut(Min(solid) + n - 1)
      BY <2>2
    <3> HIDE DEF trimmed, Cut
    <3> QED
      BY <2>2, <3>1, <3>2
  <2>4. 1 \in solid /\ n \in solid
    BY <1>3, <2>1
  <2>5. ASSUME NEW i \in solid, text[i] = Cut(i), NEW a, NEW b, a = lo(i), b = hi(i)
        PROVE  text[i] # <<>> /\ a = 1 /\ b = Len(text[i])
    <3>1. /\ text[i] \in Seq(Piece) /\ Len(text[i]) \in Nat
          /\ Left(text[i]) \in 1..Len(text[i]) /\ Right(text[i]) \in 1..Len(text[i])
      BY <1>0, <1>2, <1>5
    <3>2. a \in 1..Len(text[i]) /\ b \in 1..Len(text[i])
      BY <2>5, <3>1
    <3>3. text[i] = SubSeq(text[i], a, b)
      BY <2>5
    <3>4. CASE a <= b + 1
      <4>1. a \in Nat /\ b \in Nat /\ 1 <= a /\ b <= Len(text[i])
        BY <3>1, <3>2
      <4>2. Len(SubSeq(text[i], a, b)) = b - a + 1
        BY <3>1, <3>4, <4>1, PartMembers
      <4>3. Len(text[i]) = b - a + 1
        BY <3>3, <4>2
      <4> QED
        BY <3>1, <3>2, <4>1, <4>3
    <3>5. CASE a > b + 1
      <4>1. SubSeq(text[i], a, b) = <<>>
        BY <3>1, <3>2, <3>5
      <4>2. Len(text[i]) = 0
        BY <3>3, <4>1
      <4> QED
        BY <3>1, <4>2
    <3> QED
      BY <3>1, <3>2, <3>4, <3>5
  <2>6. text[1] # <<>> /\ Left(text[1]) = 1
    BY <2>1, <2>3, <2>4, <2>5
  <2>7. text[n] # <<>> /\ Right(text[n]) = Len(text[n])
    BY <2>1, <2>3, <2>4, <2>5
  <2> QED
    BY <1>5, <2>4, <2>6, <2>7 DEF Tidy, n
<1>7. ASSUME Tidy(text) PROVE TrimSpace(text) = text
  <2>1. /\ text[1] # <<>> /\ text[1][1] \notin Spaces /\ text[n] # <<>> /\ text[n][Len(text[n])] \notin Spaces
        /\ 1 \in 1..n /\ n \in 1..n
    BY <1>0, <1>7 DEF Tidy, n
  <2>2. 1 \in solid /\ n \in solid
    <3>1. ASSUME NEW i \in 1..n, NEW j \in 1..Len(text[i]), text[i][j] \notin Spaces PROVE i \in solid
      <4>1. text[i][j] \in ToSet(text[i])
        BY <1>0, <3>1, Members
      <4> QED
        BY <1>2, <3>1, <4>1 DEF BlankLine
    <3>2. 1 \in 1..Len(text[1]) /\ Len(text[n]) \in 1..Len(text[n])
      <4>1. Len(text[1]) # 0 /\ Len(text[n]) # 0
        BY <1>0, <2>1
      <4> QED
        BY <1>0, <2>1, <4>1
    <3> QED
      BY <2>1, <3>1, <3>2
  <2>3. Min(solid) = 1 /\ Max(solid) = n /\ size = n
    BY <1>0, <1>3, <1>4, <2>2
  <2>4. ASSUME NEW i \in 1..n PROVE Cut(i) = text[i]
    <3>1. lo(i) = 1 /\ hi(i) = Len(text[i])
      BY <1>5, <2>1, <2>2, <2>3
    <3>2. SubSeq(text[i], 1, Len(text[i])) = text[i]
      BY <1>0
    <3> QED
      BY <3>1, <3>2
  <2> HIDE DEF Cut
  <2>5. \A j \in 1..n : trimmed[j] = text[j]
    <3> TAKE j \in 1..n
    <3>1. j \in 1..size /\ Min(solid) + j - 1 = j
      BY <1>0, <2>3
    <3>2. trimmed[j] = Cut(j)
      BY <3>1
    <3> QED
      BY <2>4, <3>2
  <2>6. DOMAIN trimmed = 1..n
    BY <2>3
  <2>7. trimmed = [j \in 1..n |-> text[j]]
    BY <2>3, <2>5
  <2>8. text = [j \in 1..n |-> text[j]]
    BY <1>0
  <2> QED
    BY <1>1, <1>2, <2>7, <2>8
<1> QED
  BY <1>6, <1>7

\* The line a term and the first line of its definition are written as.
TermLine(term, l) == <<Bold>> \o term \o <<BoldEnd>> \o l

\* Where its parts are.
LEMMA TermLineIs ==
  ASSUME NEW term \in Line, NEW l \in Line
  PROVE  LET line == TermLine(term, l)
             n == Len(term)
         IN /\ line \in Seq(Piece) /\ n \in Nat /\ Len(l) \in Nat /\ Len(line) = n + 2 + Len(l)
            /\ line[1] = Bold /\ line[n + 2] = BoldEnd
            /\ \A i \in 1..n : line[i + 1] = term[i]
            /\ \A i \in 1..Len(l) : line[n + 2 + i] = l[i]
<1> DEFINE upper == <<Bold>> \o term \o <<BoldEnd>>
          n == Len(term)
<1>0. /\ <<Bold>> \in Seq(Piece) /\ <<BoldEnd>> \in Seq(Piece)
      /\ term \in Seq(Piece) /\ l \in Seq(Piece)
  BY MarkdownAssumption DEF Line
<1>1. /\ upper \in Seq(Piece) /\ Len(upper) = Len(<<Bold>>) + n + Len(<<BoldEnd>>) /\ n \in Nat
      /\ \A i \in 1..Len(<<Bold>>) : upper[i] = <<Bold>>[i]
      /\ \A i \in 1..n : upper[Len(<<Bold>>) + i] = term[i]
      /\ \A i \in 1..Len(<<BoldEnd>>) : upper[Len(<<Bold>>) + n + i] = <<BoldEnd>>[i]
  BY <1>0, ThreePlaces
<1>2. /\ Len(<<Bold>>) = 1 /\ <<Bold>>[1] = Bold /\ Len(<<BoldEnd>>) = 1 /\ <<BoldEnd>>[1] = BoldEnd
      /\ 1 \in 1..1
  OBVIOUS
<1> HIDE DEF upper, n
<1>3. /\ upper \in Seq(Piece) /\ Len(upper) = n + 2 /\ n \in Nat
      /\ upper[1] = Bold /\ upper[n + 2] = BoldEnd
      /\ \A i \in 1..n : upper[i + 1] = term[i]
  <2>1. 1 + n + 1 = n + 2 /\ \A i \in 1..n : 1 + i = i + 1
    BY <1>1
  <2> QED
    BY <1>1, <1>2, <2>1
<1>a. upper \in Seq(Piece)
  BY <1>3
<1>4. /\ upper \o l \in Seq(Piece) /\ Len(upper \o l) = Len(upper) + Len(l) /\ Len(l) \in Nat
      /\ \A i \in 1..Len(upper) : (upper \o l)[i] = upper[i]
      /\ \A i \in 1..Len(l) : (upper \o l)[Len(upper) + i] = l[i]
  BY <1>0, <1>a, ConcatPlaces
<1>5. 1 \in 1..(n + 2) /\ n + 2 \in 1..(n + 2) /\ \A i \in 1..n : i + 1 \in 1..(n + 2)
  BY <1>3
<1>6. TermLine(term, l) = upper \o l
  BY DEF TermLine, upper
<1> QED
  BY <1>3, <1>4, <1>5, <1>6 DEF n

\* The lines of the item a term is written as.
LEMMA TermLines ==
  ASSUME NEW t \in [term : Line, definition : Text]
  PROVE  /\ TermItem(t) \in Text /\ Len(TermItem(t)) = Len(t.definition)
         /\ t.definition[1] \in Line
         /\ TermItem(t)[1] = TermLine(t.term, t.definition[1])
         /\ \A i \in 2..Len(t.definition) : TermItem(t)[i] = t.definition[i]
         /\ Head(TermItem(t)) = TermItem(t)[1] /\ Tail(TermItem(t)) = Tail(t.definition)
<1> DEFINE def == t.definition
          rest == Tail(def)
          first == TermLine(t.term, def[1])
<1>0. /\ t.term \in Line /\ def \in Seq(Line) /\ def # <<>> /\ Len(def) \in Nat \ {0}
      /\ TermItem(t) \in Text
  BY TermItemSays DEF Text
<1>1. /\ rest \in Seq(Line) /\ Len(rest) = Len(def) - 1 /\ Head(def) = def[1] /\ def[1] \in Line
      /\ \A i \in 1..(Len(def) - 1) : rest[i] = def[i + 1]
  BY <1>0
<1>2. TermItem(t) = <<first>> \o rest
  BY <1>1 DEF TermItem, TermLine
<1>3. first \in Line
  BY <1>0, <1>1, TermLineIs DEF Line
<1> HIDE DEF def, rest, first
<1>4. <<first>> \in Seq(Line) /\ Len(<<first>>) = 1 /\ <<first>>[1] = first
  BY <1>3
<1>5. /\ Len(<<first>> \o rest) = Len(<<first>>) + Len(rest)
      /\ \A i \in 1..Len(<<first>>) : (<<first>> \o rest)[i] = <<first>>[i]
      /\ \A i \in 1..Len(rest) : (<<first>> \o rest)[Len(<<first>>) + i] = rest[i]
  <2>1. <<first>> \in Seq(Line) /\ rest \in Seq(Line)
    BY <1>1, <1>4
  <2> QED
    BY <2>1, ConcatPlaces
<1>6. Len(TermItem(t)) = Len(def) /\ TermItem(t)[1] = first
  BY <1>0, <1>1, <1>2, <1>4, <1>5
<1>7. ASSUME NEW i \in 2..Len(def) PROVE TermItem(t)[i] = def[i]
  <2>1. i - 1 \in 1..(Len(def) - 1) /\ 1 + (i - 1) = i /\ (i - 1) + 1 = i
    BY <1>0
  <2>2. (<<first>> \o rest)[1 + (i - 1)] = rest[i - 1] /\ rest[i - 1] = def[(i - 1) + 1]
    BY <1>1, <1>4, <1>5, <2>1
  <2> QED
    BY <1>2, <2>1, <2>2
<1>8. Head(<<first>> \o rest) = first /\ Tail(<<first>> \o rest) = rest
  BY <1>1, <1>3
<1> QED
  BY <1>0, <1>1, <1>2, <1>6, <1>7, <1>8 DEF def, rest, first

\* A term that is written as an item is read from it.
LEMMA TermIsRead ==
  ASSUME NEW t \in [term : Line, definition : Text],
         t.term = TrimLine(t.term), ~BlankLine(t.term), BoldEnd \notin ToSet(t.term),
         ~Blank(t.definition), Tidy(t.definition)
  PROVE  ParseTerm(TermItem(t)) = {t}
<1> DEFINE item == TermItem(t)
          def == t.definition
          line == Head(item)
          n == Len(t.term)
          end == {i \in DOMAIN line : line[i] = BoldEnd /\ i > 2}
<1>0. /\ t.term \in Line /\ t.term \in Seq(Piece) /\ def \in Text /\ def \in Seq(Line) /\ def # <<>>
      /\ t = [term |-> t.term, definition |-> def]
  BY DEF Text, Line
<1>1. line = TermLine(t.term, def[1]) /\ Tail(item) = Tail(def) /\ def[1] \in Line /\ def[1] \in Seq(Piece)
  BY TermLines DEF Line
<1> HIDE DEF item, line, def
<1>2. /\ line \in Seq(Piece) /\ n \in Nat /\ Len(def[1]) \in Nat /\ Len(line) = n + 2 + Len(def[1])
      /\ line[1] = Bold /\ line[n + 2] = BoldEnd
      /\ \A i \in 1..n : line[i + 1] = t.term[i]
      /\ \A i \in 1..Len(def[1]) : line[n + 2 + i] = def[1][i]
  BY <1>0, <1>1, TermLineIs
<1>a. line \in Seq(Piece)
  BY <1>2
<1> HIDE DEF n
<1>b. n \in Nat /\ Len(def[1]) \in Nat /\ Len(line) = n + 2 + Len(def[1])
  BY <1>2
<1>c. Len(line) \in Nat /\ 1 \in 1..Len(line) /\ n + 2 \in 1..Len(line)
  <2>1. ASSUME NEW d \in Nat, NEW m, m = n + 2 + d PROVE m \in Nat /\ 1 \in 1..m /\ n + 2 \in 1..m
    BY <1>b, <2>1
  <2> QED
    BY <1>b, <2>1, Zenon
<1>3. n # 0 /\ DOMAIN line = 1..Len(line) /\ line # <<>> /\ Head(line) = line[1]
  <2>1. t.term # <<>>
    BY NothingSays DEF BlankLine
  <2>2. n # 0
    BY <1>0, <2>1 DEF n
  <2>3. line # <<>> /\ DOMAIN line = 1..Len(line) /\ Head(line) = line[1]
    BY <1>a, <1>c
  <2> QED
    BY <2>2, <2>3
<1>4. n + 2 \in end /\ end \in SUBSET Nat /\ \A i \in end : n + 2 <= i
  <2>1. n + 2 \in end
    <3>1. n + 2 > 2
      BY <1>b, <1>3
    <3>2. line[n + 2] = BoldEnd
      BY <1>2
    <3> QED
      BY <1>c, <1>3, <3>1, <3>2
  <2>2. ASSUME NEW i \in end PROVE n + 2 <= i
    <3>1. i \in 1..Len(line) /\ line[i] = BoldEnd /\ i > 2
      BY <1>3
    <3> SUFFICES ASSUME i < n + 2 PROVE FALSE
      BY <1>b, <3>1
    <3>2. i - 1 \in 1..n /\ (i - 1) + 1 = i
      BY <1>b, <3>1
    <3>3. t.term[i - 1] = BoldEnd
      BY <1>2, <3>1, <3>2
    <3>4. t.term[i - 1] \in ToSet(t.term)
      BY <1>0, <3>2, Members DEF n
    <3> QED
      BY <3>3, <3>4
  <2>3. end \in SUBSET Nat
    BY <1>c, <1>3
  <2> QED
    BY <2>1, <2>2, <2>3
<1>5. Min(end) = n + 2
  <2> HIDE DEF end
  <2>0. n + 2 \in end /\ end \in SUBSET Nat
    BY <1>4
  <2>1. Min(end) \in end /\ \A i \in end : Min(end) <= i
    BY <2>0, MinIs
  <2>2. Min(end) \in Nat /\ Min(end) <= n + 2 /\ n + 2 <= Min(end)
    BY <1>4, <2>0, <2>1
  <2> QED
    BY <1>b, <2>2
<1>6. ParseTerm(item) = {[term |-> TrimLine(SubSeq(line, 2, Min(end) - 1)),
                          definition |-> TrimSpace(<<SubSeq(line, Min(end) + 1, Len(line))>> \o Tail(item))]}
  <2>1. StartsWith(line, Bold) /\ end # {}
    BY <1>2, <1>3, <1>4 DEF StartsWith
  <2> QED
    BY <2>1 DEF ParseTerm, line
<1> HIDE DEF end
<1>7. SubSeq(line, 2, (n + 2) - 1) = t.term
  <2> DEFINE b == n + 1
  <2>1. b \in Nat /\ 2 <= b + 1 /\ b <= Len(line) /\ b - 2 + 1 = n /\ (n + 2) - 1 = b
        /\ \A i \in 1..n : 2 + i - 1 = i + 1
    BY <1>2
  <2> HIDE DEF b
  <2>2. /\ SubSeq(line, 2, b) \in Seq(Piece) /\ Len(SubSeq(line, 2, b)) = b - 2 + 1
        /\ \A i \in 1..(b - 2 + 1) : SubSeq(line, 2, b)[i] = line[2 + i - 1]
    BY <1>2, <2>1, PartMembers
  <2>3. Len(SubSeq(line, 2, b)) = Len(t.term) /\ \A i \in 1..Len(t.term) : SubSeq(line, 2, b)[i] = t.term[i]
    BY <1>2, <2>1, <2>2 DEF n
  <2>4. SubSeq(line, 2, b) = t.term
    BY <1>0, <2>2, <2>3, SeqEqual
  <2> QED
    BY <2>1, <2>4
<1>8. SubSeq(line, (n + 2) + 1, Len(line)) = def[1]
  <2> DEFINE a == n + 3
            b == Len(line)
            l == def[1]
  <2>1. /\ a \in Nat /\ b \in Nat /\ 1 <= a /\ a <= b + 1 /\ b <= Len(line) /\ b - a + 1 = Len(l)
        /\ (n + 2) + 1 = a /\ \A i \in 1..Len(l) : a + i - 1 = n + 2 + i
    <3>1. ASSUME NEW d \in Nat, NEW m \in Nat, m = n + 2 + d
          PROVE  /\ n + 3 \in Nat /\ 1 <= n + 3 /\ n + 3 <= m + 1 /\ m <= m /\ m - (n + 3) + 1 = d
                 /\ (n + 2) + 1 = n + 3 /\ \A i \in 1..d : (n + 3) + i - 1 = n + 2 + i
      BY <1>b, <3>1
    <3> QED
      BY <1>b, <1>c, <3>1, Zenon
  <2>2. l \in Seq(Piece) /\ \A i \in 1..Len(l) : line[n + 2 + i] = l[i]
    BY <1>1, <1>2
  <2> HIDE DEF a, b, l
  <2>3. /\ SubSeq(line, a, b) \in Seq(Piece) /\ Len(SubSeq(line, a, b)) = b - a + 1
        /\ \A i \in 1..(b - a + 1) : SubSeq(line, a, b)[i] = line[a + i - 1]
    <3>1. a \in Nat /\ b \in Nat /\ 1 <= a /\ a <= b + 1 /\ b <= Len(line)
      BY <2>1
    <3> QED
      BY <1>a, <3>1, PartMembers
  <2>4. Len(SubSeq(line, a, b)) = Len(l) /\ \A i \in 1..Len(l) : SubSeq(line, a, b)[i] = l[i]
    BY <2>1, <2>2, <2>3
  <2>5. SubSeq(line, a, b) = l
    BY <2>2, <2>3, <2>4, SeqEqual
  <2> QED
    BY <2>1, <2>5 DEF b, l
<1>9. <<def[1]>> \o Tail(def) = def
  BY <1>0
<1>10. TrimSpace(def) = def
  BY <1>0, TidyIsTrimmed DEF def
<1>11. ParseTerm(item) = {[term |-> TrimLine(t.term), definition |-> TrimSpace(def)]}
  BY <1>1, <1>5, <1>6, <1>7, <1>8, <1>9
<1> QED
  BY <1>0, <1>10, <1>11 DEF item

\* Its item is one that comes back, and comes back as the item of the term whose
\* definition does.
LEMMA TermComesBack ==
  ASSUME NEW t \in [term : Line, definition : Text],
         t.term = TrimLine(t.term), ~BlankLine(t.term), BoldEnd \notin ToSet(t.term),
         ~Blank(t.definition), t.definition = TrimSpace(t.definition)
  PROVE  /\ TermItem(t) \in Text /\ Firm(TermItem(t))
         /\ ParseTerm(Stripped(TermItem(t))) = {[t EXCEPT !.definition = Stripped(@)]}
<1> DEFINE def == t.definition
          back == [t EXCEPT !.definition = Stripped(@)]
          n == Len(def)
<1>0. /\ t.term \in Line /\ def \in Text /\ def \in Seq(Line) /\ \A i \in 1..n : def[i] \in Line
      /\ n \in Nat \ {0} /\ Stripped(def) \in Text /\ Len(Stripped(def)) = n
      /\ Stripped(def)[1] = def[1]
      /\ \A i \in 2..n : Stripped(def)[i] = IF BlankLine(def[i]) THEN <<>> ELSE def[i]
  BY StrippedIs
<1>1. Tidy(def)
  BY <1>0, TidyIsTrimmed
<1>2. back = [term |-> t.term, definition |-> Stripped(def)] /\ back \in [term : Line, definition : Text]
      /\ back.term = t.term /\ back.definition = Stripped(def)
  BY <1>0
<1> HIDE DEF back
<1>3. ASSUME NEW l \in Line, l # <<>> /\ (l[1] \notin Spaces \/ l[Len(l)] \notin Spaces)
      PROVE  ~BlankLine(l)
  <2>1. l \in Seq(Piece) /\ Len(l) # 0 /\ Len(l) \in Nat
    BY <1>3 DEF Line
  <2>2. l[1] \in ToSet(l) /\ l[Len(l)] \in ToSet(l)
    BY <2>1, Members
  <2> QED
    BY <1>3, <2>2 DEF BlankLine
<1>4. ~BlankLine(def[n]) /\ ~BlankLine(def[1])
  BY <1>0, <1>1, <1>3 DEF Tidy
<1>5. /\ TermItem(t) \in Text /\ Len(TermItem(t)) = n
      /\ TermItem(t)[1] = TermLine(t.term, def[1])
      /\ \A i \in 2..n : TermItem(t)[i] = def[i]
  BY TermLines
<1>6. ASSUME NEW l \in Line PROVE TermLine(t.term, l) # <<>> /\ ~BlankLine(TermLine(t.term, l))
  <2>1. /\ TermLine(t.term, l) \in Seq(Piece) /\ Len(TermLine(t.term, l)) = Len(t.term) + 2 + Len(l)
        /\ TermLine(t.term, l)[1] = Bold /\ Len(t.term) \in Nat /\ Len(l) \in Nat
    BY <1>0, TermLineIs
  <2>2. Len(<<>>) = 0 /\ Bold \notin Spaces
    BY DEF Bold, Spaces, Indent
  <2>3. TermLine(t.term, l) # <<>>
    BY <2>1, <2>2
  <2>4. TermLine(t.term, l) \in Line
    BY <2>1 DEF Line
  <2> QED
    BY <1>3, <2>1, <2>2, <2>3, <2>4
<1>7. TermItem(t)[1] # <<>> /\ ~BlankLine(TermItem(t)[n])
  <2>0. ASSUME NEW m \in Nat \ {0} PROVE 1 \in 1..m /\ (m = 1 \/ m \in 2..m)
    OBVIOUS
  <2>1. 1 \in 1..n /\ (n = 1 \/ n \in 2..n)
    BY <1>0, <2>0, Zenon
  <2>2. def[1] \in Line
    BY <1>0, <2>1
  <2> QED
    BY <1>4, <1>5, <1>6, <2>1, <2>2
<1>8. Firm(TermItem(t))
  BY <1>5, <1>7 DEF Firm
<1>9. Stripped(TermItem(t)) = TermItem(back)
  <2>1. /\ Stripped(TermItem(t)) \in Text /\ Len(Stripped(TermItem(t))) = n
        /\ Stripped(TermItem(t))[1] = TermItem(t)[1]
        /\ \A i \in 2..n : Stripped(TermItem(t))[i] = IF BlankLine(TermItem(t)[i]) THEN <<>> ELSE TermItem(t)[i]
    BY <1>5, StrippedIs
  <2>2. /\ TermItem(back) \in Text /\ Len(TermItem(back)) = n
        /\ TermItem(back)[1] = TermLine(t.term, def[1])
        /\ \A i \in 2..n : TermItem(back)[i] = Stripped(def)[i]
    BY <1>0, <1>2, TermLines
  <2>3. ASSUME NEW i \in 1..n PROVE Stripped(TermItem(t))[i] = TermItem(back)[i]
    <3>1. CASE i = 1
      BY <1>5, <2>1, <2>2, <3>1
    <3>2. CASE i # 1
      <4>1. i \in 2..n
        BY <1>0, <3>2
      <4> QED
        BY <1>0, <1>5, <2>1, <2>2, <4>1
    <3> QED
      BY <3>1, <3>2
  <2>4. Stripped(TermItem(t)) \in Seq(Line) /\ TermItem(back) \in Seq(Line)
    BY <2>1, <2>2 DEF Text
  <2> QED
    BY <2>1, <2>2, <2>3, <2>4, SeqEqual
<1>10. Tidy(Stripped(def)) /\ ~Blank(Stripped(def))
  <2>1. def[1] # <<>>
    BY <1>1 DEF Tidy
  <2>2. Firm(def)
    BY <1>4, <2>1 DEF Firm
  <2>3. Stripped(def)[n] = def[n]
    BY <1>0, <2>2, StrippedIs
  <2>4. Tidy(Stripped(def))
    BY <1>0, <1>1, <2>3 DEF Tidy
  <2>5. 1 \in DOMAIN Stripped(def)
    BY <1>0 DEF Text
  <2> QED
    BY <1>0, <1>4, <2>4, <2>5 DEF Blank
<1>11. ParseTerm(TermItem(back)) = {back}
  BY <1>2, <1>10, TermIsRead
<1> QED
  BY <1>5, <1>8, <1>9, <1>11 DEF back

-----------------------------------------------------------------------------
(* References come back.                                                   *)

\* A reference is written as a line.
LEMMA InheritIsLine ==
  ASSUME NEW e \in Reference
  PROVE  Inherit(e) \in Line
<1>1. e.ref \in Seq(Piece) /\ e.version \in Seq(Piece) /\ <<At>> \in Seq(Piece) /\ <<>> \in Seq(Piece)
  BY MarkdownAssumption DEF Reference, Line
<1> QED
  BY <1>1, ConcatPlaces DEF Inherit, Line

\* What is read of a line is a reference.
LEMMA ReferenceIsRead ==
  ASSUME NEW line \in Line
  PROVE  parseInherit(line) \in Reference
<1> DEFINE ref == TrimLine(line)
          at == {i \in DOMAIN ref : ref[i] = At /\ i > 1}
<1>1. ref \in Line /\ ref \in Seq(Piece) /\ DOMAIN ref = 1..Len(ref) /\ Len(ref) \in Nat
  BY TrimLineSays DEF Line
<1>2. parseInherit(line) = IF at = {} THEN [ref |-> ref, version |-> <<>>]
                           ELSE [ref |-> SubSeq(ref, 1, Max(at) - 1), version |-> SubSeq(ref, Max(at) + 1, Len(ref))]
  BY DEF parseInherit
<1> HIDE DEF ref
<1>3. CASE at = {}
  BY <1>1, <1>2, <1>3, NothingSays DEF Reference
<1>4. CASE at # {}
  <2>1. at \in SUBSET (1..Len(ref))
    BY <1>1
  <2> HIDE DEF at
  <2>2. Max(at) \in 1..Len(ref)
    BY <1>1, <1>4, <2>1, MaxIs
  <2> DEFINE m == Max(at)
  <2>3. m \in 1..Len(ref)
    BY <2>2
  <2> HIDE DEF m
  <2>4. /\ m - 1 \in Nat /\ 1 <= (m - 1) + 1 /\ m - 1 <= Len(ref)
        /\ m + 1 \in Nat /\ 1 <= m + 1 /\ m + 1 <= Len(ref) + 1 /\ Len(ref) <= Len(ref)
    BY <1>1, <2>3
  <2>5. SubSeq(ref, 1, m - 1) \in Seq(Piece) /\ SubSeq(ref, m + 1, Len(ref)) \in Seq(Piece)
    BY <1>1, <2>4, PartMembers
  <2> QED
    BY <1>2, <1>4, <2>5 DEF Reference, Line, m
<1> QED
  BY <1>3, <1>4

\* The parents of a document are written as lines.
LEMMA InheritsAreLines ==
  ASSUME NEW extends \in Seq(Reference)
  PROVE  [i \in DOMAIN extends |-> Inherit(extends[i])] \in Seq(Line)
<1>1. DOMAIN extends = 1..Len(extends) /\ Len(extends) \in Nat
      /\ \A i \in 1..Len(extends) : extends[i] \in Reference
  <2>1. ASSUME NEW S, NEW s \in Seq(S)
        PROVE  DOMAIN s = 1..Len(s) /\ Len(s) \in Nat /\ \A i \in 1..Len(s) : s[i] \in S
    OBVIOUS
  <2> QED
    BY <2>1, Zenon
<1>2. \A i \in 1..Len(extends) : Inherit(extends[i]) \in Line
  BY <1>1, InheritIsLine
<1> QED
  BY <1>1, <1>2

\* And lines are read as parents.
LEMMA ParentsAreReferences ==
  ASSUME NEW inherits \in Seq(Line)
  PROVE  [i \in DOMAIN inherits |-> parseInherit(inherits[i])] \in Seq(Reference)
<1>1. DOMAIN inherits = 1..Len(inherits) /\ Len(inherits) \in Nat
      /\ \A i \in 1..Len(inherits) : inherits[i] \in Line
  <2>1. ASSUME NEW S, NEW s \in Seq(S)
        PROVE  DOMAIN s = 1..Len(s) /\ Len(s) \in Nat /\ \A i \in 1..Len(s) : s[i] \in S
    OBVIOUS
  <2> QED
    BY <2>1, Zenon
<1>2. \A i \in 1..Len(inherits) : parseInherit(inherits[i]) \in Reference
  BY <1>1, ReferenceIsRead
<1> QED
  BY <1>1, <1>2

\* A reference without spaces at its edges, to a version without "@", is read as
\* it was written.
LEMMA ReferenceComesBack ==
  ASSUME NEW e \in Reference, e.ref # <<>>, e.version # <<>>,
         e.ref = TrimLine(e.ref), e.version = TrimLine(e.version), At \notin ToSet(e.version)
  PROVE  parseInherit(Inherit(e)) = e
<1> DEFINE ref == e.ref
          version == e.version
          line == ref \o <<At>> \o version
          n == Len(ref)
          m == Len(version)
          at == {i \in DOMAIN line : line[i] = At /\ i > 1}
<1>0. /\ ref \in Seq(Piece) /\ version \in Seq(Piece) /\ <<At>> \in Seq(Piece)
      /\ ref \in Line /\ version \in Line /\ e = [ref |-> ref, version |-> version]
      /\ ref # <<>> /\ version # <<>>
  BY MarkdownAssumption DEF Reference, Line
<1>1. Inherit(e) = line
  <2>1. Inherit(e) = ref \o (<<At>> \o version)
    BY DEF Inherit
  <2>2. ref \o (<<At>> \o version) = (ref \o <<At>>) \o version
    <3>1. ref \in Seq(Piece) /\ <<At>> \in Seq(Piece) /\ version \in Seq(Piece)
      BY <1>0
    <3>2. ASSUME NEW p \in Seq(Piece), NEW q \in Seq(Piece), NEW r \in Seq(Piece)
          PROVE  p \o (q \o r) = (p \o q) \o r
      BY Regroup
    <3> HIDE DEF ref, version
    <3> QED
      BY <3>1, <3>2, Zenon
  <2> QED
    BY <2>1, <2>2, Zenon
<1>2. Tight(ref) /\ Tight(version)
  BY <1>0, TightIsTrimmed
<1>3. /\ line \in Seq(Piece) /\ Len(line) = Len(ref) + Len(<<At>>) + Len(version)
      /\ Len(ref) \in Nat /\ Len(version) \in Nat
      /\ \A i \in 1..Len(ref) : line[i] = ref[i]
      /\ \A i \in 1..Len(<<At>>) : line[Len(ref) + i] = <<At>>[i]
      /\ \A i \in 1..Len(version) : line[Len(ref) + Len(<<At>>) + i] = version[i]
  <2> HIDE DEF ref, version
  <2> QED
    BY <1>0, ThreePlaces
<1>3a. Len(<<At>>) = 1 /\ <<At>>[1] = At /\ 1 \in 1..1
  OBVIOUS
<1>3b. Len(ref) # 0 /\ Len(version) # 0
  <2> HIDE DEF ref, version
  <2> QED
    BY <1>0
<1> HIDE DEF ref, version, line, n, m
<1>4. /\ n \in Nat \ {0} /\ m \in Nat \ {0} /\ Len(line) = n + 1 + m
      /\ \A i \in 1..n : line[i] = ref[i]
      /\ line[n + 1] = At
      /\ \A i \in 1..m : line[n + 1 + i] = version[i]
  <2>1. Len(ref) \in Nat \ {0} /\ Len(version) \in Nat \ {0}
    BY <1>3, <1>3b
  <2> QED
    BY <1>3, <1>3a, <2>1 DEF n, m
<1>5. ASSUME NEW l, l = n + 1 + m
      PROVE  /\ l \in Nat /\ 1 \in 1..l /\ n + 1 \in 1..l /\ l = n + 1 + m /\ m \in 1..m /\ 1 \in 1..n
             /\ n \in Nat /\ 1 <= n + 1 /\ n <= l /\ n - 1 + 1 = n /\ (n + 1) - 1 = n
             /\ n + 2 \in Nat /\ 1 <= n + 2 /\ n + 2 <= l + 1 /\ l <= l /\ l - (n + 2) + 1 = m
             /\ (n + 1) + 1 = n + 2 /\ n + 1 > 1
             /\ \A i \in 1..n : 1 + i - 1 = i
             /\ \A i \in 1..m : (n + 2) + i - 1 = n + 1 + i
             /\ \A i \in 1..l : i > n + 1 => i - (n + 1) \in 1..m /\ n + 1 + (i - (n + 1)) = i
  BY <1>4, <1>5
<1>6. line \in Seq(Piece) /\ DOMAIN line = 1..Len(line) /\ line # <<>>
  <2>1. line \in Seq(Piece)
    BY <1>3
  <2>2. Len(line) # 0
    BY <1>4, <1>5
  <2> QED
    BY <2>1, <2>2
<1>7. TrimLine(line) = line
  <2>1. line[1] = ref[1] /\ line[Len(line)] = version[m]
    BY <1>4, <1>5
  <2>2. Tight(line)
    BY <1>2, <1>6, <2>1 DEF Tight, m
  <2> QED
    BY <1>6, <2>2, TightIsTrimmed DEF Line
<1>8. Max(at) = n + 1 /\ at # {}
  <2>1. n + 1 \in at
    BY <1>4, <1>5, <1>6
  <2>2. at \in SUBSET (1..Len(line)) /\ Len(line) \in Nat
    BY <1>4, <1>5, <1>6
  <2>3. ASSUME NEW i \in at PROVE i <= n + 1
    <3>1. i \in 1..Len(line) /\ line[i] = At
      BY <1>6
    <3>2. n + 1 \in Int /\ i \in Int
      BY <1>4, <1>5, <3>1
    <3> SUFFICES ASSUME i > n + 1 PROVE FALSE
      BY <3>2
    <3>3. i - (n + 1) \in 1..m /\ n + 1 + (i - (n + 1)) = i
      BY <1>4, <1>5, <3>1
    <3>4. version[i - (n + 1)] = At
      BY <1>4, <3>1, <3>3
    <3>5. version[i - (n + 1)] \in ToSet(version)
      BY <1>0, <3>3, Members DEF m
    <3> QED
      BY <3>4, <3>5 DEF version
  <2> HIDE DEF at
  <2>4. Max(at) \in at /\ \A i \in at : i <= Max(at)
    BY <2>1, <2>2, MaxIs
  <2>5. Max(at) <= n + 1 /\ n + 1 <= Max(at) /\ Max(at) \in 1..Len(line)
    BY <2>1, <2>2, <2>3, <2>4, Zenon
  <2>6. ASSUME NEW x \in 1..Len(line), x <= n + 1, n + 1 <= x PROVE x = n + 1
    BY <1>4, <2>2, <2>6
  <2> QED
    BY <2>1, <2>5, <2>6, Zenon
<1>9. SubSeq(line, 1, (n + 1) - 1) = ref
  <2>1. /\ SubSeq(line, 1, n) \in Seq(Piece) /\ Len(SubSeq(line, 1, n)) = n - 1 + 1
        /\ \A i \in 1..(n - 1 + 1) : SubSeq(line, 1, n)[i] = line[1 + i - 1]
    <3>1. n \in Nat /\ 1 \in Nat /\ 1 <= 1 /\ 1 <= n + 1 /\ n <= Len(line)
      BY <1>4, <1>5
    <3> QED
      BY <1>6, <3>1, PartMembers
  <2>2. Len(SubSeq(line, 1, n)) = Len(ref) /\ \A i \in 1..Len(ref) : SubSeq(line, 1, n)[i] = ref[i]
    BY <1>4, <1>5, <2>1 DEF n
  <2>3. SubSeq(line, 1, n) = ref
    BY <1>0, <2>1, <2>2, SeqEqual
  <2> QED
    BY <1>4, <1>5, <2>3
<1>10. SubSeq(line, (n + 1) + 1, Len(line)) = version
  <2>1. /\ SubSeq(line, n + 2, Len(line)) \in Seq(Piece)
        /\ Len(SubSeq(line, n + 2, Len(line))) = Len(line) - (n + 2) + 1
        /\ \A i \in 1..(Len(line) - (n + 2) + 1) : SubSeq(line, n + 2, Len(line))[i] = line[(n + 2) + i - 1]
    <3>1. /\ n + 2 \in Nat /\ Len(line) \in Nat /\ 1 <= n + 2 /\ n + 2 <= Len(line) + 1
          /\ Len(line) <= Len(line)
      BY <1>4, <1>5
    <3> QED
      BY <1>6, <3>1, PartMembers
  <2>2. /\ Len(SubSeq(line, n + 2, Len(line))) = Len(version)
        /\ \A i \in 1..Len(version) : SubSeq(line, n + 2, Len(line))[i] = version[i]
    BY <1>4, <1>5, <2>1 DEF m
  <2>3. SubSeq(line, n + 2, Len(line)) = version
    BY <1>0, <2>1, <2>2, SeqEqual
  <2> QED
    BY <1>4, <1>5, <2>3
<1>11. parseInherit(line) = [ref |-> SubSeq(line, 1, Max(at) - 1), version |-> SubSeq(line, Max(at) + 1, Len(line))]
  BY <1>7, <1>8 DEF parseInherit
<1> HIDE DEF at
<1> QED
  BY <1>0, <1>1, <1>8, <1>9, <1>10, <1>11

-----------------------------------------------------------------------------
(* Slots come back.                                                        *)

\* A section is its heading, and between two empty lines what it says.
LEMMA SectionParts ==
  ASSUME NEW k \in Key, NEW middle \in Seq(Line)
  PROVE  LET rest == EmptyText \o middle \o EmptyText
         IN /\ rest \in Seq(Line)
            /\ <<<<Heading, HeadingOf[k]>>, <<>>>> \o middle \o <<<<>>>>
                 = <<<<Heading, HeadingOf[k]>>>> \o rest
            /\ HeadingsIn(middle) = {} => HeadingsIn(rest) = {}
<1> DEFINE heading == <<<<Heading, HeadingOf[k]>>>>
          E == EmptyText
          rest == E \o middle \o E
<1>1. /\ heading \in Seq(Line) /\ E \in Seq(Line) /\ E = <<<<>>>>
      /\ <<<<Heading, HeadingOf[k]>>, <<>>>> = heading \o E
  <2>1. <<Heading, HeadingOf[k]>> \in Line /\ <<>> \in Line
    BY MarksArePieces, NothingSays DEF Line
  <2> QED
    BY <2>1 DEF EmptyText
<1>2. Len(E) = 1 /\ E[1] = <<>> /\ \A i \in 1..1 : i = 1
  BY DEF EmptyText
<1>3. ~StartsWith(<<>>, Heading)
  BY DEF StartsWith
<1> HIDE DEF heading, E
<1>4. E \in Seq(Line) /\ heading \in Seq(Line)
  BY <1>1
<1>5. /\ rest \in Seq(Line) /\ Len(rest) = Len(E) + Len(middle) + Len(E)
      /\ Len(middle) \in Nat
      /\ \A i \in 1..Len(E) : rest[i] = E[i]
      /\ \A i \in 1..Len(middle) : rest[Len(E) + i] = middle[i]
      /\ \A i \in 1..Len(E) : rest[Len(E) + Len(middle) + i] = E[i]
  BY <1>4, ThreePlaces
<1>6. (heading \o E) \o middle \o E = heading \o rest
  <2>1. ASSUME NEW p \in Seq(Line), NEW q \in Seq(Line), NEW r \in Seq(Line)
        PROVE  p \o (q \o r) = (p \o q) \o r
    BY Regroup
  <2>2. E \o middle \in Seq(Line)
    BY <1>4, ConcatPlaces
  <2>3. heading \o ((E \o middle) \o E) = (heading \o (E \o middle)) \o E
    BY <1>4, <2>1, <2>2, Zenon
  <2>4. heading \o (E \o middle) = (heading \o E) \o middle
    BY <1>4, <2>1, Zenon
  <2> QED
    BY <2>3, <2>4, Zenon
<1>7. ASSUME HeadingsIn(middle) = {} PROVE HeadingsIn(rest) = {}
  <2> DEFINE m == Len(middle)
  <2>1. m \in Nat /\ Len(rest) = m + 2
    BY <1>2, <1>5
  <2>2. DOMAIN rest = 1..Len(rest) /\ DOMAIN middle = 1..m
    BY <1>5
  <2> HIDE DEF m
  <2>3. ASSUME NEW i \in 1..(m + 2)
        PROVE  i = 1 \/ i = 1 + m + 1 \/ (i - 1 \in 1..m /\ 1 + (i - 1) = i)
    BY <2>1
  <2>4. /\ rest[1] = <<>> /\ rest[1 + m + 1] = <<>>
        /\ \A i \in 1..m : rest[1 + i] = middle[i]
    BY <1>2, <1>5 DEF m
  <2>5. ASSUME NEW i \in DOMAIN rest PROVE ~StartsWith(rest[i], Heading)
    <3>1. i \in 1..(m + 2)
      BY <2>1, <2>2
    <3>2. CASE i = 1 \/ i = 1 + m + 1
      BY <1>3, <2>4, <3>2
    <3>3. CASE i - 1 \in 1..m /\ 1 + (i - 1) = i
      <4>1. rest[i] = middle[i - 1]
        BY <2>4, <3>3
      <4>2. ~StartsWith(middle[i - 1], Heading)
        BY <1>7, <2>2, <3>3 DEF HeadingsIn
      <4> QED
        BY <4>1, <4>2
    <3> QED
      BY <2>3, <3>1, <3>2, <3>3
  <2> HIDE DEF rest
  <2> QED
    BY <2>5 DEF HeadingsIn
<1>8. (heading \o E) \o middle \o <<<<>>>> = heading \o rest
  BY <1>1, <1>6, Zenon
<1> QED
  BY <1>1, <1>5, <1>7, <1>8 DEF heading, E

\* The entries of a list or of terms come back from their section.
LEMMA EntriesComeBack ==
  ASSUME NEW k \in Key, KindOf[k] # "prose", NEW slot \in SlotType(k), slot # <<>>,
         WrongEntries(k, slot) = {}, \A i \in DOMAIN slot : Framed(k, slot[i])
  PROVE  LET middle == FlattenSeq([i \in DOMAIN slot |-> WriteBullet(Entries(k, slot)[i])])
             rest == EmptyText \o middle \o EmptyText
         IN /\ middle \in Seq(Line)
            /\ HeadingsIn(rest) = {} /\ ReadSlot(k, rest) = {ReadBack(k, slot)}
<1> DEFINE n == Len(slot)
          items == Entries(k, slot)
          middle == FlattenSeq([i \in DOMAIN slot |-> WriteBullet(items[i])])
          rest == EmptyText \o middle \o EmptyText
<1>0. KindOf[k] = "list" \/ KindOf[k] = "terms"
  BY DocumentAssumption
<1>1. /\ slot \in Seq(Entry(k)) /\ items \in Seq(Text) /\ Len(items) = n /\ n \in Nat
      /\ DOMAIN slot = 1..n /\ DOMAIN items = 1..n
      /\ \A i \in 1..n : slot[i] \in Entry(k) /\ items[i] \in Text
  BY EntriesAre
<1>2. n # 0 /\ items # <<>>
  <2>1. slot \in Seq(Entry(k)) /\ items \in Seq(Text) /\ Len(items) = n
    BY <1>1
  <2> HIDE DEF items
  <2> QED
    BY <2>1
<1>3. ASSUME NEW i \in 1..n
      PROVE  /\ Firm(items[i])
             /\ KindOf[k] = "list" => items[i] = slot[i]
             /\ KindOf[k] = "terms" =>
                  ParseTerm(Stripped(items[i])) = {[slot[i] EXCEPT !.definition = Stripped(@)]}
  <2>1. Framed(k, slot[i]) /\ i \in DOMAIN slot
    BY <1>1
  <2>2. CASE KindOf[k] = "list"
    <3>1. items[i] = slot[i] /\ slot[i] \in Text
      BY <1>1, <2>2 DEF Entries, Entry
    <3>2. Head(slot[i]) # <<>> /\ ~BlankLine(Last(slot[i]))
      BY <2>1, <2>2 DEF Framed
    <3>3. Head(slot[i]) = slot[i][1] /\ Last(slot[i]) = slot[i][Len(slot[i])]
      BY <3>1 DEF Text, Last
    <3> QED
      BY <2>2, <3>1, <3>2, <3>3 DEF Firm
  <2>3. CASE KindOf[k] = "terms"
    <3>1. items[i] = TermItem(slot[i]) /\ slot[i] \in [term : Line, definition : Text]
      BY <1>1, <2>3 DEF Entries, Entry
    <3>2. /\ slot[i].term = TrimLine(slot[i].term) /\ BoldEnd \notin ToSet(slot[i].term)
          /\ slot[i].definition = TrimSpace(slot[i].definition)
      BY <2>1, <2>3 DEF Framed
    <3>3. ~BlankLine(slot[i].term) /\ ~Blank(slot[i].definition)
      BY <2>1, <2>3 DEF WrongEntries
    <3>4. /\ Firm(TermItem(slot[i]))
          /\ ParseTerm(Stripped(TermItem(slot[i]))) = {[slot[i] EXCEPT !.definition = Stripped(@)]}
      BY <3>1, <3>2, <3>3, TermComesBack
    <3> QED
      BY <2>3, <3>1, <3>4
  <2> QED
    BY <1>0, <2>2, <2>3
<1> HIDE DEF items
<1>4. /\ EmptyText \o FlattenSeq([i \in 1..Len(items) |-> WriteBullet(items[i])]) \o EmptyText = rest
      /\ middle = FlattenSeq([i \in 1..Len(items) |-> WriteBullet(items[i])])
  BY <1>1
<1>5. \A i \in 1..Len(items) : Firm(items[i])
  BY <1>1, <1>3
<1>6. /\ rest \in Seq(Line) /\ HeadingsIn(rest) = {}
      /\ parseBullets(rest) = [items |-> [i \in 1..Len(items) |-> Stripped(items[i])], stray |-> FALSE]
  <2>1. items \in Seq(Text) /\ items # <<>>
    BY <1>1, <1>2
  <2> HIDE DEF middle
  <2> QED
    BY <1>4, <1>5, <2>1, ItemsComeBack
<1>7. middle \in Seq(Line)
  <2>1. [i \in 1..n |-> WriteBullet(items[i])] \in Seq(Seq(Line))
    BY <1>1, WriteBulletSays
  <2> QED
    BY <1>1, <2>1, FlatSays
<1> HIDE DEF middle, rest, items
<1>8. /\ parseBullets(rest).stray = FALSE
      /\ parseBullets(rest).items = [i \in 1..n |-> Stripped(items[i])]
      /\ DOMAIN parseBullets(rest).items = 1..n
  BY <1>1, <1>6
<1>9. CASE KindOf[k] = "list"
  <2>1. ReadSlot(k, rest) = {parseBullets(rest).items}
    BY <1>8, <1>9 DEF ReadSlot
  <2>2. ReadBack(k, slot) = [i \in 1..n |-> Stripped(items[i])]
    BY <1>1, <1>3, <1>9 DEF ReadBack
  <2> QED
    BY <1>6, <1>7, <1>8, <2>1, <2>2 DEF middle, rest, items
<1>10. CASE KindOf[k] = "terms"
  <2> DEFINE terms == [i \in DOMAIN parseBullets(rest).items |-> ParseTerm(parseBullets(rest).items[i])]
            Back(i) == [slot[i] EXCEPT !.definition = Stripped(@)]
  <2>1. DOMAIN terms = 1..n /\ \A i \in 1..n : terms[i] = {Back(i)}
    BY <1>3, <1>8, <1>10
  <2>2. ReadSlot(k, rest) = IF \E i \in DOMAIN terms : terms[i] = {} THEN {}
                            ELSE {[i \in DOMAIN terms |-> CHOOSE t \in terms[i] : TRUE]}
    BY <1>8, <1>10 DEF ReadSlot
  <2> HIDE DEF terms
  <2>3. ~ \E i \in DOMAIN terms : terms[i] = {}
    BY <2>1
  <2>4. \A i \in 1..n : (CHOOSE t \in terms[i] : TRUE) = Back(i)
    BY <2>1
  <2>5. [i \in DOMAIN terms |-> CHOOSE t \in terms[i] : TRUE] = [i \in 1..n |-> Back(i)]
    BY <2>1, <2>4
  <2>6. ReadBack(k, slot) = [i \in 1..n |-> Back(i)]
    BY <1>1, <1>10 DEF ReadBack
  <2> QED
    BY <1>6, <1>7, <2>2, <2>3, <2>5, <2>6 DEF middle, rest, items
<1> QED
  BY <1>0, <1>9, <1>10

\* A slot comes back from its section, and from none if it has none.
LEMMA SlotComesBack ==
  ASSUME NEW k \in Key, NEW slot \in SlotType(k), WrongEntries(k, slot) = {},
         IF KindOf[k] = "prose" THEN /\ slot = TrimNewlines(slot) /\ (Blank(slot) => slot = EmptyText)
                                     /\ HeadingsIn(slot) = {}
         ELSE \A i \in DOMAIN slot : Framed(k, slot[i])
  PROVE  \/ writeSlot(k, slot) = <<>> /\ ReadBack(k, slot) = NoContent[k]
         \/ \E rest \in Seq(Line) :
              /\ writeSlot(k, slot) = <<<<Heading, HeadingOf[k]>>>> \o rest
              /\ HeadingsIn(rest) = {} /\ ReadSlot(k, rest) = {ReadBack(k, slot)}
<1>1. CASE KindOf[k] = "prose" /\ Blank(slot)
  BY <1>1 DEF writeSlot, ReadBack, NoContent
<1>2. CASE KindOf[k] = "prose" /\ ~Blank(slot)
  <2> DEFINE E == EmptyText
            rest == E \o slot \o E
  <2>1. slot \in Text /\ slot \in Seq(Line) /\ E \in Seq(Line)
    BY <1>2, NothingSays DEF SlotType, Text
  <2>2. slot # EmptyText
    BY <1>2, NothingSays DEF Blank, BlankLine, EmptyText
  <2>3. Full(slot)
    BY <1>2, <2>1, <2>2, FullIsTrimmed
  <2>4. \A i \in 1..Len(E) : E[i] = <<>>
    BY DEF EmptyText
  <2> HIDE DEF E
  <2>5. TrimNewlines(rest) = slot
    BY <2>1, <2>3, <2>4, PaddingGoes
  <2>6. writeSlot(k, slot) = <<<<Heading, HeadingOf[k]>>, <<>>>> \o slot \o <<<<>>>>
    BY <1>2 DEF writeSlot
  <2>7. /\ rest \in Seq(Line) /\ HeadingsIn(rest) = {}
        /\ writeSlot(k, slot) = <<<<Heading, HeadingOf[k]>>>> \o rest
    BY <1>2, <2>1, <2>6, SectionParts DEF E
  <2>8. rest # <<>>
    <3>1. TrimNewlines(<<>>) = EmptyText
      BY DEF TrimNewlines
    <3> QED
      BY <2>2, <2>5, <3>1
  <2> HIDE DEF rest
  <2>9. ReadSlot(k, rest) = {ReadBack(k, slot)}
    BY <1>2, <2>5, <2>8 DEF ReadSlot, ReadBack
  <2> QED
    BY <2>7, <2>9
<1>3. CASE KindOf[k] # "prose" /\ slot = <<>>
  <2>1. KindOf[k] = "list" \/ KindOf[k] = "terms"
    BY <1>3, DocumentAssumption
  <2>2. NoContent[k] = <<>> /\ writeSlot(k, slot) = <<>>
    BY <1>3 DEF NoContent, writeSlot
  <2>3. ReadBack(k, slot) = <<>>
    <3>1. DOMAIN slot = {}
      BY <1>3
    <3> QED
      BY <1>3, <2>1, <3>1 DEF ReadBack
  <2> QED
    BY <2>2, <2>3
<1>4. CASE KindOf[k] # "prose" /\ slot # <<>>
  <2> DEFINE middle == FlattenSeq([i \in DOMAIN slot |-> WriteBullet(Entries(k, slot)[i])])
            rest == EmptyText \o middle \o EmptyText
  <2>1. middle \in Seq(Line) /\ HeadingsIn(rest) = {} /\ ReadSlot(k, rest) = {ReadBack(k, slot)}
    BY <1>4, EntriesComeBack
  <2>2. writeSlot(k, slot) = <<<<Heading, HeadingOf[k]>>, <<>>>> \o middle \o <<<<>>>>
    BY <1>4 DEF writeSlot
  <2> HIDE DEF middle
  <2>3. rest \in Seq(Line) /\ writeSlot(k, slot) = <<<<Heading, HeadingOf[k]>>>> \o rest
    BY <2>1, <2>2, SectionParts
  <2> QED
    BY <2>1, <2>3
<1> QED
  BY <1>1, <1>2, <1>3, <1>4

-----------------------------------------------------------------------------
(* The sections of a body.                                                 *)

\* Part i of a file, if it is not missing, is a section: a heading, and lines
\* that are none.
Section(parts, heading, rest, i) ==
  /\ heading[i] \in Line /\ rest[i] \in Seq(Line)
  /\ parts[i] = <<heading[i]>> \o rest[i]
  /\ StartsWith(heading[i], Heading) /\ HeadingsIn(rest[i]) = {}

\* It has a heading, and then no other.
Headed(part, h, r) ==
  /\ Len(part) = 1 + Len(r) /\ Len(r) \in Nat /\ part[1] = h
  /\ \A j \in 1..Len(r) : part[1 + j] = r[j]
  /\ \A j \in 1..Len(part) : StartsWith(part[j], Heading) <=> j = 1

\* The lines of a section.
LEMMA SectionLines ==
  ASSUME NEW parts, NEW heading, NEW rest, NEW i, Section(parts, heading, rest, i)
  PROVE  Headed(parts[i], heading[i], rest[i])
<1> DEFINE h == <<heading[i]>>
          r == rest[i]
          part == parts[i]
<1>1. /\ h \in Seq(Line) /\ r \in Seq(Line) /\ part = h \o r /\ Len(h) = 1 /\ h[1] = heading[i] /\ 1 \in 1..1
      /\ StartsWith(heading[i], Heading) /\ HeadingsIn(r) = {} /\ DOMAIN r = 1..Len(r)
  BY DEF Section
<1> HIDE DEF h, r, part
<1>2. /\ Len(part) = Len(h) + Len(r) /\ Len(r) \in Nat
      /\ \A j \in 1..Len(h) : part[j] = h[j]
      /\ \A j \in 1..Len(r) : part[Len(h) + j] = r[j]
  <2>1. ASSUME NEW p \in Seq(Line), NEW q \in Seq(Line)
        PROVE  /\ Len(p \o q) = Len(p) + Len(q) /\ Len(q) \in Nat
               /\ \A j \in 1..Len(p) : (p \o q)[j] = p[j]
               /\ \A j \in 1..Len(q) : (p \o q)[Len(p) + j] = q[j]
    BY ConcatPlaces
  <2> QED
    BY <1>1, <2>1, Zenon
<1>3. /\ Len(part) = 1 + Len(r) /\ Len(r) \in Nat /\ part[1] = heading[i]
      /\ \A j \in 1..Len(r) : part[1 + j] = r[j]
  BY <1>1, <1>2
<1>4. ASSUME NEW j \in 1..Len(part) PROVE StartsWith(part[j], Heading) <=> j = 1
  <2>1. CASE j = 1
    BY <1>1, <1>3, <2>1
  <2>2. CASE j # 1
    <3>1. ASSUME NEW m \in Nat, NEW l, l = 1 + m, NEW p \in 1..l, p # 1
          PROVE  p - 1 \in 1..m /\ 1 + (p - 1) = p
      BY <3>1
    <3>2. j - 1 \in 1..Len(r) /\ 1 + (j - 1) = j
      BY <1>3, <2>2, <3>1, Zenon
    <3>3. part[j] = r[j - 1]
      BY <1>3, <3>2
    <3>4. ~StartsWith(r[j - 1], Heading)
      BY <1>1, <3>2 DEF HeadingsIn
    <3> QED
      BY <2>2, <3>3, <3>4
  <2> QED
    BY <2>1, <2>2
<1>5. Headed(part, heading[i], r)
  BY <1>3, <1>4 DEF Headed
<1> QED
  BY <1>5 DEF r, part

\* A body begins with head, and then come the parts Given, each with its
\* heading at a place of its own, and with the rest of it as its content.
Holds(body, head, Given, heading, rest) ==
  /\ body \in Seq(Line) /\ Len(head) \in Nat /\ Len(body) >= Len(head)
  /\ \A i \in 1..Len(head) : body[i] = head[i]
  /\ \A p \in DOMAIN body : p > Len(head) => \E h \in HeadingsIn(body) : h <= p
  /\ \E at : /\ HeadingsIn(body) = {at[i] : i \in Given}
             /\ \A i, j \in Given : at[i] = at[j] => i = j
             /\ \A i \in Given : /\ at[i] > Len(head) /\ at[i] \in Nat
                                 /\ body[at[i]] = heading[i]
                                 /\ Content(body, at[i]) = rest[i]

\* Where the sections of a file begin, and what they hold.
LEMMA SectionsAre ==
  ASSUME NEW head \in Seq(Line), HeadingsIn(head) = {},
         NEW parts \in Seq(Seq(Line)), NEW heading, NEW rest,
         \A i \in 1..Len(parts) : parts[i] = <<>> \/ Section(parts, heading, rest, i)
  PROVE  Holds(head \o FlattenSeq(parts), head, {i \in 1..Len(parts) : parts[i] # <<>>}, heading, rest)
<1> DEFINE flat == FlattenSeq(parts)
          body == head \o flat
          N == Len(parts)
          L == Len(head)
          Given == {i \in 1..N : parts[i] # <<>>}
<1>1. flat \in Seq(Line)
  BY FlatPlaces
<1>2. PICK end \in [0..N -> Nat] :
        /\ end[0] = 0 /\ end[N] = Len(flat)
        /\ Laid(flat, parts, end, N)
        /\ \A i, j \in 0..N : i <= j => end[i] <= end[j]
  BY FlatPlaces
<1>3. N \in Nat /\ DOMAIN parts = 1..N /\ \A i \in 1..N : Len(parts[i]) \in Nat
  BY DEF N
<1> HIDE DEF flat, N
<1>4. /\ body \in Seq(Line) /\ Len(body) = Len(head) + Len(flat)
      /\ Len(head) \in Nat /\ Len(flat) \in Nat
      /\ \A i \in 1..Len(head) : body[i] = head[i]
      /\ \A i \in 1..Len(flat) : body[Len(head) + i] = flat[i]
  BY <1>1, ConcatPlaces
<1>5. DOMAIN body = 1..Len(body) /\ DOMAIN head = 1..Len(head)
  <2>1. body \in Seq(Line)
    BY <1>4
  <2> HIDE DEF body
  <2> QED
    BY <2>1
<1> HIDE DEF body, L
<1>6. /\ L \in Nat /\ end[N] \in Nat /\ Len(body) = L + end[N] /\ DOMAIN body = 1..(L + end[N])
      /\ \A i \in 1..L : body[i] = head[i]
      /\ \A i \in 1..end[N] : body[L + i] = flat[i]
  BY <1>2, <1>4, <1>5 DEF L
<1>6n. L \in Nat /\ end[N] \in Nat /\ Len(body) = L + end[N] /\ DOMAIN body = 1..(L + end[N])
  BY <1>6
<1>6b. /\ \A i \in 1..L : body[i] = head[i]
       /\ \A i \in 1..end[N] : body[L + i] = flat[i]
  BY <1>6
<1>7. /\ \A i \in 0..N : end[i] \in Nat
      /\ \A i \in 1..N : i - 1 \in 0..N /\ i \in 0..N
  BY <1>3
<1>8. /\ \A i \in 1..N : end[i] = end[i - 1] + Len(parts[i])
      /\ \A i \in 1..N : \A j \in 1..Len(parts[i]) : flat[end[i - 1] + j] = parts[i][j]
      /\ \A p \in 1..end[N] : \E i \in 1..N : \E j \in 1..Len(parts[i]) : p = end[i - 1] + j
      /\ \A i, j \in 0..N : i <= j => end[i] <= end[j]
      /\ \A i \in 0..N : end[i] <= end[N]
  BY <1>2 DEF Laid
<1>9. ASSUME NEW i \in 1..N, NEW j \in 1..Len(parts[i])
      PROVE  end[i - 1] + j \in 1..end[N] /\ body[L + (end[i - 1] + j)] = parts[i][j]
  <2>1. ASSUME NEW a \in Nat, NEW b, NEW c \in Nat, NEW l \in Nat, b = a + l, b <= c, NEW m \in 1..l
        PROVE  a + m \in 1..c
    BY <2>1
  <2>2. end[i - 1] + j \in 1..end[N]
    BY <1>3, <1>6, <1>7, <1>8, <2>1
  <2> QED
    BY <1>6, <1>8, <2>2
<1>10. ASSUME NEW i \in Given
       PROVE  /\ i \in 1..N /\ i - 1 \in 0..N /\ i \in 0..N
              /\ end[i] \in Nat /\ end[i - 1] \in Nat
              /\ end[i] = end[i - 1] + (1 + Len(rest[i])) /\ Len(rest[i]) \in Nat
              /\ 1 \in 1..Len(parts[i]) /\ Section(parts, heading, rest, i)
  <2>1. i \in 1..N /\ Section(parts, heading, rest, i)
    BY DEF N
  <2>2. Len(parts[i]) = 1 + Len(rest[i]) /\ Len(rest[i]) \in Nat
    BY <2>1, SectionLines DEF Headed
  <2>3. ASSUME NEW l, NEW m \in Nat, l = 1 + m PROVE 1 \in 1..l
    BY <2>3
  <2> QED
    BY <1>7, <1>8, <2>1, <2>2, <2>3
<1>10n. ASSUME NEW i \in Given
        PROVE  /\ i \in 1..N /\ i - 1 \in 0..N /\ i \in 0..N
               /\ end[i] \in Nat /\ end[i - 1] \in Nat /\ end[i - 1] < end[i]
  <2>1. ASSUME NEW a \in Nat, NEW b, NEW l \in Nat, b = a + (1 + l) PROVE a < b
    BY <2>1
  <2> QED
    BY <1>10, <2>1, Zenon
<1>10s. ASSUME NEW i \in Given
        PROVE  /\ Section(parts, heading, rest, i) /\ 1 \in 1..Len(parts[i])
               /\ StartsWith(heading[i], Heading) /\ rest[i] \in Seq(Line)
               /\ Len(parts[i]) = 1 + Len(rest[i]) /\ parts[i][1] = heading[i]
               /\ \A j \in 1..Len(rest[i]) : parts[i][1 + j] = rest[i][j]
               /\ \A j \in 1..Len(parts[i]) : StartsWith(parts[i][j], Heading) <=> j = 1
  <2>1. Section(parts, heading, rest, i) /\ 1 \in 1..Len(parts[i])
    BY <1>10
  <2>2. StartsWith(heading[i], Heading) /\ rest[i] \in Seq(Line)
    BY <2>1 DEF Section
  <2>3. /\ Len(parts[i]) = 1 + Len(rest[i]) /\ parts[i][1] = heading[i]
        /\ \A j \in 1..Len(rest[i]) : parts[i][1 + j] = rest[i][j]
        /\ \A j \in 1..Len(parts[i]) : StartsWith(parts[i][j], Heading) <=> j = 1
    <3>1. Headed(parts[i], heading[i], rest[i])
      BY <2>1, SectionLines
    <3> QED
      BY <3>1, Zenon DEF Headed
  <2> QED
    BY <2>1, <2>2, <2>3, Zenon
<1>10g. \A i \in 1..N : i \in Given <=> parts[i] # <<>>
  OBVIOUS
<1>10h. ASSUME NEW i \in Given PROVE i \in 1..N
  OBVIOUS
<1> HIDE DEF Given
<1> DEFINE at == [i \in 1..N |-> L + (end[i - 1] + 1)]
<1>11. ASSUME NEW i \in Given
       PROVE  /\ at[i] = L + (end[i - 1] + 1) /\ at[i] > L /\ at[i] \in Nat /\ at[i] \in DOMAIN body
              /\ body[at[i]] = heading[i] /\ at[i] \in HeadingsIn(body)
  <2>1. at[i] = L + (end[i - 1] + 1)
    BY <1>10n
  <2>2. end[i - 1] + 1 \in 1..end[N] /\ body[L + (end[i - 1] + 1)] = parts[i][1]
    <3>1. i \in 1..N /\ 1 \in 1..Len(parts[i])
      BY <1>10h, <1>10s, Zenon
    <3> QED
      BY <1>9, <3>1, Zenon
  <2>3. parts[i][1] = heading[i] /\ StartsWith(heading[i], Heading)
    BY <1>10s
  <2>4. L + (end[i - 1] + 1) > L /\ L + (end[i - 1] + 1) \in Nat /\ L + (end[i - 1] + 1) \in 1..(L + end[N])
    <3>1. ASSUME NEW x \in Nat, x + 1 \in 1..end[N]
          PROVE  L + (x + 1) > L /\ L + (x + 1) \in Nat /\ L + (x + 1) \in 1..(L + end[N])
      BY <1>6n, <3>1
    <3> QED
      BY <1>10n, <2>2, <3>1, Zenon
  <2> HIDE DEF at
  <2> QED
    BY <1>6n, <2>1, <2>2, <2>3, <2>4 DEF HeadingsIn
<1>12. ASSUME NEW p \in HeadingsIn(body)
       PROVE  \E i \in Given : p = at[i]
  <2>1. p \in 1..(L + end[N]) /\ StartsWith(body[p], Heading)
    BY <1>6n DEF HeadingsIn
  <2>2. p \notin 1..L
    BY <1>5, <1>6b, <2>1 DEF HeadingsIn, L
  <2>3. p - L \in 1..end[N] /\ L + (p - L) = p
    BY <1>6n, <2>1, <2>2
  <2>4. PICK i \in 1..N : \E j \in 1..Len(parts[i]) : p - L = end[i - 1] + j
    BY <1>8, <2>3
  <2>5. PICK j \in 1..Len(parts[i]) : p - L = end[i - 1] + j
    BY <2>4
  <2>6. parts[i] # <<>>
    <3>1. Len(<<>>) = 0
      OBVIOUS
    <3>2. Len(parts[i]) # 0
      BY <1>3, <2>5
    <3> QED
      BY <3>1, <3>2
  <2>7. i \in Given
    BY <1>10g, <2>6
  <2>8. body[p] = parts[i][j]
    <3>1. body[L + (end[i - 1] + j)] = parts[i][j]
      BY <1>9, Zenon
    <3> QED
      BY <2>3, <2>5, <3>1, Zenon
  <2>9. j = 1
    <3> QED
      BY <1>10s, <2>1, <2>7, <2>8
  <2> QED
    BY <1>11, <2>3, <2>5, <2>7, <2>9
<1> HIDE DEF at
<1>12a. ASSUME NEW p \in DOMAIN body, p > L
        PROVE  \E h \in HeadingsIn(body) : h <= p
  <2>1. p - L \in 1..end[N] /\ L + (p - L) = p
    BY <1>6n, <1>12a
  <2>2. PICK i \in 1..N : \E j \in 1..Len(parts[i]) : p - L = end[i - 1] + j
    BY <1>8, <2>1
  <2>3. PICK j \in 1..Len(parts[i]) : p - L = end[i - 1] + j
    BY <2>2
  <2>4. parts[i] # <<>>
    <3>1. Len(<<>>) = 0
      OBVIOUS
    <3>2. Len(parts[i]) # 0
      BY <1>3, <2>3
    <3> QED
      BY <3>1, <3>2
  <2>5. i \in Given
    BY <1>10g, <2>4
  <2>6. ASSUME NEW x \in Nat, NEW y, y = x + j PROVE L + (x + 1) <= L + y
    BY <1>3, <1>6n, <2>6
  <2>7. L + (end[i - 1] + 1) <= L + (p - L)
    BY <1>10n, <2>3, <2>5, <2>6, Zenon
  <2> QED
    BY <1>11, <2>1, <2>5, <2>7, Zenon
<1>13. HeadingsIn(body) = {at[i] : i \in Given}
  BY <1>11, <1>12
<1>14. ASSUME NEW i \in Given, NEW j \in Given, at[i] < at[j]
       PROVE  i < j /\ end[i] <= end[j - 1]
  <2>1. /\ i \in 1..N /\ j \in 1..N /\ end[i - 1] < end[j - 1]
    BY <1>6n, <1>10n, <1>11, <1>14
  <2>2. i < j
    <3> SUFFICES ASSUME j - 1 <= i - 1 PROVE FALSE
      BY <1>3, <2>1
    <3>1. end[j - 1] <= end[i - 1]
      BY <1>8, <1>10n
    <3> QED
      BY <1>10n, <2>1, <3>1
  <2>3. i <= j - 1
    BY <1>3, <2>1, <2>2
  <2> QED
    BY <1>8, <1>10n, <2>2, <2>3
<1>15. ASSUME NEW i \in Given, NEW j \in Given, at[i] = at[j]
       PROVE  i = j
  <2>1. ASSUME NEW a \in Given, NEW b \in Given, a < b PROVE at[a] # at[b]
    <3>1. a <= b - 1
      BY <1>10n, <1>3, <2>1
    <3>2. end[a] <= end[b - 1]
      BY <1>8, <1>10n, <3>1
    <3>3. ASSUME NEW x \in Nat, NEW y \in Nat, NEW z \in Nat, x < y, y <= z
          PROVE  L + (x + 1) # L + (z + 1)
      BY <1>6n, <3>3
    <3>4. L + (end[a - 1] + 1) # L + (end[b - 1] + 1)
      BY <1>10n, <3>2, <3>3, Zenon
    <3> QED
      BY <1>11, <3>4, Zenon
  <2>2. i \in Int /\ j \in Int
    BY <1>10n
  <2> QED
    BY <1>15, <2>1, <2>2
<1>16. ASSUME NEW i \in Given
       PROVE  EndOf(body, at[i]) = L + end[i] + 1
  <2> DEFINE T == {q \in HeadingsIn(body) : q > at[i]} \cup {Len(body) + 1}
            e == L + end[i] + 1
  <2>1. e \in Nat /\ e > at[i]
    BY <1>6n, <1>10n, <1>11
  <2>2. ASSUME NEW q \in T PROVE q \in Nat /\ e <= q
    <3>1. CASE q = Len(body) + 1
      <4>1. end[i] <= end[N] /\ end[i] \in Nat
        BY <1>8, <1>10n
      <4>2. ASSUME NEW x \in Nat, NEW y \in Nat, x <= y
            PROVE  L + y + 1 \in Nat /\ L + x + 1 <= L + y + 1
        BY <1>6n, <4>2
      <4>3. q = L + end[N] + 1
        BY <1>6n, <3>1, Zenon
      <4> QED
        BY <1>6n, <4>1, <4>2, <4>3, Zenon
    <3>2. CASE q \in HeadingsIn(body) /\ q > at[i]
      <4>1. PICK j \in Given : q = at[j]
        BY <1>12, <3>2
      <4>2. end[i] <= end[j - 1]
        BY <1>11, <1>14, <3>2, <4>1
      <4>3. q = L + (end[j - 1] + 1)
        BY <1>11, <4>1
      <4>4. ASSUME NEW x \in Nat, NEW y \in Nat, x <= y
            PROVE  L + (y + 1) \in Nat /\ L + x + 1 <= L + (y + 1)
        BY <1>6n, <4>4
      <4> QED
        BY <1>10n, <4>2, <4>3, <4>4, Zenon
    <3> QED
      BY <3>1, <3>2
  <2>3. e \in T
    <3>1. CASE end[i] = end[N]
      BY <1>6n, <3>1
    <3>2. CASE end[i] # end[N]
      <4>1. end[i] + 1 \in 1..end[N]
        <5>1. end[i] <= end[N]
          BY <1>8, <1>10n
        <5>2. ASSUME NEW x \in Nat, NEW y \in Nat, x # y, x <= y PROVE x + 1 \in 1..y
          BY <5>2
        <5> QED
          BY <1>6n, <1>10n, <3>2, <5>1, <5>2, Zenon
      <4>2. PICK j \in 1..N : \E m \in 1..Len(parts[j]) : end[i] + 1 = end[j - 1] + m
        BY <1>8, <4>1
      <4>3. PICK m \in 1..Len(parts[j]) : end[i] + 1 = end[j - 1] + m
        BY <4>2
      <4>4. /\ end[j] = end[j - 1] + Len(parts[j]) /\ end[j] \in Nat /\ end[j - 1] \in Nat
            /\ Len(parts[j]) \in Nat /\ j \in 0..N /\ j - 1 \in 0..N
        BY <1>3, <1>7, <1>8
      <4>5. end[i] < end[j]
        BY <1>10n, <4>3, <4>4
      <4>6. i <= j - 1
        <5> SUFFICES ASSUME j <= i PROVE FALSE
          BY <1>3, <1>10n
        <5>1. end[j] <= end[i]
          BY <1>8, <1>10n, <4>4
        <5> QED
          BY <1>10n, <4>4, <4>5, <5>1
      <4>7. end[i] <= end[j - 1]
        BY <1>8, <1>10n, <4>4, <4>6
      <4>8. m = 1
        BY <1>10n, <4>3, <4>4, <4>7
      <4>9. parts[j] # <<>>
        <5>1. Len(<<>>) = 0
          OBVIOUS
        <5>2. Len(parts[j]) # 0
          BY <4>3, <4>4
        <5> QED
          BY <5>1, <5>2
      <4>10. j \in Given
        BY <1>10g, <4>9
      <4>11. e = at[j]
        BY <1>6n, <1>10n, <1>11, <4>3, <4>4, <4>8, <4>10
      <4> QED
        BY <1>11, <2>1, <4>10, <4>11
    <3> QED
      BY <3>1, <3>2
  <2>4. EndOf(body, at[i]) = Min(T)
    BY DEF EndOf
  <2>5. T \in SUBSET Nat
    BY <2>2
  <2> HIDE DEF T, e
  <2>6. Min(T) \in T /\ \A q \in T : Min(T) <= q
    BY <2>3, <2>5, MinIs
  <2>7. Min(T) <= e /\ e <= Min(T) /\ Min(T) \in Nat
    BY <2>2, <2>3, <2>6
  <2>8. Min(T) = e
    BY <2>1, <2>7
  <2> QED
    BY <2>4, <2>8 DEF e
<1>17. ASSUME NEW i \in Given
       PROVE  Content(body, at[i]) = rest[i]
  <2> DEFINE a == L + (end[i - 1] + 1) + 1
            b == L + end[i]
            r == rest[i]
  <2>1. Content(body, at[i]) = SubSeq(body, at[i] + 1, EndOf(body, at[i]) - 1)
    BY DEF Content, EndOf
  <2>2. at[i] + 1 = a /\ EndOf(body, at[i]) - 1 = b
    BY <1>6n, <1>10n, <1>11, <1>16
  <2>3. /\ a \in Nat /\ b \in Nat /\ 1 <= a /\ a <= b + 1 /\ b <= Len(body) /\ b - a + 1 = Len(r)
        /\ \A j \in 1..Len(r) : a + j - 1 = L + (end[i - 1] + (1 + j)) /\ 1 + j \in 1..(1 + Len(r))
    <3>1. /\ end[i] \in Nat /\ end[i - 1] \in Nat /\ Len(r) \in Nat /\ end[i] = end[i - 1] + (1 + Len(r))
          /\ end[i] <= end[N] /\ end[N] \in Nat /\ Len(body) = L + end[N] /\ L \in Nat
      BY <1>6n, <1>8, <1>10
    <3>2. ASSUME NEW l \in Nat, NEW x \in Nat, NEW y \in Nat, y = x + (1 + l)
          PROVE  /\ L + (x + 1) + 1 \in Nat /\ L + y \in Nat /\ 1 <= L + (x + 1) + 1
                 /\ L + (x + 1) + 1 <= (L + y) + 1 /\ (L + y) - (L + (x + 1) + 1) + 1 = l
      BY <3>1, <3>2
    <3>3. ASSUME NEW l \in Nat, NEW x \in Nat, NEW j \in 1..l
          PROVE  L + (x + 1) + 1 + j - 1 = L + (x + (1 + j)) /\ 1 + j \in 1..(1 + l)
      BY <3>1, <3>3
    <3>4. a \in Nat /\ b \in Nat /\ 1 <= a /\ a <= b + 1 /\ b - a + 1 = Len(r)
      <4>1. ASSUME NEW l, NEW x, NEW y, l = Len(r), x = end[i - 1], y = end[i]
            PROVE  /\ L + (x + 1) + 1 \in Nat /\ L + y \in Nat /\ 1 <= L + (x + 1) + 1
                   /\ L + (x + 1) + 1 <= (L + y) + 1 /\ (L + y) - (L + (x + 1) + 1) + 1 = l
        <5>1. l \in Nat /\ x \in Nat /\ y \in Nat /\ y = x + (1 + l)
          BY <3>1, <4>1, Zenon
        <5> QED
          BY <3>2, <5>1
      <4> QED
        BY <4>1, Zenon
    <3>5. \A j \in 1..Len(r) : a + j - 1 = L + (end[i - 1] + (1 + j)) /\ 1 + j \in 1..(1 + Len(r))
      BY <3>1, <3>3, Zenon
    <3>6. ASSUME NEW y \in Nat, NEW z \in Nat, y <= z PROVE L + y <= L + z
      BY <3>1, <3>6
    <3>7. b <= Len(body)
      BY <3>1, <3>6, Zenon
    <3> QED
      BY <3>4, <3>5, <3>7, Zenon
  <2>4. body \in Seq(Line) /\ r \in Seq(Line)
    BY <1>4, <1>10s
  <2>5. ASSUME NEW j \in 1..Len(r) PROVE body[a + j - 1] = r[j]
    <3>1. /\ Len(parts[i]) = 1 + Len(r) /\ parts[i][1 + j] = r[j]
      BY <1>10s DEF r
    <3>2. body[L + (end[i - 1] + (1 + j))] = parts[i][1 + j]
      BY <1>9, <1>10n, <2>3, <3>1
    <3> QED
      BY <2>3, <3>1, <3>2
  <2> HIDE DEF a, b, r
  <2>6. /\ SubSeq(body, a, b) \in Seq(Line) /\ Len(SubSeq(body, a, b)) = b - a + 1
        /\ \A j \in 1..(b - a + 1) : SubSeq(body, a, b)[j] = body[a + j - 1]
    <3>1. a \in Nat /\ b \in Nat /\ 1 <= a /\ a <= b + 1 /\ b <= Len(body) /\ body \in Seq(Line)
      BY <2>3, <2>4
    <3> QED
      BY <3>1, PartMembers
  <2>7. Len(SubSeq(body, a, b)) = Len(r) /\ \A j \in 1..Len(r) : SubSeq(body, a, b)[j] = r[j]
    BY <2>3, <2>5, <2>6
  <2>8. SubSeq(body, a, b) = r
    BY <2>4, <2>6, <2>7, SeqEqual
  <2> QED
    BY <2>1, <2>2, <2>8 DEF r
<1>18. \A i \in Given : at[i] > L /\ at[i] \in Nat /\ body[at[i]] = heading[i] /\ Content(body, at[i]) = rest[i]
  BY <1>11, <1>17
<1>19. Len(body) >= L
  BY <1>6n
<1>20. \A i, j \in Given : at[i] = at[j] => i = j
  BY <1>15
<1>21. Holds(body, head, Given, heading, rest)
  <2>1. /\ HeadingsIn(body) = {at[i] : i \in Given}
        /\ \A i, j \in Given : at[i] = at[j] => i = j
        /\ \A i \in Given : /\ at[i] > Len(head) /\ at[i] \in Nat
                            /\ body[at[i]] = heading[i]
                            /\ Content(body, at[i]) = rest[i]
    BY <1>13, <1>18, <1>20 DEF L
  <2>2. /\ body \in Seq(Line) /\ Len(head) \in Nat /\ Len(body) >= Len(head)
        /\ \A i \in 1..Len(head) : body[i] = head[i]
        /\ \A p \in DOMAIN body : p > Len(head) => \E h \in HeadingsIn(body) : h <= p
    BY <1>4, <1>6n, <1>6b, <1>12a, <1>19 DEF L
  <2> QED
    BY <2>1, <2>2 DEF Holds
<1> QED
  BY <1>21 DEF body, flat, Given, N

\* What a slot must be like to come back.
Held(k, slot) ==
  /\ slot \in SlotType(k) /\ WrongEntries(k, slot) = {}
  /\ IF KindOf[k] = "prose" THEN /\ slot = TrimNewlines(slot) /\ (Blank(slot) => slot = EmptyText)
                                 /\ HeadingsIn(slot) = {}
     ELSE \A i \in DOMAIN slot : Framed(k, slot[i])

\* The lines before the first section.
LEMMA TitleIs ==
  ASSUME NEW name \in Piece
  PROVE  LET head == EmptyText \o <<<<Title, name>>, <<>>>>
         IN /\ head \in Seq(Line) /\ Len(head) = 3
            /\ head[1] = <<>> /\ head[2] = <<Title, name>> /\ head[3] = <<>>
            /\ ~BlankLine(<<Title, name>>) /\ HeadingsIn(head) = {}
<1> DEFINE title == <<Title, name>>
          head == EmptyText \o <<title, <<>>>>
<1>1. title \in Line /\ title # <<>> /\ Head(title) = Title /\ Title \in ToSet(title)
  BY MarkdownAssumption DEF Line, ToSet
<1> HIDE DEF title
<1>2. /\ head \in Seq(Line) /\ Len(head) = 3
      /\ head[1] = <<>> /\ head[2] = title /\ head[3] = <<>>
  BY <1>1, NothingSays DEF EmptyText
<1> HIDE DEF head
<1>3. ~BlankLine(title)
  <2>1. Title \notin Spaces
    BY DEF Title, Spaces, Indent
  <2> QED
    BY <1>1, <2>1 DEF BlankLine
<1>4. Title # Heading
  BY DEF Title, Heading
<1>5. DOMAIN head = 1..3
  BY <1>2
<1>6. \A i \in 1..3 : ~StartsWith(head[i], Heading)
  <2>1. ~StartsWith(<<>>, Heading) /\ ~StartsWith(title, Heading)
    BY <1>1, <1>4 DEF StartsWith
  <2> QED
    BY <1>2, <2>1
<1>7. HeadingsIn(head) = {}
  BY <1>5, <1>6 DEF HeadingsIn
<1> QED
  BY <1>2, <1>3, <1>7 DEF head, title

\* A heading names its slot, and no other.
LEMMA HeadingNames ==
  ASSUME NEW k \in Key
  PROVE  LET line == <<Heading, HeadingOf[k]>>
         IN /\ line \in Line /\ StartsWith(line, Heading)
            /\ \A l \in Key : TrimLine(Tail(line)) = <<HeadingOf[l]>> <=> l = k
<1> DEFINE line == <<Heading, HeadingOf[k]>>
          name == <<HeadingOf[k]>>
<1>1. /\ line \in Line /\ line # <<>> /\ Head(line) = Heading /\ Tail(line) = name
      /\ name \in Line /\ name # <<>> /\ Len(name) = 1 /\ name[1] = HeadingOf[k]
  BY MarksArePieces DEF Line
<1>2. HeadingOf[k] \notin Spaces
  BY MarkdownAssumption
<1>3. TrimLine(name) = name
  <2>1. Tight(name)
    BY <1>1, <1>2 DEF Tight
  <2> HIDE DEF name
  <2> QED
    BY <1>1, <2>1, TightIsTrimmed
<1>4. ASSUME NEW l \in Key PROVE name = <<HeadingOf[l]>> <=> l = k
  <2>1. <<HeadingOf[l]>>[1] = HeadingOf[l]
    OBVIOUS
  <2>2. name = <<HeadingOf[l]>> => HeadingOf[l] = HeadingOf[k]
    BY <1>1, <2>1
  <2> QED
    BY <2>2, MarkdownAssumption
<1> HIDE DEF name
<1> QED
  BY <1>1, <1>3, <1>4 DEF StartsWith

\* A body of which the slots can be read again.
Returns(body, slots) ==
  /\ body \in Seq(Line) /\ Before(body) \subseteq TitleLines(body)
  /\ HeadingsIn(body) \subseteq UNION {SectionsOf(body, k) : k \in Key}
  /\ Once(body)
  /\ \A k \in Key, h \in HeadingsIn(body) :
       h \in SectionsOf(body, k) => ReadSlot(k, Content(body, h)) = {ReadBack(k, slots[k])}
  /\ \A k \in Key : SectionsOf(body, k) = {} => ReadBack(k, slots[k]) = NoContent[k]

\* The slots come back from the body they are written in.
LEMMA BodyComesBack ==
  ASSUME NEW name \in Piece, NEW slots, \A k \in Key : Held(k, slots[k])
  PROVE  Returns((EmptyText \o <<<<Title, name>>, <<>>>>)
                 \o FlattenSeq([i \in DOMAIN SlotTable |-> writeSlot(SlotTable[i], slots[SlotTable[i]])]), slots)
<1> DEFINE head == EmptyText \o <<<<Title, name>>, <<>>>>
          parts == [i \in DOMAIN SlotTable |-> writeSlot(SlotTable[i], slots[SlotTable[i]])]
          body == head \o FlattenSeq(parts)
          Given == {i \in 1..Len(parts) : parts[i] # <<>>}
          Comes(k, part, rest) ==
            /\ part = <<<<Heading, HeadingOf[k]>>>> \o rest
            /\ HeadingsIn(rest) = {} /\ ReadSlot(k, rest) = {ReadBack(k, slots[k])}
          heading == [i \in 1..Len(SlotTable) |-> <<Heading, HeadingOf[SlotTable[i]]>>]
          rest == [i \in 1..Len(SlotTable) |-> CHOOSE r \in Seq(Line) : Comes(SlotTable[i], parts[i], r)]
<1>1. /\ DOMAIN SlotTable = 1..Len(SlotTable) /\ Len(SlotTable) \in Nat
      /\ \A i \in 1..Len(SlotTable) : SlotTable[i] \in Key
      /\ \A k \in Key : \E i \in 1..Len(SlotTable) : SlotTable[i] = k
      /\ \A i, j \in 1..Len(SlotTable) : SlotTable[i] = SlotTable[j] => i = j
  <2>1. SlotTable \in Seq(Key)
    BY DocumentAssumption
  <2>2. DOMAIN SlotTable = 1..Len(SlotTable) /\ Len(SlotTable) \in Nat
    BY <2>1
  <2>3. \A x : x \in ToSet(SlotTable) <=> \E i \in 1..Len(SlotTable) : SlotTable[i] = x
    BY <2>1, Members
  <2> QED
    BY <2>1, <2>2, <2>3, DocumentAssumption DEF Key
<1>2. ASSUME NEW i \in 1..Len(SlotTable)
      PROVE  /\ parts[i] = writeSlot(SlotTable[i], slots[SlotTable[i]]) /\ parts[i] \in Seq(Line)
             /\ Held(SlotTable[i], slots[SlotTable[i]]) /\ SlotTable[i] \in Key
  <2>1. SlotTable[i] \in Key /\ parts[i] = writeSlot(SlotTable[i], slots[SlotTable[i]])
    BY <1>1
  <2>2. Held(SlotTable[i], slots[SlotTable[i]])
    BY <2>1
  <2>3. slots[SlotTable[i]] \in SlotType(SlotTable[i])
    BY <2>2 DEF Held
  <2>4. writeSlot(SlotTable[i], slots[SlotTable[i]]) \in Seq(Line)
    BY <2>1, <2>3, WriteSlotSays
  <2> QED
    BY <2>1, <2>2, <2>4
<1>3. parts \in Seq(Seq(Line)) /\ Len(parts) = Len(SlotTable)
  <2>1. DOMAIN parts = 1..Len(SlotTable)
    BY <1>1
  <2> QED
    BY <1>1, <1>2, <2>1
<1> HIDE DEF parts
<1>4. ASSUME NEW i \in 1..Len(SlotTable)
      PROVE  \/ parts[i] = <<>> /\ ReadBack(SlotTable[i], slots[SlotTable[i]]) = NoContent[SlotTable[i]]
             \/ rest[i] \in Seq(Line) /\ Comes(SlotTable[i], parts[i], rest[i])
  <2> DEFINE k == SlotTable[i]
            slot == slots[k]
  <2>1. k \in Key /\ parts[i] = writeSlot(k, slot) /\ Held(k, slot)
    BY <1>2
  <2>2. \/ writeSlot(k, slot) = <<>> /\ ReadBack(k, slot) = NoContent[k]
        \/ \E r \in Seq(Line) :
             /\ writeSlot(k, slot) = <<<<Heading, HeadingOf[k]>>>> \o r
             /\ HeadingsIn(r) = {} /\ ReadSlot(k, r) = {ReadBack(k, slot)}
    <3> HIDE DEF k, slot
    <3> QED
      BY <2>1, SlotComesBack DEF Held
  <2>3. CASE writeSlot(k, slot) = <<>> /\ ReadBack(k, slot) = NoContent[k]
    BY <2>1, <2>3
  <2>4. CASE \E r \in Seq(Line) : Comes(k, parts[i], r)
    <3>1. rest[i] = CHOOSE r \in Seq(Line) : Comes(k, parts[i], r)
      OBVIOUS
    <3> HIDE DEF rest, Comes, k
    <3>2. rest[i] \in Seq(Line) /\ Comes(k, parts[i], rest[i])
      BY <2>4, <3>1
    <3> QED
      BY <3>2 DEF k
  <2> QED
    BY <2>1, <2>2, <2>3, <2>4
<1>5. ASSUME NEW i \in 1..Len(SlotTable)
      PROVE  heading[i] = <<Heading, HeadingOf[SlotTable[i]]>>
  OBVIOUS
<1>6. ASSUME NEW i \in 1..Len(SlotTable), parts[i] # <<>>
      PROVE  Section(parts, heading, rest, i) /\ ReadSlot(SlotTable[i], rest[i]) = {ReadBack(SlotTable[i], slots[SlotTable[i]])}
  <2>1. rest[i] \in Seq(Line) /\ Comes(SlotTable[i], parts[i], rest[i])
    BY <1>4, <1>6
  <2>2. SlotTable[i] \in Key
    BY <1>1
  <2>3. heading[i] \in Line /\ StartsWith(heading[i], Heading)
    BY <1>5, <2>2, HeadingNames
  <2> HIDE DEF rest, heading
  <2> QED
    BY <1>5, <2>1, <2>3 DEF Section
<1>7. /\ head \in Seq(Line) /\ Len(head) = 3
      /\ head[1] = <<>> /\ head[2] = <<Title, name>> /\ head[3] = <<>>
      /\ ~BlankLine(<<Title, name>>) /\ HeadingsIn(head) = {}
  BY TitleIs
<1> HIDE DEF head, heading, rest
<1>8. /\ body \in Seq(Line) /\ Len(head) \in Nat /\ Len(body) >= Len(head)
      /\ \A i \in 1..Len(head) : body[i] = head[i]
      /\ \A p \in DOMAIN body : p > Len(head) => \E h \in HeadingsIn(body) : h <= p
      /\ \E at : /\ HeadingsIn(body) = {at[i] : i \in Given}
                 /\ \A i, j \in Given : at[i] = at[j] => i = j
                 /\ \A i \in Given : /\ at[i] > Len(head) /\ at[i] \in Nat
                                     /\ body[at[i]] = heading[i]
                                     /\ Content(body, at[i]) = rest[i]
  <2>1. head \in Seq(Line) /\ HeadingsIn(head) = {}
    BY <1>7
  <2>2. parts \in Seq(Seq(Line))
    BY <1>3
  <2>3. \A i \in 1..Len(parts) : parts[i] = <<>> \/ Section(parts, heading, rest, i)
    BY <1>3, <1>6
  <2>4. Holds(body, head, Given, heading, rest)
    BY <2>1, <2>2, <2>3, SectionsAre
  <2> QED
    BY <2>4 DEF Holds
<1>9. PICK at : /\ HeadingsIn(body) = {at[i] : i \in Given}
                /\ \A i, j \in Given : at[i] = at[j] => i = j
                /\ \A i \in Given : /\ at[i] > Len(head) /\ at[i] \in Nat
                                    /\ body[at[i]] = heading[i]
                                    /\ Content(body, at[i]) = rest[i]
  BY <1>8
<1>10. /\ body \in Seq(Line) /\ 3 <= Len(body) /\ Len(body) \in Nat /\ DOMAIN body = 1..Len(body)
       /\ body[1] = <<>> /\ body[2] = <<Title, name>> /\ body[3] = <<>>
       /\ \A p \in DOMAIN body : p > 3 => \E h \in HeadingsIn(body) : h <= p
  <2>1. body \in Seq(Line) /\ Len(body) >= Len(head) /\ Len(head) = 3
    BY <1>7, <1>8
  <2>2. 1 \in 1..3 /\ 2 \in 1..3 /\ 3 \in 1..3
    OBVIOUS
  <2> HIDE DEF body
  <2>3. Len(body) \in Nat /\ DOMAIN body = 1..Len(body)
    BY <2>1
  <2> QED
    BY <1>7, <1>8, <2>1, <2>2, <2>3
<1> HIDE DEF body
<1>11. ASSUME NEW i \in Given
       PROVE  /\ i \in 1..Len(SlotTable) /\ SlotTable[i] \in Key
              /\ at[i] \in HeadingsIn(body) /\ Content(body, at[i]) = rest[i]
              /\ ReadSlot(SlotTable[i], rest[i]) = {ReadBack(SlotTable[i], slots[SlotTable[i]])}
              /\ \A k \in Key : at[i] \in SectionsOf(body, k) <=> k = SlotTable[i]
  <2>1. i \in 1..Len(SlotTable) /\ parts[i] # <<>>
    BY <1>3
  <2>2. SlotTable[i] \in Key
    BY <1>1, <2>1
  <2>3. at[i] \in HeadingsIn(body) /\ body[at[i]] = heading[i] /\ Content(body, at[i]) = rest[i]
    BY <1>9
  <2>4. ReadSlot(SlotTable[i], rest[i]) = {ReadBack(SlotTable[i], slots[SlotTable[i]])}
    BY <1>6, <2>1
  <2>5. body[at[i]] = <<Heading, HeadingOf[SlotTable[i]]>>
    BY <1>5, <2>1, <2>3
  <2>6. ASSUME NEW k \in Key PROVE at[i] \in SectionsOf(body, k) <=> k = SlotTable[i]
    <3>1. TrimLine(Tail(<<Heading, HeadingOf[SlotTable[i]]>>)) = <<HeadingOf[k]>> <=> k = SlotTable[i]
      BY <2>2, HeadingNames
    <3> QED
      BY <2>3, <2>5, <3>1 DEF SectionsOf
  <2> QED
    BY <2>1, <2>2, <2>3, <2>4, <2>6
<1>12. ASSUME NEW h \in HeadingsIn(body)
       PROVE  \E i \in Given : h = at[i]
  BY <1>9
<1>13. Before(body) \subseteq TitleLines(body)
  <2>1. ASSUME NEW p \in Before(body) PROVE p = 2
    <3>1. p \in DOMAIN body /\ ~BlankLine(body[p]) /\ \A h \in HeadingsIn(body) : p < h
      BY DEF Before
    <3>2. \A h \in HeadingsIn(body) : h \in Nat
      BY <1>10 DEF HeadingsIn
    <3>3. ~(p > 3)
      <4> SUFFICES ASSUME p > 3 PROVE FALSE
        OBVIOUS
      <4>1. PICK h \in HeadingsIn(body) : h <= p
        BY <1>10, <3>1
      <4>2. h \in Nat /\ p \in Nat /\ p < h
        BY <1>10, <3>1, <3>2
      <4> QED
        BY <4>1, <4>2
    <3>4. BlankLine(body[1]) /\ BlankLine(body[3])
      BY <1>10, NothingSays DEF BlankLine
    <3> QED
      BY <1>10, <3>1, <3>3, <3>4
  <2>2. ASSUME NEW p \in Before(body) PROVE p = Min(Before(body))
    <3>1. Before(body) \in SUBSET Nat /\ Before(body) # {}
      BY <2>1
    <3>2. Min(Before(body)) \in Before(body)
      BY <3>1, MinIs
    <3> QED
      BY <2>1, <3>2
  <2>3. StartsWith(TrimLine(body[2]), Title)
    BY <1>10, TitleStays
  <2> QED
    BY <2>1, <2>2, <2>3 DEF TitleLines
<1>14. HeadingsIn(body) \subseteq UNION {SectionsOf(body, k) : k \in Key}
  BY <1>11, <1>12
<1>15. Once(body)
  <2> SUFFICES ASSUME NEW k \in Key PROVE Cardinality(SectionsOf(body, k)) <= 1
    BY DEF Once
  <2>1. ASSUME NEW h \in SectionsOf(body, k), NEW g \in SectionsOf(body, k) PROVE h = g
    <3>1. h \in HeadingsIn(body) /\ g \in HeadingsIn(body)
      BY DEF SectionsOf
    <3>2. PICK i \in Given : h = at[i]
      BY <1>12, <3>1
    <3>3. PICK j \in Given : g = at[j]
      BY <1>12, <3>1
    <3>4. SlotTable[i] = SlotTable[j]
      BY <1>11, <3>2, <3>3
    <3>5. i = j
      BY <1>1, <1>11, <3>4
    <3> QED
      BY <3>2, <3>3, <3>5
  <2>2. CASE SectionsOf(body, k) = {}
    <3>1. Cardinality({}) = 0
      BY FS_EmptySet
    <3> QED
      BY <2>2, <3>1
  <2>3. CASE SectionsOf(body, k) # {}
    <3>1. PICK h \in SectionsOf(body, k) : TRUE
      BY <2>3
    <3>2. SectionsOf(body, k) = {h}
      BY <2>1, <3>1
    <3>3. Cardinality({h}) = 1
      BY FS_Singleton
    <3> QED
      BY <3>2, <3>3
  <2> QED
    BY <2>2, <2>3
<1>16. ASSUME NEW k \in Key, NEW h \in HeadingsIn(body), h \in SectionsOf(body, k)
       PROVE  ReadSlot(k, Content(body, h)) = {ReadBack(k, slots[k])}
  <2>1. PICK i \in Given : h = at[i]
    BY <1>12
  <2>2. k = SlotTable[i]
    BY <1>11, <1>16, <2>1
  <2> QED
    BY <1>11, <2>1, <2>2
<1>17. ASSUME NEW k \in Key, SectionsOf(body, k) = {}
       PROVE  ReadBack(k, slots[k]) = NoContent[k]
  <2>1. PICK i \in 1..Len(SlotTable) : SlotTable[i] = k
    BY <1>1
  <2>2. i \notin Given
    BY <1>11, <1>17, <2>1
  <2>3. parts[i] = <<>>
    BY <1>3, <2>2
  <2>4. CASE rest[i] \in Seq(Line) /\ Comes(SlotTable[i], parts[i], rest[i])
    <3>1. ASSUME NEW x, NEW r \in Seq(Line) PROVE <<x>> \o r # <<>>
      OBVIOUS
    <3> QED
      BY <2>3, <2>4, <3>1
  <2> QED
    BY <1>4, <2>1, <2>4
<1>18. Returns(body, slots)
  BY <1>10, <1>13, <1>14, <1>15, <1>16, <1>17 DEF Returns
<1> QED
  BY <1>18 DEF body, head, parts

-----------------------------------------------------------------------------
(* Documents come back.                                                    *)

\* The parents of an expressible document come back.
LEMMA ParentsComeBack ==
  ASSUME NEW doc, doc.extends \in Seq(Reference), Expressible(doc)
  PROVE  LET inherits == [i \in DOMAIN doc.extends |-> Inherit(doc.extends[i])]
         IN [i \in DOMAIN inherits |-> parseInherit(inherits[i])] = doc.extends
<1> DEFINE extends == doc.extends
          inherits == [i \in DOMAIN extends |-> Inherit(extends[i])]
<1>1. extends \in Seq(Reference) /\ \A i \in DOMAIN extends : extends[i] \in Reference
  <2>1. ASSUME NEW S, NEW s \in Seq(S) PROVE \A i \in DOMAIN s : s[i] \in S
    OBVIOUS
  <2> QED
    BY <2>1, Zenon
<1>2. WrongRefs(extends) = {}
  BY DEF Expressible, Valid, contentErrors
<1>3. ASSUME NEW i \in DOMAIN extends PROVE parseInherit(Inherit(extends[i])) = extends[i]
  <2> DEFINE e == extends[i]
  <2>1. /\ e \in Reference /\ e.ref = TrimLine(e.ref) /\ e.version = TrimLine(e.version)
        /\ At \notin ToSet(e.version)
    BY <1>1 DEF Expressible
  <2>2. "/" \in ToSet(e.ref) /\ ~BlankLine(e.version)
    BY <1>2 DEF WrongRefs
  <2>3. e.ref # <<>> /\ e.version # <<>>
    BY <2>2, NothingSays DEF BlankLine
  <2> HIDE DEF e
  <2>4. parseInherit(Inherit(e)) = e
    BY <2>1, <2>3, ReferenceComesBack
  <2> QED
    BY <2>4 DEF e
<1>4. [i \in DOMAIN inherits |-> parseInherit(inherits[i])] = [i \in DOMAIN extends |-> extends[i]]
  BY <1>3
<1>5. extends = [i \in DOMAIN extends |-> extends[i]]
  BY <1>1
<1> QED
  BY <1>4, <1>5

\* An expressible document is written as a file that is read again, and comes
\* back as it was, but for the spaces of blank lines in its entries.
THEOREM DocumentComesBack ==
  ASSUME NEW doc, IsIdentity(doc.id), doc = Doc(doc.id, doc.extends, doc.excludes, doc.slots),
         doc.extends \in Seq(Reference), \A k \in Key : doc.slots[k] \in SlotType(k),
         Expressible(doc)
  PROVE  /\ WellFormed(MarshalMarkdown(doc))
         /\ UnmarshalMarkdown(MarshalMarkdown(doc))
              = [doc EXCEPT !.slots = [k \in Key |-> ReadBack(k, doc.slots[k])]]
<1> DEFINE file == MarshalMarkdown(doc)
          front == file.front
          body == file.body
          name == doc.id.name
          inherits == [i \in DOMAIN doc.extends |-> Inherit(doc.extends[i])]
          written == (EmptyText \o <<<<Title, name>>, <<>>>>)
                     \o FlattenSeq([i \in DOMAIN SlotTable |-> writeSlot(SlotTable[i], doc.slots[SlotTable[i]])])
<1>1. name \in Piece /\ name # Unset /\ doc.id.visibility # Unset
  BY DocumentAssumption DEF Expressible, Valid, IsIdentity
<1>2. file = [front |-> [type |-> "frame [0.2]", id |-> [doc.id EXCEPT !.visibility = doc.id.visibility],
                         inherits |-> inherits, excludes |-> doc.excludes],
              body |-> written]
  <2>1. (IF doc.id.visibility = Unset THEN "internal" ELSE doc.id.visibility) = doc.id.visibility
    BY <1>1
  <2>2. (IF doc.id.name = Unset THEN <<>> ELSE <<<<Title, doc.id.name>>, <<>>>>) = <<<<Title, name>>, <<>>>>
    BY <1>1
  <2> QED
    BY <2>1, <2>2, Zenon DEF MarshalMarkdown, EmptyText
<1>3. [doc.id EXCEPT !.visibility = doc.id.visibility] = doc.id
  BY DEF IsIdentity
<1> HIDE DEF file, inherits, written
<1>4. /\ front.type = "frame [0.2]" /\ front.id = doc.id /\ front.inherits = inherits
      /\ front.excludes = doc.excludes /\ front # NoFrontmatter
  <2>1. /\ front.type = "frame [0.2]" /\ front.id = doc.id /\ front.inherits = inherits
        /\ front.excludes = doc.excludes
    BY <1>2, <1>3
  <2>2. NoFrontmatter.type = "" /\ "" # "frame [0.2]"
    BY DEF NoFrontmatter, Unset
  <2> QED
    BY <2>1, <2>2
<1>5. ASSUME NEW k \in Key PROVE Held(k, doc.slots[k])
  <2>1. WrongEntries(k, doc.slots[k]) = {}
    BY DEF Expressible, Valid, contentErrors
  <2>2. IF KindOf[k] = "prose" THEN /\ doc.slots[k] = TrimNewlines(doc.slots[k])
                                    /\ (Blank(doc.slots[k]) => doc.slots[k] = EmptyText)
                                    /\ HeadingsIn(doc.slots[k]) = {}
        ELSE \A i \in DOMAIN doc.slots[k] : Framed(k, doc.slots[k][i])
    BY DEF Expressible
  <2> QED
    BY <2>1, <2>2 DEF Held
<1>6. Returns(body, doc.slots)
  <2>1. written = body
    BY <1>2
  <2>2. Returns(written, doc.slots)
    BY <1>1, <1>5, BodyComesBack DEF written
  <2> QED
    BY <2>1, <2>2
<1>6a. /\ body \in Seq(Line) /\ Before(body) \subseteq TitleLines(body)
       /\ HeadingsIn(body) \subseteq UNION {SectionsOf(body, k) : k \in Key}
       /\ Once(body)
       /\ \A k \in Key, h \in HeadingsIn(body) :
            h \in SectionsOf(body, k) => ReadSlot(k, Content(body, h)) = {ReadBack(k, doc.slots[k])}
       /\ \A k \in Key : SectionsOf(body, k) = {} => ReadBack(k, doc.slots[k]) = NoContent[k]
  BY <1>6 DEF Returns
<1> HIDE DEF body, front
<1>7. WellFormed(file)
  <2>1. file.front = front /\ file.body = body
    BY DEF front, body
  <2>2. \A k \in Key, h \in HeadingsIn(body) :
          h \in SectionsOf(body, k) => ReadSlot(k, Content(body, h)) # {}
    BY <1>6a
  <2> QED
    BY <1>4, <1>6a, <2>1, <2>2 DEF WellFormed
<1>8. ASSUME NEW k \in Key
      PROVE  (IF SectionsOf(body, k) = {} THEN NoContent[k]
              ELSE CHOOSE s \in ReadSlot(k, Content(body, Max(SectionsOf(body, k)))) : TRUE)
                = ReadBack(k, doc.slots[k])
  <2>1. CASE SectionsOf(body, k) = {}
    <3>1. ReadBack(k, doc.slots[k]) = NoContent[k]
      BY <1>6a, <2>1, Zenon
    <3> QED
      BY <2>1, <3>1, Zenon
  <2>2. CASE SectionsOf(body, k) # {}
    <3>1. PICK h \in SectionsOf(body, k) : TRUE
      BY <2>2
    <3>2. Max(SectionsOf(body, k)) = h
      BY <1>6a, OnceIsLast
    <3>3. h \in HeadingsIn(body)
      BY DEF SectionsOf
    <3>4. ReadSlot(k, Content(body, h)) = {ReadBack(k, doc.slots[k])}
      BY <1>6a, <3>3
    <3>5. ASSUME NEW x PROVE (CHOOSE s \in {x} : TRUE) = x
      OBVIOUS
    <3> QED
      BY <2>2, <3>2, <3>4, <3>5
  <2> QED
    BY <2>1, <2>2
<1>9. UnmarshalMarkdown(file)
        = Doc(front.id, [i \in DOMAIN front.inherits |-> parseInherit(front.inherits[i])],
              front.excludes, [k \in Key |-> ReadBack(k, doc.slots[k])])
  <2>1. [k \in Key |-> IF SectionsOf(body, k) = {} THEN NoContent[k]
                       ELSE CHOOSE s \in ReadSlot(k, Content(body, Max(SectionsOf(body, k)))) : TRUE]
          = [k \in Key |-> ReadBack(k, doc.slots[k])]
    BY <1>8
  <2>2. UnmarshalMarkdown(file)
          = Doc(front.id, [i \in DOMAIN front.inherits |-> parseInherit(front.inherits[i])], front.excludes,
                [k \in Key |-> IF SectionsOf(body, k) = {} THEN NoContent[k]
                               ELSE CHOOSE s \in ReadSlot(k, Content(body, Max(SectionsOf(body, k)))) : TRUE])
    BY DEF UnmarshalMarkdown, front, body
  <2> QED
    BY <2>1, <2>2, Zenon
<1>10. [i \in DOMAIN inherits |-> parseInherit(inherits[i])] = doc.extends
  BY ParentsComeBack DEF inherits
<1>11. UnmarshalMarkdown(file) = Doc(doc.id, doc.extends, doc.excludes, [k \in Key |-> ReadBack(k, doc.slots[k])])
  BY <1>4, <1>9, <1>10
<1>12. ASSUME NEW slots
       PROVE  [doc EXCEPT !.slots = slots] = Doc(doc.id, doc.extends, doc.excludes, slots)
  BY DEF Doc
<1> QED
  BY <1>7, <1>11, <1>12 DEF file

=============================================================================
