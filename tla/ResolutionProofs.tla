-------------------------- MODULE ResolutionProofs --------------------------
(***************************************************************************)
(* A reader comes to what a document resolves to (Resolution), for every   *)
(* set of publications and of requests.  Merging is associative, so what   *)
(* the walk has merged is what the documents on the stack, each with the   *)
(* parents it has passed, come to when they are put over one another.      *)
(***************************************************************************)
EXTENDS Resolution, ResolverProofs

-----------------------------------------------------------------------------
(* Lists in their order.                                                   *)

\* r is what S selects of the first n items of s, and h says from where.
Picks(h, r, s, S, n) ==
  /\ r \in Seq(ToSet(s)) /\ h \in [1..Len(r) -> 1..n]
  /\ \A i, j \in 1..Len(r) : i < j => h[i] < h[j]
  /\ \A i \in 1..Len(r) : r[i] = s[h[i]] /\ s[h[i]] \in S
  /\ \A k \in 1..n : s[k] \in S => \E i \in 1..Len(r) : h[i] = k

\* One more that is selected, ...
LEMMA OnePicked ==
  ASSUME NEW s, Listed(s), NEW S, NEW n \in Nat, n + 1 <= Len(s), NEW r, NEW h, Picks(h, r, s, S, n),
         s[n + 1] \in S
  PROVE  \E g : Picks(g, Append(r, s[n + 1]), s, S, n + 1)
<1> DEFINE x == s[n + 1]
           t == Append(r, x)
           g == [i \in 1..(Len(r) + 1) |-> IF i <= Len(r) THEN h[i] ELSE n + 1]
<1>1. /\ x \in ToSet(s) /\ r \in Seq(ToSet(s)) /\ Len(r) \in Nat /\ h \in [1..Len(r) -> 1..n]
      /\ \A i, j \in 1..Len(r) : i < j => h[i] < h[j]
      /\ \A i \in 1..Len(r) : r[i] = s[h[i]] /\ s[h[i]] \in S
      /\ \A k \in 1..n : s[k] \in S => \E i \in 1..Len(r) : h[i] = k
  <2>1. Len(s) \in Nat
    BY ListedFacts
  <2>2. n + 1 \in 1..Len(s)
    BY <2>1
  <2> QED
    BY <2>2, ListedFacts DEF Picks
<1>2. /\ t \in Seq(ToSet(s)) /\ Len(t) = Len(r) + 1 /\ t[Len(r) + 1] = x
      /\ \A i \in 1..Len(r) : t[i] = r[i]
  <2> HIDE DEF x
  <2> QED
    BY <1>1
<1>3. /\ g \in [1..(Len(r) + 1) -> 1..(n + 1)]
      /\ g[Len(r) + 1] = n + 1 /\ \A i \in 1..Len(r) : g[i] = h[i] /\ h[i] \in 1..n
      /\ \A i \in 1..(Len(r) + 1) : i \in 1..Len(r) \/ i = Len(r) + 1
  <2>1. \A i \in 1..Len(r) : h[i] \in 1..n /\ h[i] \in 1..(n + 1)
    BY <1>1
  <2>2. n + 1 \in 1..(n + 1) /\ \A i \in 1..(Len(r) + 1) : i <= Len(r) => i \in 1..Len(r)
    BY <1>1
  <2> QED
    BY <1>1, <2>1, <2>2
<1> HIDE DEF g, t
<1>4. \A i, j \in 1..Len(t) : i < j => g[i] < g[j]
  <2> SUFFICES ASSUME NEW i \in 1..(Len(r) + 1), NEW j \in 1..(Len(r) + 1), i < j PROVE g[i] < g[j]
    BY <1>2
  <2>1. i \in 1..Len(r)
    BY <1>1
  <2>2. CASE j \in 1..Len(r)
    BY <1>1, <1>3, <2>1, <2>2
  <2>3. CASE j = Len(r) + 1
    BY <1>1, <1>3, <2>1, <2>3
  <2> QED
    BY <1>3, <2>2, <2>3
<1>5. \A i \in 1..Len(t) : t[i] = s[g[i]] /\ s[g[i]] \in S
  BY <1>1, <1>2, <1>3
<1>6. \A k \in 1..(n + 1) : s[k] \in S => \E i \in 1..Len(t) : g[i] = k
  <2>1. \A k \in 1..(n + 1) : k \in 1..n \/ k = n + 1
    OBVIOUS
  <2>2. Len(r) + 1 \in 1..Len(t) /\ \A i \in 1..Len(r) : i \in 1..Len(t)
    BY <1>1, <1>2
  <2> QED
    BY <1>1, <1>3, <2>1, <2>2
<1>7. Picks(g, t, s, S, n + 1)
  BY <1>2, <1>3, <1>4, <1>5, <1>6 DEF Picks
<1> QED
  BY <1>7 DEF t

\* ... or one that is not.
LEMMA NonePicked ==
  ASSUME NEW s, NEW S, NEW n \in Nat, NEW r, NEW h, Picks(h, r, s, S, n), s[n + 1] \notin S
  PROVE  Picks(h, r, s, S, n + 1)
<1>1. h \in [1..Len(r) -> 1..(n + 1)]
  BY DEF Picks
<1>2. \A k \in 1..(n + 1) : k \in 1..n \/ k = n + 1
  OBVIOUS
<1> QED
  BY <1>1, <1>2 DEF Picks

\* Filter selects in the order of the list.
LEMMA FilterPicks ==
  ASSUME NEW s, Listed(s), NEW S
  PROVE  \E h : Picks(h, Filter(s, S), s, S, Len(s))
<1>1. Len(s) \in Nat /\ s \in Seq(ToSet(s))
  BY ListedFacts
<1>2. PICK f : f \in Steps(s, S, Len(s))
  BY <1>1, StepsExist
<1> DEFINE N == {n \in Nat : n <= Len(s) => \E h : Picks(h, f[n], s, S, n)}
<1>3. 0 \in N
  <2>1. f[0] = <<>>
    BY <1>1, <1>2 DEF Steps
  <2>2. Picks([i \in 1..0 |-> i], <<>>, s, S, 0)
    BY DEF Picks
  <2> QED
    BY <2>1, <2>2
<1>4. ASSUME NEW n \in N PROVE n + 1 \in N
  <2> SUFFICES ASSUME n + 1 <= Len(s) PROVE \E h : Picks(h, f[n + 1], s, S, n + 1)
    OBVIOUS
  <2>1. n \in Nat /\ n <= Len(s) /\ n + 1 \in 0..Len(s) /\ n + 1 # 0 /\ (n + 1) - 1 = n
    BY <1>1
  <2>2. PICK h : Picks(h, f[n], s, S, n)
    BY <2>1
  <2>3. f[n + 1] = IF s[n + 1] \in S THEN Append(f[n], s[n + 1]) ELSE f[n]
    BY <1>2, <2>1 DEF Steps
  <2> HIDE DEF N
  <2>4. CASE s[n + 1] \in S
    BY <2>1, <2>2, <2>3, <2>4, OnePicked
  <2>5. CASE s[n + 1] \notin S
    BY <2>1, <2>2, <2>3, <2>5, NonePicked
  <2> QED
    BY <2>4, <2>5
<1> HIDE DEF N
<1>5. N = Nat
  <2>1. N \in SUBSET Nat
    BY DEF N
  <2> QED
    BY <1>3, <1>4, <2>1, SetInduction
<1>6. Filter(s, S) = f[Len(s)]
  BY <1>1, <1>2, FilterIs
<1> QED
  BY <1>1, <1>5, <1>6 DEF N

\* h goes up through the places in P.
Through(h, n, P) ==
  /\ h \in [1..n -> P]
  /\ \A i, j \in 1..n : i < j => h[i] < h[j]
  /\ \A k \in P : \E i \in 1..n : h[i] = k

\* The items at some places.
LEMMA PlacesTaken ==
  ASSUME NEW s, Listed(s), NEW P \in SUBSET (1..Len(s))
  PROVE  /\ Listed(Places(s, P))
         /\ \E h : /\ Through(h, Len(Places(s, P)), P)
                   /\ \A i \in 1..Len(Places(s, P)) : Places(s, P)[i] = s[h[i]]
<1> DEFINE ids == [i \in DOMAIN s |-> i]
           at == Filter(ids, P)
<1>1. Len(s) \in Nat /\ DOMAIN s = 1..Len(s) /\ \A i \in 1..Len(s) : s[i] \in ToSet(s)
  BY ListedFacts
<1>2. ids \in Seq(1..Len(s)) /\ Len(ids) = Len(s) /\ \A i \in 1..Len(s) : ids[i] = i
  <2>1. ids \in [1..Len(s) -> 1..Len(s)]
    BY <1>1
  <2>2. ids \in Seq(1..Len(s))
    BY <1>1, <2>1, IsASeq
  <2>3. Len(ids) = Len(s)
    <3>1. DOMAIN ids = 1..Len(ids) /\ DOMAIN ids = 1..Len(s) /\ Len(ids) \in Nat
      BY <1>1, <2>2
    <3> QED
      BY <1>1, <3>1
  <2> QED
    BY <1>1, <2>2, <2>3
<1> HIDE DEF ids
<1>3. Listed(ids)
  BY <1>2, SeqIsListed
<1>4. PICK h : Picks(h, at, ids, P, Len(s))
  BY <1>2, <1>3, FilterPicks
<1>5. Places(s, P) = [i \in DOMAIN at |-> s[at[i]]]
  BY DEF Places, ids
<1> HIDE DEF at
<1>6. /\ Len(at) \in Nat /\ DOMAIN at = 1..Len(at)
      /\ \A i \in 1..Len(at) : h[i] \in 1..Len(s) /\ at[i] = h[i] /\ h[i] \in P
  <2>1. /\ at \in Seq(ToSet(ids)) /\ h \in [1..Len(at) -> 1..Len(s)]
        /\ \A i \in 1..Len(at) : at[i] = ids[h[i]] /\ ids[h[i]] \in P
    BY <1>4 DEF Picks
  <2>2. Len(at) \in Nat /\ DOMAIN at = 1..Len(at)
    BY <2>1
  <2>3. \A i \in 1..Len(at) : h[i] \in 1..Len(s)
    BY <2>1
  <2> QED
    BY <1>2, <2>1, <2>2, <2>3
<1>7. Places(s, P) \in [1..Len(at) -> ToSet(s)]
  BY <1>1, <1>5, <1>6
<1>8. Places(s, P) \in Seq(ToSet(s)) /\ Len(Places(s, P)) = Len(at)
  <2>1. Places(s, P) \in Seq(ToSet(s))
    BY <1>6, <1>7, IsASeq
  <2>2. DOMAIN Places(s, P) = 1..Len(Places(s, P)) /\ Len(Places(s, P)) \in Nat
    BY <2>1
  <2> QED
    BY <1>6, <1>7, <2>1, <2>2
<1>9. Through(h, Len(at), P)
  <2>1. h \in [1..Len(at) -> P]
    BY <1>4, <1>6 DEF Picks
  <2>2. \A k \in P : \E i \in 1..Len(at) : h[i] = k
    <3>1. \A k \in P : k \in 1..Len(s) /\ ids[k] \in P
      BY <1>2
    <3> QED
      BY <1>4, <3>1 DEF Picks
  <2> QED
    BY <1>4, <2>1, <2>2 DEF Picks, Through
<1> QED
  BY <1>5, <1>6, <1>8, <1>9, SeqIsListed

\* No item twice.
Distinct(s) == \A i, j \in 1..Len(s) : s[i] = s[j] => i = j

\* The last x comes before the last y.
Before(s, x, y) ==
  x \in ToSet(s) /\ \E j \in 1..Len(s) : s[j] = y /\ \A k \in 1..Len(s) : s[k] = x => k < j

\* Where no item is there twice, its place decides.
LEMMA BeforeIs ==
  ASSUME NEW s, Listed(s), Distinct(s), NEW x, NEW y
  PROVE  Before(s, x, y) <=> \E i, j \in 1..Len(s) : i < j /\ s[i] = x /\ s[j] = y
<1>1. /\ Len(s) \in Nat /\ \A i \in 1..Len(s) : s[i] \in ToSet(s)
      /\ \A u \in ToSet(s) : \E i \in 1..Len(s) : s[i] = u
  BY ListedFacts
<1> QED
  BY <1>1 DEF Before, Distinct

\* The order decides what comes first, and next.
LEMMA OrderDecides ==
  ASSUME NEW s, NEW t, Listed(s), Listed(t), Distinct(s), Distinct(t), ToSet(s) = ToSet(t),
         \A x, y : Before(s, x, y) <=> Before(t, x, y)
  PROVE  Len(s) <= Len(t) /\ \A i \in 1..Len(s) : s[i] = t[i]
<1>1. /\ Len(s) \in Nat /\ Len(t) \in Nat
      /\ \A i \in 1..Len(s) : \E k \in 1..Len(t) : t[k] = s[i]
  <2>1. Len(s) \in Nat /\ \A i \in 1..Len(s) : s[i] \in ToSet(t)
    BY ListedFacts
  <2>2. Len(t) \in Nat /\ \A x \in ToSet(t) : \E k \in 1..Len(t) : t[k] = x
    BY ListedFacts
  <2> QED
    BY <2>1, <2>2
<1>2. \A x, y : (\E i, j \in 1..Len(s) : i < j /\ s[i] = x /\ s[j] = y)
                 <=> (\E i, j \in 1..Len(t) : i < j /\ t[i] = x /\ t[j] = y)
  BY BeforeIs
<1> DEFINE N == {n \in Nat : n <= Len(s) => n <= Len(t) /\ \A i \in 1..n : s[i] = t[i]}
<1>3. 0 \in N
  BY <1>1
<1>4. ASSUME NEW n \in N PROVE n + 1 \in N
  <2> SUFFICES ASSUME n + 1 <= Len(s) PROVE n + 1 <= Len(t) /\ \A i \in 1..(n + 1) : s[i] = t[i]
    OBVIOUS
  <2>1. n \in Nat /\ n <= Len(t) /\ \A i \in 1..n : s[i] = t[i]
    BY <1>1
  <2> HIDE DEF N
  <2>2. n + 1 \in 1..Len(s) /\ \A i \in 1..n : i \in 1..Len(s) /\ i \in 1..Len(t) /\ i # n + 1
    BY <1>1, <2>1
  <2>3. PICK k \in 1..Len(t) : t[k] = s[n + 1]
    BY <1>1, <2>2
  <2>4. k \notin 1..n
    BY <2>1, <2>2, <2>3 DEF Distinct
  <2>5. k >= n + 1 /\ n + 1 <= Len(t) /\ n + 1 \in 1..Len(t)
    BY <1>1, <2>1, <2>3, <2>4
  <2>6. k = n + 1
    <3> SUFFICES ASSUME k # n + 1 PROVE FALSE
      OBVIOUS
    <3>1. n + 1 < k
      BY <2>1, <2>5
    <3>2. PICK i \in 1..Len(s), j \in 1..Len(s) : i < j /\ s[i] = t[n + 1] /\ s[j] = s[n + 1]
      <4>1. \E a, b \in 1..Len(t) : a < b /\ t[a] = t[n + 1] /\ t[b] = s[n + 1]
        BY <2>3, <2>5, <3>1
      <4> QED
        BY <1>2, <4>1
    <3>3. j = n + 1
      BY <2>2, <3>2 DEF Distinct
    <3>4. i \in 1..n
      BY <1>1, <2>1, <3>2, <3>3
    <3>5. t[i] = t[n + 1]
      BY <2>1, <3>2, <3>4
    <3> QED
      BY <2>2, <2>5, <3>4, <3>5 DEF Distinct
  <2>7. \A i \in 1..(n + 1) : i \in 1..n \/ i = n + 1
    BY <2>1
  <2> QED
    BY <2>1, <2>3, <2>5, <2>6, <2>7
<1> HIDE DEF N
<1>5. N = Nat
  <2>1. N \in SUBSET Nat
    BY DEF N
  <2> QED
    BY <1>3, <1>4, <2>1, SetInduction
<1>6. Len(s) \in N
  BY <1>1, <1>5
<1> QED
  BY <1>1, <1>6 DEF N

\* Lists without repetition are told by what they hold and its order.
LEMMA SameOrder ==
  ASSUME NEW s, NEW t, Listed(s), Listed(t), Distinct(s), Distinct(t), ToSet(s) = ToSet(t),
         \A x, y : Before(s, x, y) <=> Before(t, x, y)
  PROVE  s = t
<1>1. Len(s) <= Len(t) /\ Len(t) <= Len(s) /\ \A i \in 1..Len(s) : s[i] = t[i]
  BY OrderDecides
<1>2. s \in Seq(ToSet(s)) /\ t \in Seq(ToSet(s)) /\ Len(s) \in Nat /\ Len(t) \in Nat
  BY ListedFacts
<1>3. Len(s) = Len(t)
  BY <1>1, <1>2
<1> QED
  BY <1>1, <1>2, <1>3, SeqEqual

-----------------------------------------------------------------------------
(* Rules: what mergeStrings keeps.                                         *)

\* Of some places, one is the last.
LEMMA LastOf ==
  ASSUME NEW n \in Nat, NEW P \in SUBSET (1..n), P # {}
  PROVE  \E i \in P : \A j \in P : j <= i
<1> DEFINE Q == {n - i : i \in P}
<1>1. Q \in SUBSET Nat /\ Q # {}
  <2>1. \A i \in P : i \in 1..n /\ n - i \in Nat
    OBVIOUS
  <2> QED
    BY <2>1
<1>2. PICK m \in Q : \A k \in Q : ~(<<k, m>> \in OpToRel(<, Nat))
  <2> HIDE DEF Q
  <2> QED
    BY <1>1, WFMin, NatLessThanWellFounded
<1>3. \A k \in Q : ~(k < m)
  <2>1. m \in Nat /\ \A k \in Q : k \in Nat
    BY <1>1
  <2> HIDE DEF Q
  <2> QED
    BY <1>2, <2>1 DEF OpToRel
<1>4. PICK i \in P : m = n - i
  OBVIOUS
<1>5. \A j \in P : ~(n - j < n - i)
  BY <1>3, <1>4
<1> QED
  BY <1>5

\* One list behind another.
LEMMA Joined ==
  ASSUME NEW a, NEW b, Listed(a), Listed(b)
  PROVE  /\ Listed(a \o b) /\ Len(a \o b) = Len(a) + Len(b) /\ Len(a) \in Nat /\ Len(b) \in Nat
         /\ \A i \in 1..Len(a) : (a \o b)[i] = a[i]
         /\ \A i \in 1..Len(b) : (a \o b)[Len(a) + i] = b[i]
         /\ \A k \in 1..(Len(a) + Len(b)) : k \in 1..Len(a) \/ (k - Len(a) \in 1..Len(b) /\ k = Len(a) + (k - Len(a)))
         /\ ToSet(a \o b) = ToSet(a) \cup ToSet(b)
<1> DEFINE T == ToSet(a) \cup ToSet(b)
<1>1. /\ a \in Seq(ToSet(a)) /\ b \in Seq(ToSet(b)) /\ Len(a) \in Nat /\ Len(b) \in Nat
      /\ DOMAIN a = 1..Len(a) /\ DOMAIN b = 1..Len(b)
  BY ListedFacts
<1>2. a \in Seq(T) /\ b \in Seq(T)
  BY <1>1
<1> HIDE DEF T
<1>3. /\ a \o b \in Seq(T) /\ Len(a \o b) = Len(a) + Len(b) /\ DOMAIN (a \o b) = 1..(Len(a) + Len(b))
      /\ \A i \in 1..Len(a) : (a \o b)[i] = a[i]
      /\ \A i \in 1..Len(b) : (a \o b)[Len(a) + i] = b[i]
  BY <1>1, <1>2
<1>4. \A k \in 1..(Len(a) + Len(b)) : k \in 1..Len(a) \/ (k - Len(a) \in 1..Len(b) /\ k = Len(a) + (k - Len(a)))
  BY <1>1
<1>5. /\ \A i \in 1..Len(a) : i \in 1..(Len(a) + Len(b))
      /\ \A i \in 1..Len(b) : Len(a) + i \in 1..(Len(a) + Len(b))
  BY <1>1
<1>6. ToSet(a \o b) = {(a \o b)[k] : k \in 1..(Len(a) + Len(b))}
      /\ ToSet(a) = {a[k] : k \in 1..Len(a)} /\ ToSet(b) = {b[k] : k \in 1..Len(b)}
  BY <1>1, <1>3 DEF ToSet
<1>7. \A x \in ToSet(a \o b) : x \in ToSet(a) \/ x \in ToSet(b)
  BY <1>3, <1>4, <1>6
<1>8. \A x : x \in ToSet(a) \/ x \in ToSet(b) => x \in ToSet(a \o b)
  BY <1>3, <1>5, <1>6
<1> QED
  BY <1>1, <1>3, <1>4, <1>7, <1>8, SeqIsListed

\* Before, in one list behind another.
Behind(a, b, x, y) ==
  \/ x \in ToSet(b) /\ Before(b, x, y)
  \/ x \notin ToSet(b) /\ x \in ToSet(a) /\ y \in ToSet(b)
  \/ x \notin ToSet(b) /\ Before(a, x, y)

\* The order of a concatenation.
LEMMA JoinedOrder ==
  ASSUME NEW a, NEW b, Listed(a), Listed(b), NEW x, NEW y
  PROVE  Before(a \o b, x, y) <=> Behind(a, b, x, y)
<1> DEFINE c == a \o b
<1>1. /\ Len(c) = Len(a) + Len(b) /\ Len(a) \in Nat /\ Len(b) \in Nat
      /\ \A i \in 1..Len(a) : c[i] = a[i]
      /\ \A i \in 1..Len(b) : c[Len(a) + i] = b[i]
      /\ \A k \in 1..(Len(a) + Len(b)) : k \in 1..Len(a) \/ (k - Len(a) \in 1..Len(b) /\ k = Len(a) + (k - Len(a)))
      /\ ToSet(c) = ToSet(a) \cup ToSet(b)
  BY Joined
<1>2. /\ \A i \in 1..Len(a) : a[i] \in ToSet(a)
      /\ \A u \in ToSet(a) : \E i \in 1..Len(a) : a[i] = u
      /\ \A i \in 1..Len(b) : b[i] \in ToSet(b)
      /\ \A u \in ToSet(b) : \E i \in 1..Len(b) : b[i] = u
  BY ListedFacts
<1> HIDE DEF c
<1>3. ASSUME Before(c, x, y) PROVE Behind(a, b, x, y)
  <2>1. x \in ToSet(c)
    BY <1>3 DEF Before
  <2>2. PICK j \in 1..Len(c) : c[j] = y /\ \A k \in 1..Len(c) : c[k] = x => k < j
    BY <1>3 DEF Before
  <2>3. CASE x \in ToSet(b)
    <3>1. PICK i \in 1..Len(b) : b[i] = x
      BY <1>2, <2>3
    <3>2. Len(a) + i < j
      <4>1. Len(a) + i \in 1..Len(c) /\ c[Len(a) + i] = x
        BY <1>1, <3>1
      <4> QED
        BY <2>2, <4>1
    <3>3. j - Len(a) \in 1..Len(b) /\ b[j - Len(a)] = y
      <4>1. j \notin 1..Len(a) /\ j \in 1..(Len(a) + Len(b))
        BY <1>1, <3>2
      <4>2. j - Len(a) \in 1..Len(b) /\ j = Len(a) + (j - Len(a))
        BY <1>1, <4>1
      <4> QED
        BY <1>1, <2>2, <4>2
    <3>4. \A k \in 1..Len(b) : b[k] = x => k < j - Len(a)
      <4> SUFFICES ASSUME NEW k \in 1..Len(b), b[k] = x PROVE k < j - Len(a)
        OBVIOUS
      <4>1. Len(a) + k \in 1..Len(c) /\ c[Len(a) + k] = x
        BY <1>1
      <4>2. Len(a) + k < j
        BY <2>2, <4>1
      <4> QED
        BY <1>1, <4>2
    <3>5. Before(b, x, y)
      BY <2>3, <3>3, <3>4 DEF Before
    <3> QED
      BY <2>3, <3>5 DEF Behind
  <2>4. CASE x \notin ToSet(b)
    <3>1. x \in ToSet(a)
      BY <1>1, <2>1, <2>4
    <3>2. CASE j \in 1..Len(a)
      <4>1. a[j] = y
        BY <1>1, <2>2, <3>2
      <4>2. \A k \in 1..Len(a) : a[k] = x => k < j
        <5> SUFFICES ASSUME NEW k \in 1..Len(a), a[k] = x PROVE k < j
          OBVIOUS
        <5>1. k \in 1..Len(c) /\ c[k] = x
          BY <1>1
        <5> QED
          BY <2>2, <5>1
      <4>3. Before(a, x, y)
        BY <3>1, <3>2, <4>1, <4>2 DEF Before
      <4> QED
        BY <2>4, <4>3 DEF Behind
    <3>3. CASE j \notin 1..Len(a)
      <4>1. j - Len(a) \in 1..Len(b) /\ j = Len(a) + (j - Len(a))
        BY <1>1, <3>3
      <4>2. b[j - Len(a)] = y
        BY <1>1, <2>2, <4>1
      <4>3. y \in ToSet(b)
        BY <1>2, <4>1, <4>2
      <4> QED
        BY <2>4, <3>1, <4>3 DEF Behind
    <3> QED
      BY <3>2, <3>3
  <2> QED
    BY <2>3, <2>4
<1>4. ASSUME x \in ToSet(b), Before(b, x, y) PROVE Before(c, x, y)
  <2>1. PICK j \in 1..Len(b) : b[j] = y /\ \A k \in 1..Len(b) : b[k] = x => k < j
    BY <1>4 DEF Before
  <2>2. Len(a) + j \in 1..Len(c) /\ c[Len(a) + j] = y
    BY <1>1, <2>1
  <2>3. ASSUME NEW k \in 1..Len(c), c[k] = x PROVE k < Len(a) + j
    <3>1. CASE k \in 1..Len(a)
      BY <1>1, <3>1
    <3>2. CASE k - Len(a) \in 1..Len(b) /\ k = Len(a) + (k - Len(a))
      <4>1. b[k - Len(a)] = x
        BY <1>1, <2>3, <3>2
      <4>2. k - Len(a) < j
        BY <2>1, <3>2, <4>1
      <4> QED
        BY <1>1, <4>2
    <3> QED
      BY <1>1, <3>1, <3>2
  <2> QED
    BY <1>1, <1>4, <2>2, <2>3 DEF Before
<1>5. ASSUME x \notin ToSet(b), x \in ToSet(a), y \in ToSet(b) PROVE Before(c, x, y)
  <2>1. PICK j \in 1..Len(b) : b[j] = y
    BY <1>2, <1>5
  <2>2. Len(a) + j \in 1..Len(c) /\ c[Len(a) + j] = y
    BY <1>1, <2>1
  <2>3. ASSUME NEW k \in 1..Len(c), c[k] = x PROVE k < Len(a) + j
    <3>1. CASE k \in 1..Len(a)
      BY <1>1, <3>1
    <3>2. CASE k - Len(a) \in 1..Len(b) /\ k = Len(a) + (k - Len(a))
      <4>1. b[k - Len(a)] = x
        BY <1>1, <2>3, <3>2
      <4> QED
        BY <1>2, <1>5, <3>2, <4>1
    <3> QED
      BY <1>1, <3>1, <3>2
  <2> QED
    BY <1>1, <1>5, <2>2, <2>3 DEF Before
<1>6. ASSUME x \notin ToSet(b), Before(a, x, y) PROVE Before(c, x, y)
  <2>1. PICK j \in 1..Len(a) : a[j] = y /\ \A k \in 1..Len(a) : a[k] = x => k < j
    BY <1>6 DEF Before
  <2>2. j \in 1..Len(c) /\ c[j] = y /\ x \in ToSet(c)
    BY <1>1, <1>6, <2>1 DEF Before
  <2>3. ASSUME NEW k \in 1..Len(c), c[k] = x PROVE k < j
    <3>1. CASE k \in 1..Len(a)
      BY <1>1, <2>1, <2>3, <3>1
    <3>2. CASE k - Len(a) \in 1..Len(b) /\ k = Len(a) + (k - Len(a))
      <4>1. b[k - Len(a)] = x
        BY <1>1, <2>3, <3>2
      <4> QED
        BY <1>2, <1>6, <3>2, <4>1
    <3> QED
      BY <1>1, <3>1, <3>2
  <2> QED
    BY <2>2, <2>3 DEF Before
<1> QED
  BY <1>3, <1>4, <1>5, <1>6 DEF Behind, c

\* Where each item is there for the last time.
Lasts(s) == {i \in DOMAIN s : \A j \in DOMAIN s : i < j => s[j] # s[i]}

\* The items where they last appear.
LEMMA LastsTaken ==
  ASSUME NEW s, Listed(s)
  PROVE  LET r == Places(s, Lasts(s)) IN
         /\ Listed(r) /\ Distinct(r) /\ ToSet(r) = ToSet(s)
         /\ \A x, y : Before(r, x, y) <=> Before(s, x, y)
<1> DEFINE r == Places(s, Lasts(s))
<1>1. /\ Len(s) \in Nat /\ DOMAIN s = 1..Len(s)
      /\ \A i \in 1..Len(s) : s[i] \in ToSet(s)
      /\ \A x \in ToSet(s) : \E i \in 1..Len(s) : s[i] = x
  BY ListedFacts
<1>2. Lasts(s) \in SUBSET (1..Len(s)) /\ \A i \in Lasts(s), j \in 1..Len(s) : s[j] = s[i] => j <= i
  BY <1>1 DEF Lasts
<1>3. /\ Listed(r)
      /\ \E h : Through(h, Len(r), Lasts(s)) /\ \A i \in 1..Len(r) : r[i] = s[h[i]]
  BY <1>2, PlacesTaken
<1> HIDE DEF r
<1>4. PICK h : Through(h, Len(r), Lasts(s)) /\ \A i \in 1..Len(r) : r[i] = s[h[i]]
  BY <1>3
<1>5. /\ Len(r) \in Nat
      /\ \A i \in 1..Len(r) : r[i] \in ToSet(r)
      /\ \A x \in ToSet(r) : \E i \in 1..Len(r) : r[i] = x
  BY <1>3, ListedFacts
<1>6. /\ \A i \in 1..Len(r) : h[i] \in Lasts(s) /\ h[i] \in 1..Len(s) /\ r[i] = s[h[i]]
      /\ \A i, j \in 1..Len(r) : i < j => h[i] < h[j]
      /\ \A k \in Lasts(s) : \E i \in 1..Len(r) : h[i] = k
  BY <1>2, <1>4 DEF Through
<1>7. ASSUME NEW x \in ToSet(s) PROVE \E i \in Lasts(s) : s[i] = x
  <2> DEFINE P == {i \in 1..Len(s) : s[i] = x}
  <2>1. P \in SUBSET (1..Len(s)) /\ P # {}
    BY <1>1, <1>7
  <2>2. PICK i \in P : \A j \in P : j <= i
    <3> HIDE DEF P
    <3> QED
      BY <1>1, <2>1, LastOf
  <2>3. \A j \in 1..Len(s) : i < j => s[j] # s[i]
    BY <2>2
  <2> QED
    BY <1>1, <2>2, <2>3 DEF Lasts
<1>8. ASSUME NEW i \in 1..Len(r), NEW j \in 1..Len(r) PROVE i < j <=> h[i] < h[j]
  <2>1. i \in Nat /\ j \in Nat /\ h[i] \in Nat /\ h[j] \in Nat /\ (j < i => h[j] < h[i]) /\ (i < j => h[i] < h[j])
    BY <1>1, <1>5, <1>6
  <2> QED
    BY <2>1
<1>9. Distinct(r)
  <2> SUFFICES ASSUME NEW i \in 1..Len(r), NEW j \in 1..Len(r), r[i] = r[j] PROVE i = j
    BY DEF Distinct
  <2>1. h[i] <= h[j] /\ h[j] <= h[i]
    BY <1>2, <1>6
  <2>2. ~(h[i] < h[j]) /\ ~(h[j] < h[i])
    BY <1>1, <1>6, <2>1
  <2>3. ~(i < j) /\ ~(j < i)
    BY <1>8, <2>2
  <2> QED
    BY <1>5, <2>3
<1>10. ToSet(r) = ToSet(s)
  <2>1. \A x \in ToSet(r) : x \in ToSet(s)
    BY <1>1, <1>5, <1>6
  <2>2. \A x \in ToSet(s) : x \in ToSet(r)
    BY <1>5, <1>6, <1>7
  <2> QED
    BY <2>1, <2>2
<1>11. ASSUME NEW x, NEW y PROVE Before(r, x, y) <=> Before(s, x, y)
  <2>1. Before(r, x, y) <=> \E i, j \in 1..Len(r) : i < j /\ r[i] = x /\ r[j] = y
    BY <1>3, <1>9, BeforeIs
  <2>2. ASSUME NEW i \in 1..Len(r), NEW j \in 1..Len(r), i < j, r[i] = x, r[j] = y PROVE Before(s, x, y)
    <3>1. h[i] < h[j] /\ h[i] \in Lasts(s) /\ h[j] \in 1..Len(s) /\ h[i] \in 1..Len(s) /\ s[h[i]] = x /\ s[h[j]] = y
      BY <1>6, <2>2
    <3>2. \A k \in 1..Len(s) : s[k] = x => k <= h[i]
      BY <1>2, <3>1
    <3>3. \A k \in 1..Len(s) : s[k] = x => k < h[j]
      BY <1>1, <3>1, <3>2
    <3> QED
      BY <1>1, <3>1, <3>3 DEF Before
  <2>3. ASSUME Before(s, x, y) PROVE \E i, j \in 1..Len(r) : i < j /\ r[i] = x /\ r[j] = y
    <3>1. PICK j \in 1..Len(s) : s[j] = y /\ \A k \in 1..Len(s) : s[k] = x => k < j
      BY <2>3 DEF Before
    <3>2. x \in ToSet(s) /\ y \in ToSet(s)
      BY <1>1, <2>3, <3>1 DEF Before
    <3>3. PICK a \in Lasts(s) : s[a] = x
      BY <1>7, <3>2
    <3>4. PICK b \in Lasts(s) : s[b] = y
      BY <1>7, <3>2
    <3>5. a < j /\ j <= b /\ a \in 1..Len(s) /\ b \in 1..Len(s)
      BY <1>2, <3>1, <3>3, <3>4
    <3>6. a < b
      BY <1>1, <3>5
    <3>7. PICK i1 \in 1..Len(r) : h[i1] = a
      BY <1>6
    <3>8. PICK j1 \in 1..Len(r) : h[j1] = b
      BY <1>6
    <3> QED
      BY <1>6, <1>8, <3>3, <3>4, <3>6, <3>7, <3>8
  <2> QED
    BY <2>1, <2>2, <2>3
<1> QED
  BY <1>3, <1>9, <1>10, <1>11 DEF r

\* Merging items: all of both, where they last appear.
LEMMA StringsMerged ==
  ASSUME NEW a, NEW b, Listed(a), Listed(b)
  PROVE  LET r == mergeStrings(a, b) IN
         /\ Listed(r) /\ Distinct(r) /\ ToSet(r) = ToSet(a) \cup ToSet(b)
         /\ \A x, y : Before(r, x, y) <=> Behind(a, b, x, y)
<1>1. mergeStrings(a, b) = Places(a \o b, Lasts(a \o b))
  BY DEF mergeStrings, Lasts
<1>2. Listed(a \o b) /\ ToSet(a \o b) = ToSet(a) \cup ToSet(b)
  BY Joined
<1> QED
  BY <1>1, <1>2, LastsTaken, JoinedOrder

\* Merging items is associative, ...
LEMMA StringsAssociate ==
  ASSUME NEW a, NEW b, NEW c, Listed(a), Listed(b), Listed(c)
  PROVE  mergeStrings(mergeStrings(a, b), c) = mergeStrings(a, mergeStrings(b, c))
<1> DEFINE ab == mergeStrings(a, b)
           bc == mergeStrings(b, c)
           l == mergeStrings(ab, c)
           r == mergeStrings(a, bc)
<1>1. /\ Listed(ab) /\ ToSet(ab) = ToSet(a) \cup ToSet(b)
      /\ \A x, y : Before(ab, x, y) <=> Behind(a, b, x, y)
  BY StringsMerged
<1>2. /\ Listed(bc) /\ ToSet(bc) = ToSet(b) \cup ToSet(c)
      /\ \A x, y : Before(bc, x, y) <=> Behind(b, c, x, y)
  BY StringsMerged
<1> HIDE DEF ab, bc
<1>3. /\ Listed(l) /\ Distinct(l) /\ ToSet(l) = ToSet(ab) \cup ToSet(c)
      /\ \A x, y : Before(l, x, y) <=> Behind(ab, c, x, y)
  BY <1>1, StringsMerged
<1>4. /\ Listed(r) /\ Distinct(r) /\ ToSet(r) = ToSet(a) \cup ToSet(bc)
      /\ \A x, y : Before(r, x, y) <=> Behind(a, bc, x, y)
  BY <1>2, StringsMerged
<1> HIDE DEF l, r
<1>5. ASSUME NEW x, NEW y PROVE Behind(ab, c, x, y) <=> Behind(a, bc, x, y)
  BY <1>1, <1>2 DEF Behind
<1>6. ToSet(l) = ToSet(r)
  BY <1>1, <1>2, <1>3, <1>4
<1>7. l = r
  BY <1>3, <1>4, <1>5, <1>6, SameOrder
<1> QED
  BY <1>7 DEF l, r, ab, bc

\* ... and nothing comes of merging nothing.
LEMMA StringsAlone ==
  ASSUME NEW a, Listed(a), Distinct(a)
  PROVE  mergeStrings(a, <<>>) = a /\ mergeStrings(<<>>, a) = a
<1>1. Listed(<<>>) /\ ToSet(<<>>) = {}
  BY DEF Listed, ToSet
<1>2. \A x, y : ~Before(<<>>, x, y) /\ (Before(a, x, y) => x \in ToSet(a))
  BY <1>1 DEF Before
<1>3. ASSUME NEW x, NEW y PROVE (Behind(a, <<>>, x, y) <=> Before(a, x, y)) /\ (Behind(<<>>, a, x, y) <=> Before(a, x, y))
  BY <1>1, <1>2 DEF Behind
<1> DEFINE l == mergeStrings(a, <<>>)
           r == mergeStrings(<<>>, a)
<1>4. Listed(l) /\ Distinct(l) /\ ToSet(l) = ToSet(a) \cup {} /\ \A x, y : Before(l, x, y) <=> Before(a, x, y)
  BY <1>1, <1>3, StringsMerged
<1>5. Listed(r) /\ Distinct(r) /\ ToSet(r) = {} \cup ToSet(a) /\ \A x, y : Before(r, x, y) <=> Before(a, x, y)
  BY <1>1, <1>3, StringsMerged
<1> HIDE DEF l, r
<1>6. l = a /\ r = a
  BY <1>4, <1>5, SameOrder
<1> QED
  BY <1>6 DEF l, r

-----------------------------------------------------------------------------
(* Terms: what mergeTerms keeps.                                           *)

\* The terms that a list of definitions is told by.
Keys(a) == [i \in DOMAIN a |-> a[i].term]

\* t comes first, where the definitions of b are put behind those of a and keep
\* the place the term has there.
Ahead(a, b, t, u) ==
  \/ Before(Keys(a), t, u)
  \/ t \in ToSet(Keys(a)) /\ u \notin ToSet(Keys(a)) /\ u \in ToSet(Keys(b))
  \/ t \notin ToSet(Keys(a)) /\ u \notin ToSet(Keys(a)) /\ Before(Keys(b), t, u)

\* A definition of b, or one of a for which b has none.
Newer(a, b, x) == x \in ToSet(b) \/ (x \in ToSet(a) /\ x.term \notin ToSet(Keys(b)))

\* They are the terms of its members.
LEMMA KeysOf ==
  ASSUME NEW a, Listed(a)
  PROVE  /\ Listed(Keys(a)) /\ Len(Keys(a)) = Len(a)
         /\ \A i \in 1..Len(a) : Keys(a)[i] = a[i].term /\ a[i].term \in ToSet(Keys(a))
         /\ \A t : t \in ToSet(Keys(a)) <=> \E x \in ToSet(a) : x.term = t
         /\ \A t \in ToSet(Keys(a)) : \E i \in 1..Len(a) : a[i].term = t
<1> DEFINE T == {a[i].term : i \in 1..Len(a)}
<1>1. /\ Len(a) \in Nat /\ DOMAIN a = 1..Len(a) /\ \A i \in 1..Len(a) : a[i] \in ToSet(a)
      /\ \A x \in ToSet(a) : \E i \in 1..Len(a) : a[i] = x
  BY ListedFacts
<1>2. Keys(a) \in [1..Len(a) -> T]
  BY <1>1 DEF Keys
<1>3. Keys(a) \in Seq(T) /\ Len(Keys(a)) = Len(a)
  <2> HIDE DEF T
  <2>1. Keys(a) \in Seq(T)
    BY <1>1, <1>2, IsASeq
  <2>2. DOMAIN Keys(a) = 1..Len(Keys(a)) /\ Len(Keys(a)) \in Nat /\ DOMAIN Keys(a) = 1..Len(a)
    BY <1>2, <2>1
  <2>3. \A n, m \in Nat : 1..n = 1..m => n = m
    OBVIOUS
  <2>4. Len(Keys(a)) = Len(a)
    BY <1>1, <2>2, <2>3
  <2> QED
    BY <2>1, <2>4
<1> HIDE DEF T
<1>4. Listed(Keys(a))
  BY <1>3, SeqIsListed
<1>5. \A i \in 1..Len(a) : Keys(a)[i] = a[i].term
  BY <1>1 DEF Keys
<1>6. /\ \A i \in 1..Len(a) : Keys(a)[i] \in ToSet(Keys(a))
      /\ \A t \in ToSet(Keys(a)) : \E i \in 1..Len(a) : Keys(a)[i] = t
  <2>1. /\ \A i \in 1..Len(Keys(a)) : Keys(a)[i] \in ToSet(Keys(a))
        /\ \A t \in ToSet(Keys(a)) : \E i \in 1..Len(Keys(a)) : Keys(a)[i] = t
    BY <1>4, ListedFacts
  <2> QED
    BY <1>3, <2>1
<1>7. ASSUME NEW t PROVE t \in ToSet(Keys(a)) <=> \E x \in ToSet(a) : x.term = t
  BY <1>1, <1>5, <1>6
<1> QED
  BY <1>3, <1>4, <1>5, <1>6, <1>7

\* Definitions of different terms are told by what they are and the order of
\* their terms.
LEMMA SameTerms ==
  ASSUME NEW s, NEW t, Listed(s), Listed(t), Distinct(Keys(s)), Distinct(Keys(t)),
         \A x : x \in ToSet(s) <=> x \in ToSet(t),
         \A x, y : Before(Keys(s), x, y) <=> Before(Keys(t), x, y)
  PROVE  s = t
<1>1. /\ Listed(Keys(s)) /\ Len(Keys(s)) = Len(s) /\ \A i \in 1..Len(s) : Keys(s)[i] = s[i].term
      /\ \A k : k \in ToSet(Keys(s)) <=> \E x \in ToSet(s) : x.term = k
  BY KeysOf
<1>2. /\ Listed(Keys(t)) /\ Len(Keys(t)) = Len(t) /\ \A i \in 1..Len(t) : Keys(t)[i] = t[i].term
      /\ \A k : k \in ToSet(Keys(t)) <=> \E x \in ToSet(t) : x.term = k
  BY KeysOf
<1>3. Keys(s) = Keys(t)
  <2>1. ToSet(Keys(s)) = ToSet(Keys(t))
    BY <1>1, <1>2
  <2> QED
    BY <1>1, <1>2, <2>1, SameOrder
<1>4. Len(s) \in Nat /\ s \in Seq(ToSet(s)) /\ t \in Seq(ToSet(s)) /\ \A i \in 1..Len(s) : s[i] \in ToSet(t)
  <2>1. ToSet(s) = ToSet(t)
    OBVIOUS
  <2> QED
    BY <2>1, ListedFacts
<1>5. \A x \in ToSet(t) : \E j \in 1..Len(t) : t[j] = x
  BY ListedFacts
<1>6. ASSUME NEW i \in 1..Len(s) PROVE s[i] = t[i]
  <2>1. PICK j \in 1..Len(t) : t[j] = s[i]
    BY <1>4, <1>5
  <2>2. Keys(t)[j] = Keys(t)[i] /\ i \in 1..Len(Keys(t)) /\ j \in 1..Len(Keys(t))
    BY <1>1, <1>2, <1>3, <2>1
  <2>3. i = j
    BY <2>2 DEF Distinct
  <2> QED
    BY <2>1, <2>3
<1>7. Len(s) = Len(t)
  BY <1>1, <1>2, <1>3
<1> QED
  BY <1>4, <1>6, <1>7, SeqEqual

\* Two lists that share nothing.
LEMMA JoinedDistinct ==
  ASSUME NEW a, NEW b, Listed(a), Listed(b), Distinct(a), Distinct(b), ToSet(a) \cap ToSet(b) = {}
  PROVE  Distinct(a \o b)
<1>1. /\ Len(a \o b) = Len(a) + Len(b) /\ Len(a) \in Nat /\ Len(b) \in Nat
      /\ \A i \in 1..Len(a) : (a \o b)[i] = a[i]
      /\ \A i \in 1..Len(b) : (a \o b)[Len(a) + i] = b[i]
      /\ \A k \in 1..(Len(a) + Len(b)) : k \in 1..Len(a) \/ (k - Len(a) \in 1..Len(b) /\ k = Len(a) + (k - Len(a)))
  BY Joined
<1>2. /\ \A i \in 1..Len(a) : a[i] \in ToSet(a)
      /\ \A i \in 1..Len(b) : b[i] \in ToSet(b)
  BY ListedFacts
<1> SUFFICES ASSUME NEW i \in 1..(Len(a) + Len(b)), NEW j \in 1..(Len(a) + Len(b)), (a \o b)[i] = (a \o b)[j]
    PROVE  i = j
  BY <1>1 DEF Distinct
<1> DEFINE c == a \o b
<1>3. /\ i \in 1..Len(a) => c[i] = a[i] /\ c[i] \in ToSet(a)
      /\ i \notin 1..Len(a) => c[i] = b[i - Len(a)] /\ c[i] \in ToSet(b) /\ i - Len(a) \in 1..Len(b)
  BY <1>1, <1>2
<1>4. /\ j \in 1..Len(a) => c[j] = a[j] /\ c[j] \in ToSet(a)
      /\ j \notin 1..Len(a) => c[j] = b[j - Len(a)] /\ c[j] \in ToSet(b) /\ j - Len(a) \in 1..Len(b)
  BY <1>1, <1>2
<1>5. c[i] = c[j]
  OBVIOUS
<1> HIDE DEF c
<1>6. CASE i \in 1..Len(a)
  <2>1. j \in 1..Len(a)
    BY <1>3, <1>4, <1>5, <1>6
  <2> QED
    BY <1>3, <1>4, <1>5, <1>6, <2>1 DEF Distinct
<1>7. CASE i \notin 1..Len(a)
  <2>1. j \notin 1..Len(a)
    BY <1>3, <1>4, <1>5, <1>7
  <2>2. b[i - Len(a)] = b[j - Len(a)] /\ i - Len(a) \in 1..Len(b) /\ j - Len(a) \in 1..Len(b)
    BY <1>3, <1>4, <1>5, <1>7, <2>1
  <2>3. i - Len(a) = j - Len(a)
    BY <2>2 DEF Distinct
  <2> QED
    BY <1>1, <2>3
<1> QED
  BY <1>6, <1>7

\* The definitions in S, of a list of different terms.
LEMMA TermsSelected ==
  ASSUME NEW b, Listed(b), Distinct(Keys(b)), NEW S
  PROVE  LET r == Filter(b, S) IN
         /\ Listed(r) /\ Distinct(Keys(r))
         /\ \A x : x \in ToSet(r) <=> x \in ToSet(b) /\ x \in S
         /\ \A t, u : Before(Keys(r), t, u) <=>
              Before(Keys(b), t, u) /\ t \in ToSet(Keys(r)) /\ u \in ToSet(Keys(r))
<1> DEFINE r == Filter(b, S)
<1>1. PICK h : Picks(h, r, b, S, Len(b))
  BY FilterPicks
<1> HIDE DEF r
<1>2. r \in Seq(ToSet(b)) /\ Listed(r) /\ Len(r) \in Nat
  <2>1. r \in Seq(ToSet(b))
    BY <1>1 DEF Picks
  <2> QED
    BY <2>1, SeqIsListed
<1>3. /\ \A i \in 1..Len(r) : h[i] \in 1..Len(b) /\ r[i] = b[h[i]] /\ b[h[i]] \in S
      /\ \A i, j \in 1..Len(r) : i < j => h[i] < h[j]
      /\ \A k \in 1..Len(b) : b[k] \in S => \E i \in 1..Len(r) : h[i] = k
  BY <1>1 DEF Picks
<1>4. /\ Len(b) \in Nat /\ \A i \in 1..Len(b) : b[i] \in ToSet(b)
      /\ \A x \in ToSet(b) : \E i \in 1..Len(b) : b[i] = x
  BY ListedFacts
<1>5. /\ \A i \in 1..Len(r) : r[i] \in ToSet(r)
      /\ \A x \in ToSet(r) : \E i \in 1..Len(r) : r[i] = x
  BY <1>2, ListedFacts
<1>6. /\ Listed(Keys(b)) /\ Len(Keys(b)) = Len(b)
      /\ \A i \in 1..Len(b) : Keys(b)[i] = b[i].term
  BY KeysOf
<1>7. /\ Listed(Keys(r)) /\ Len(Keys(r)) = Len(r)
      /\ \A i \in 1..Len(r) : Keys(r)[i] = r[i].term /\ r[i].term \in ToSet(Keys(r))
      /\ \A t \in ToSet(Keys(r)) : \E i \in 1..Len(r) : r[i].term = t
  BY <1>2, KeysOf
<1>8. \A i \in 1..Len(r) : Keys(r)[i] = Keys(b)[h[i]]
  BY <1>3, <1>6, <1>7
<1>9. ASSUME NEW i \in 1..Len(r), NEW j \in 1..Len(r) PROVE i < j <=> h[i] < h[j]
  <2>1. i \in Nat /\ j \in Nat /\ h[i] \in Nat /\ h[j] \in Nat /\ (j < i => h[j] < h[i]) /\ (i < j => h[i] < h[j])
    BY <1>2, <1>3, <1>4
  <2> QED
    BY <2>1
<1>10. Distinct(Keys(r))
  <2> SUFFICES ASSUME NEW i \in 1..Len(r), NEW j \in 1..Len(r), Keys(r)[i] = Keys(r)[j] PROVE i = j
    BY <1>7 DEF Distinct
  <2>1. h[i] = h[j]
    BY <1>3, <1>6, <1>8 DEF Distinct
  <2>2. ~(h[i] < h[j]) /\ ~(h[j] < h[i])
    BY <1>3, <1>4, <2>1
  <2>3. ~(i < j) /\ ~(j < i)
    BY <1>9, <2>2
  <2> QED
    BY <1>2, <2>3
<1>11. ASSUME NEW x PROVE x \in ToSet(r) <=> x \in ToSet(b) /\ x \in S
  BY <1>3, <1>4, <1>5
<1>12. ASSUME NEW t, NEW u
       PROVE  Before(Keys(r), t, u) <=> Before(Keys(b), t, u) /\ t \in ToSet(Keys(r)) /\ u \in ToSet(Keys(r))
  <2>1. Before(Keys(r), t, u) <=> \E i, j \in 1..Len(r) : i < j /\ Keys(r)[i] = t /\ Keys(r)[j] = u
    BY <1>7, <1>10, BeforeIs
  <2>2. Before(Keys(b), t, u) <=> \E i, j \in 1..Len(b) : i < j /\ Keys(b)[i] = t /\ Keys(b)[j] = u
    BY <1>6, BeforeIs
  <2>3. ASSUME NEW i \in 1..Len(r), NEW j \in 1..Len(r), i < j, Keys(r)[i] = t, Keys(r)[j] = u
        PROVE  Before(Keys(b), t, u) /\ t \in ToSet(Keys(r)) /\ u \in ToSet(Keys(r))
    <3>1. h[i] < h[j] /\ h[i] \in 1..Len(b) /\ h[j] \in 1..Len(b) /\ Keys(b)[h[i]] = t /\ Keys(b)[h[j]] = u
      BY <1>3, <1>8, <2>3
    <3> QED
      BY <1>7, <2>2, <2>3, <3>1
  <2>4. ASSUME NEW i \in 1..Len(b), NEW j \in 1..Len(b), i < j, Keys(b)[i] = t, Keys(b)[j] = u,
               t \in ToSet(Keys(r)), u \in ToSet(Keys(r))
        PROVE  \E p, q \in 1..Len(r) : p < q /\ Keys(r)[p] = t /\ Keys(r)[q] = u
    <3>1. PICK p \in 1..Len(r) : Keys(r)[p] = t
      BY <1>7, <2>4
    <3>2. PICK q \in 1..Len(r) : Keys(r)[q] = u
      BY <1>7, <2>4
    <3>3. h[p] = i /\ h[q] = j
      <4>1. Keys(b)[h[p]] = Keys(b)[i] /\ Keys(b)[h[q]] = Keys(b)[j]
        BY <1>8, <2>4, <3>1, <3>2
      <4>2. h[p] \in 1..Len(Keys(b)) /\ h[q] \in 1..Len(Keys(b)) /\ i \in 1..Len(Keys(b)) /\ j \in 1..Len(Keys(b))
        BY <1>3, <1>6
      <4> QED
        BY <4>1, <4>2 DEF Distinct
    <3>4. p < q
      BY <1>9, <2>4, <3>3
    <3> QED
      BY <3>1, <3>2, <3>4
  <2> QED
    BY <2>1, <2>2, <2>3, <2>4
<1> QED
  BY <1>2, <1>10, <1>11, <1>12 DEF r

\* Merging definitions: those of b replace those of a in their place, and the
\* others come behind.
LEMMA TermsMerged ==
  ASSUME NEW a, NEW b, Listed(a), Listed(b), Distinct(Keys(a)), Distinct(Keys(b))
  PROVE  LET r == mergeTerms(a, b) IN
         /\ Listed(r) /\ Distinct(Keys(r))
         /\ \A x : x \in ToSet(r) <=> Newer(a, b, x)
         /\ \A t, u : Before(Keys(r), t, u) <=> Ahead(a, b, t, u)
<1> DEFINE Newest(t) == IF \E i \in DOMAIN b : b[i].term = t.term
                          THEN CHOOSE u \in ToSet(b) : u.term = t.term ELSE t
           known == {t.term : t \in ToSet(a)}
           added == {t \in ToSet(b) : t.term \notin known}
           kept == [i \in DOMAIN a |-> Newest(a[i])]
           new == Filter(b, added)
<1>1. mergeTerms(a, b) = kept \o new
  BY DEF mergeTerms
<1>2. /\ Len(a) \in Nat /\ DOMAIN a = 1..Len(a) /\ \A i \in 1..Len(a) : a[i] \in ToSet(a)
      /\ \A x \in ToSet(a) : \E i \in 1..Len(a) : a[i] = x
  BY ListedFacts
<1>3. /\ Len(b) \in Nat /\ DOMAIN b = 1..Len(b) /\ \A i \in 1..Len(b) : b[i] \in ToSet(b)
      /\ \A x \in ToSet(b) : \E i \in 1..Len(b) : b[i] = x
  BY ListedFacts
<1>4. /\ Listed(Keys(a)) /\ Len(Keys(a)) = Len(a) /\ \A i \in 1..Len(a) : Keys(a)[i] = a[i].term
      /\ \A t : t \in ToSet(Keys(a)) <=> \E x \in ToSet(a) : x.term = t
  BY KeysOf
<1>5. /\ Listed(Keys(b)) /\ Len(Keys(b)) = Len(b) /\ \A i \in 1..Len(b) : Keys(b)[i] = b[i].term
      /\ \A t : t \in ToSet(Keys(b)) <=> \E x \in ToSet(b) : x.term = t
  BY KeysOf
<1>6. ASSUME NEW x \in ToSet(b), NEW y \in ToSet(b), x.term = y.term PROVE x = y
  <2>1. PICK i \in 1..Len(b) : b[i] = x
    BY <1>3
  <2>2. PICK j \in 1..Len(b) : b[j] = y
    BY <1>3
  <2> QED
    BY <1>5, <1>6, <2>1, <2>2 DEF Distinct
<1>7. \A t : IF t.term \in ToSet(Keys(b)) THEN Newest(t) \in ToSet(b) /\ Newest(t).term = t.term ELSE Newest(t) = t
  <2> SUFFICES ASSUME NEW t
      PROVE  IF t.term \in ToSet(Keys(b)) THEN Newest(t) \in ToSet(b) /\ Newest(t).term = t.term ELSE Newest(t) = t
    OBVIOUS
  <2>1. (\E i \in DOMAIN b : b[i].term = t.term) <=> t.term \in ToSet(Keys(b))
    BY <1>3, <1>5
  <2>2. CASE t.term \in ToSet(Keys(b))
    <3>1. \E u \in ToSet(b) : u.term = t.term
      BY <1>5, <2>2
    <3>2. LET c == CHOOSE u \in ToSet(b) : u.term = t.term IN c \in ToSet(b) /\ c.term = t.term
      BY <3>1
    <3> QED
      BY <2>1, <2>2, <3>2
  <2>3. CASE t.term \notin ToSet(Keys(b))
    BY <2>1, <2>3
  <2> QED
    BY <2>2, <2>3
<1>8. known = ToSet(Keys(a))
  BY <1>4
<1> HIDE DEF Newest
<1>9. /\ Listed(kept) /\ Len(kept) = Len(a) /\ \A i \in 1..Len(a) : kept[i] = Newest(a[i])
  <2> DEFINE T == {Newest(a[i]) : i \in 1..Len(a)}
  <2>1. kept \in [1..Len(a) -> T]
    BY <1>2
  <2> HIDE DEF T
  <2>2. kept \in Seq(T)
    BY <1>2, <2>1, IsASeq
  <2>3. DOMAIN kept = 1..Len(kept) /\ Len(kept) \in Nat /\ DOMAIN kept = 1..Len(a)
    BY <2>1, <2>2
  <2>4. Len(kept) = Len(a)
    BY <1>2, <2>3
  <2> QED
    BY <1>2, <2>2, <2>4, SeqIsListed
<1>10. /\ Listed(new) /\ Distinct(Keys(new))
       /\ \A x : x \in ToSet(new) <=> x \in ToSet(b) /\ x \in added
       /\ \A t, u : Before(Keys(new), t, u) <=>
            Before(Keys(b), t, u) /\ t \in ToSet(Keys(new)) /\ u \in ToSet(Keys(new))
  <2> HIDE DEF added
  <2> QED
    BY TermsSelected
<1> HIDE DEF kept, new
<1>11. \A x : x \in ToSet(new) <=> x \in ToSet(b) /\ x.term \notin ToSet(Keys(a))
  BY <1>8, <1>10
<1>12. /\ Listed(Keys(new)) /\ Len(Keys(new)) = Len(new)
       /\ \A i \in 1..Len(new) : Keys(new)[i] = new[i].term
       /\ \A t : t \in ToSet(Keys(new)) <=> \E x \in ToSet(new) : x.term = t
  BY <1>10, KeysOf
<1>13. \A t : t \in ToSet(Keys(new)) <=> t \in ToSet(Keys(b)) /\ t \notin ToSet(Keys(a))
  BY <1>5, <1>11, <1>12
<1>14. \A x : x \in ToSet(kept) <=> \E i \in 1..Len(a) : x = Newest(a[i])
  <2>1. /\ \A i \in 1..Len(kept) : kept[i] \in ToSet(kept)
        /\ \A x \in ToSet(kept) : \E i \in 1..Len(kept) : kept[i] = x
    BY <1>9, ListedFacts
  <2> QED
    BY <1>9, <2>1
<1>15. Keys(kept) = Keys(a)
  <2>1. /\ Listed(Keys(kept)) /\ Len(Keys(kept)) = Len(kept) /\ \A i \in 1..Len(kept) : Keys(kept)[i] = kept[i].term
    BY <1>9, KeysOf
  <2>2. ASSUME NEW i \in 1..Len(a) PROVE Keys(kept)[i] = Keys(a)[i]
    BY <1>4, <1>7, <1>9, <2>1
  <2>3. DOMAIN Keys(kept) = 1..Len(a) /\ DOMAIN Keys(a) = 1..Len(a)
    BY <1>2, <1>9 DEF Keys, kept
  <2> QED
    BY <2>2, <2>3 DEF Keys
<1> DEFINE r == kept \o new
<1>16. Listed(r) /\ ToSet(r) = ToSet(kept) \cup ToSet(new)
  BY <1>9, <1>10, Joined
<1>17. Keys(r) = Keys(kept) \o Keys(new)
  <2>1. /\ Len(r) = Len(kept) + Len(new) /\ Len(kept) \in Nat /\ Len(new) \in Nat
        /\ \A i \in 1..Len(kept) : r[i] = kept[i]
        /\ \A i \in 1..Len(new) : r[Len(kept) + i] = new[i]
        /\ \A k \in 1..(Len(kept) + Len(new)) :
             k \in 1..Len(kept) \/ (k - Len(kept) \in 1..Len(new) /\ k = Len(kept) + (k - Len(kept)))
    BY <1>9, <1>10, Joined
  <2> HIDE DEF r
  <2>2. Listed(Keys(r)) /\ Len(Keys(r)) = Len(r) /\ \A i \in 1..Len(r) : Keys(r)[i] = r[i].term
    BY <1>16, KeysOf DEF r
  <2>3. Listed(Keys(kept)) /\ Len(Keys(kept)) = Len(kept) /\ \A i \in 1..Len(kept) : Keys(kept)[i] = kept[i].term
    BY <1>9, KeysOf
  <2> DEFINE q == Keys(kept) \o Keys(new)
  <2>4. /\ Listed(q) /\ Len(q) = Len(kept) + Len(new)
        /\ \A i \in 1..Len(kept) : q[i] = kept[i].term
        /\ \A i \in 1..Len(new) : q[Len(kept) + i] = new[i].term
    <3>1. /\ Listed(q) /\ Len(q) = Len(Keys(kept)) + Len(Keys(new))
          /\ \A i \in 1..Len(Keys(kept)) : q[i] = Keys(kept)[i]
          /\ \A i \in 1..Len(Keys(new)) : q[Len(Keys(kept)) + i] = Keys(new)[i]
      BY <1>12, <2>3, Joined
    <3> HIDE DEF q
    <3> QED
      BY <1>12, <2>3, <3>1
  <2> HIDE DEF q
  <2>5. ASSUME NEW k \in 1..Len(r) PROVE Keys(r)[k] = q[k]
    <3>1. CASE k \in 1..Len(kept)
      BY <2>1, <2>2, <2>4, <3>1
    <3>2. CASE k - Len(kept) \in 1..Len(new) /\ k = Len(kept) + (k - Len(kept))
      <4>1. r[k] = new[k - Len(kept)] /\ q[k] = new[k - Len(kept)].term
        BY <2>1, <2>4, <3>2
      <4> QED
        BY <2>2, <4>1
    <3> QED
      BY <2>1, <3>1, <3>2
  <2>6. DOMAIN Keys(r) = 1..Len(r) /\ DOMAIN q = 1..Len(r) /\ q \in Seq(ToSet(q))
    BY <2>1, <2>2, <2>4, ListedFacts
  <2>7. Keys(r) \in Seq(ToSet(Keys(r))) /\ Len(Keys(r)) = Len(q)
    BY <2>1, <2>2, <2>4, ListedFacts
  <2>8. Keys(r) \in Seq(ToSet(Keys(r)) \cup ToSet(q)) /\ q \in Seq(ToSet(Keys(r)) \cup ToSet(q))
    BY <2>6, <2>7
  <2>9. Keys(r) = q
    BY <2>2, <2>5, <2>7, <2>8, SeqEqual
  <2> QED
    BY <2>9 DEF q
<1> HIDE DEF r
<1>18. Distinct(Keys(r)) /\ \A t, u : Before(Keys(r), t, u) <=> Behind(Keys(a), Keys(new), t, u)
  <2>1. ToSet(Keys(a)) \cap ToSet(Keys(new)) = {}
    BY <1>13
  <2> QED
    BY <1>4, <1>10, <1>12, <1>15, <1>17, <2>1, JoinedDistinct, JoinedOrder
<1>19. ASSUME NEW t, NEW u PROVE Behind(Keys(a), Keys(new), t, u) <=> Ahead(a, b, t, u)
  <2>1. Before(Keys(a), t, u) => t \in ToSet(Keys(a)) /\ u \in ToSet(Keys(a))
    BY <1>4, ListedFacts DEF Before
  <2>2. Before(Keys(b), t, u) => t \in ToSet(Keys(b)) /\ u \in ToSet(Keys(b))
    BY <1>5, ListedFacts DEF Before
  <2> QED
    BY <1>10, <1>13, <2>1, <2>2 DEF Behind, Ahead
<1>20. ASSUME NEW x PROVE x \in ToSet(r) <=> Newer(a, b, x)
  <2>1. ASSUME x \in ToSet(kept) PROVE Newer(a, b, x)
    BY <1>2, <1>7, <1>14, <2>1 DEF Newer
  <2>2. ASSUME x \in ToSet(new) PROVE Newer(a, b, x)
    BY <1>11, <2>2 DEF Newer
  <2>3. ASSUME x \in ToSet(b), x.term \in ToSet(Keys(a)) PROVE x \in ToSet(kept)
    <3>1. PICK y \in ToSet(a) : y.term = x.term
      BY <1>4, <2>3
    <3>2. PICK i \in 1..Len(a) : a[i] = y
      BY <1>2
    <3>3. x.term \in ToSet(Keys(b))
      BY <1>5, <2>3
    <3>4. Newest(a[i]) \in ToSet(b) /\ Newest(a[i]).term = x.term
      BY <1>7, <3>1, <3>2, <3>3
    <3>5. Newest(a[i]) = x
      BY <1>6, <2>3, <3>4
    <3> QED
      BY <1>14, <3>5
  <2>4. ASSUME x \in ToSet(a), x.term \notin ToSet(Keys(b)) PROVE x \in ToSet(kept)
    <3>1. PICK i \in 1..Len(a) : a[i] = x
      BY <1>2, <2>4
    <3> QED
      BY <1>7, <1>14, <2>4, <3>1
  <2> QED
    BY <1>11, <1>16, <2>1, <2>2, <2>3, <2>4 DEF Newer
<1> QED
  BY <1>1, <1>16, <1>18, <1>19, <1>20 DEF r

\* The terms of a merge.
LEMMA MergedKeys ==
  ASSUME NEW a, NEW b, NEW r, Listed(a), Listed(b), Listed(r), \A x : x \in ToSet(r) <=> Newer(a, b, x)
  PROVE  \A t : t \in ToSet(Keys(r)) <=> t \in ToSet(Keys(a)) \/ t \in ToSet(Keys(b))
<1>1. /\ \A t : t \in ToSet(Keys(a)) <=> \E x \in ToSet(a) : x.term = t
      /\ \A t : t \in ToSet(Keys(b)) <=> \E x \in ToSet(b) : x.term = t
      /\ \A t : t \in ToSet(Keys(r)) <=> \E x \in ToSet(r) : x.term = t
  BY KeysOf
<1> QED
  BY <1>1 DEF Newer

\* Of two terms in their order, both are there.
LEMMA BothThere ==
  ASSUME NEW s, Listed(s), NEW x, NEW y, Before(s, x, y)
  PROVE  x \in ToSet(s) /\ y \in ToSet(s)
BY ListedFacts DEF Before

\* Merging definitions is associative, ...
LEMMA TermsAssociate ==
  ASSUME NEW a, NEW b, NEW c, Listed(a), Listed(b), Listed(c),
         Distinct(Keys(a)), Distinct(Keys(b)), Distinct(Keys(c))
  PROVE  mergeTerms(mergeTerms(a, b), c) = mergeTerms(a, mergeTerms(b, c))
<1> DEFINE ab == mergeTerms(a, b)
           bc == mergeTerms(b, c)
           l == mergeTerms(ab, c)
           r == mergeTerms(a, bc)
<1>1. /\ Listed(ab) /\ Distinct(Keys(ab))
      /\ \A x : x \in ToSet(ab) <=> Newer(a, b, x)
      /\ \A t, u : Before(Keys(ab), t, u) <=> Ahead(a, b, t, u)
  BY TermsMerged
<1>2. /\ Listed(bc) /\ Distinct(Keys(bc))
      /\ \A x : x \in ToSet(bc) <=> Newer(b, c, x)
      /\ \A t, u : Before(Keys(bc), t, u) <=> Ahead(b, c, t, u)
  BY TermsMerged
<1> HIDE DEF ab, bc
<1>3. /\ Listed(l) /\ Distinct(Keys(l))
      /\ \A x : x \in ToSet(l) <=> Newer(ab, c, x)
      /\ \A t, u : Before(Keys(l), t, u) <=> Ahead(ab, c, t, u)
  BY <1>1, TermsMerged
<1>4. /\ Listed(r) /\ Distinct(Keys(r))
      /\ \A x : x \in ToSet(r) <=> Newer(a, bc, x)
      /\ \A t, u : Before(Keys(r), t, u) <=> Ahead(a, bc, t, u)
  BY <1>2, TermsMerged
<1> HIDE DEF l, r
<1>5. \A t : t \in ToSet(Keys(ab)) <=> t \in ToSet(Keys(a)) \/ t \in ToSet(Keys(b))
  BY <1>1, MergedKeys
<1>6. \A t : t \in ToSet(Keys(bc)) <=> t \in ToSet(Keys(b)) \/ t \in ToSet(Keys(c))
  BY <1>2, MergedKeys
<1>7. ASSUME NEW x PROVE Newer(ab, c, x) <=> Newer(a, bc, x)
  BY <1>1, <1>2, <1>6 DEF Newer
<1>8. ASSUME NEW t, NEW u PROVE Ahead(ab, c, t, u) <=> Ahead(a, bc, t, u)
  <2>1. /\ Before(Keys(a), t, u) => t \in ToSet(Keys(a)) /\ u \in ToSet(Keys(a))
        /\ Before(Keys(b), t, u) => t \in ToSet(Keys(b)) /\ u \in ToSet(Keys(b))
        /\ Before(Keys(c), t, u) => t \in ToSet(Keys(c)) /\ u \in ToSet(Keys(c))
    BY KeysOf, BothThere
  <2>2. Before(Keys(ab), t, u) <=> Ahead(a, b, t, u)
    BY <1>1
  <2>3. Before(Keys(bc), t, u) <=> Ahead(b, c, t, u)
    BY <1>2
  <2> QED
    BY <1>5, <1>6, <2>1, <2>2, <2>3 DEF Ahead
<1>9. l = r
  BY <1>3, <1>4, <1>7, <1>8, SameTerms
<1> QED
  BY <1>9 DEF l, r, ab, bc

\* ... and nothing comes of merging nothing.
LEMMA TermsAlone ==
  ASSUME NEW a, Listed(a), Distinct(Keys(a))
  PROVE  mergeTerms(a, <<>>) = a /\ mergeTerms(<<>>, a) = a
<1>1. Listed(<<>>) /\ ToSet(<<>>) = {} /\ Keys(<<>>) = <<>> /\ Distinct(Keys(<<>>))
  BY DEF Listed, ToSet, Keys, Distinct
<1>2. \A x, y : ~Before(Keys(<<>>), x, y)
  BY <1>1 DEF Before
<1>3. ASSUME NEW x PROVE (Newer(a, <<>>, x) <=> x \in ToSet(a)) /\ (Newer(<<>>, a, x) <=> x \in ToSet(a))
  BY <1>1 DEF Newer
<1>4. ASSUME NEW t, NEW u
      PROVE  (Ahead(a, <<>>, t, u) <=> Before(Keys(a), t, u)) /\ (Ahead(<<>>, a, t, u) <=> Before(Keys(a), t, u))
  BY <1>1, <1>2 DEF Ahead
<1> DEFINE l == mergeTerms(a, <<>>)
           r == mergeTerms(<<>>, a)
<1>5. /\ Listed(l) /\ Distinct(Keys(l))
      /\ \A x : x \in ToSet(l) <=> Newer(a, <<>>, x)
      /\ \A t, u : Before(Keys(l), t, u) <=> Ahead(a, <<>>, t, u)
  BY <1>1, TermsMerged
<1>6. /\ Listed(r) /\ Distinct(Keys(r))
      /\ \A x : x \in ToSet(r) <=> Newer(<<>>, a, x)
      /\ \A t, u : Before(Keys(r), t, u) <=> Ahead(<<>>, a, t, u)
  BY <1>1, TermsMerged
<1> HIDE DEF l, r
<1>7. l = a /\ r = a
  BY <1>3, <1>4, <1>5, <1>6, SameTerms
<1> QED
  BY <1>7 DEF l, r

\* The greatest of some places is the one Max chooses.
LEMMA MaxIs ==
  ASSUME NEW n \in Nat, NEW P \in SUBSET (1..n), NEW m \in P, \A k \in P : k <= m
  PROVE  Max(P) = m
<1>1. \A x \in P : (\A y \in P : x >= y) <=> x = m
  <2>1. \A x \in P : x \in Nat
    OBVIOUS
  <2> QED
    BY <2>1
<1> QED
  BY <1>1 DEF Max

\* Where a term is there for the first time.
Firsts(s) == {i \in DOMAIN s : \A j \in DOMAIN s : j < i => s[j].term # s[i].term}

\* What Over makes of the terms of two documents.
Overlaid(a, b) ==
  LET terms == a \o b
      first == Places(terms, Firsts(terms))
      Newest(t) == terms[Max({j \in DOMAIN terms : terms[j].term = t})]
  IN [i \in DOMAIN first |-> Newest(first[i].term)]

\* It is what mergeTerms does.
LEMMA TermsOverlaid ==
  ASSUME NEW a, NEW b, Listed(a), Listed(b), Distinct(Keys(a)), Distinct(Keys(b))
  PROVE  Overlaid(a, b) = mergeTerms(a, b)
<1> DEFINE c == a \o b
           first == Places(c, Firsts(c))
           Newest(t) == c[Max({j \in DOMAIN c : c[j].term = t})]
           r == [i \in DOMAIN first |-> Newest(first[i].term)]
<1>1. Overlaid(a, b) = r
  BY DEF Overlaid
<1>2. /\ Listed(c) /\ Len(c) = Len(a) + Len(b) /\ Len(a) \in Nat /\ Len(b) \in Nat
      /\ \A i \in 1..Len(a) : c[i] = a[i]
      /\ \A i \in 1..Len(b) : c[Len(a) + i] = b[i]
      /\ \A k \in 1..(Len(a) + Len(b)) : k \in 1..Len(a) \/ (k - Len(a) \in 1..Len(b) /\ k = Len(a) + (k - Len(a)))
      /\ ToSet(c) = ToSet(a) \cup ToSet(b)
  BY Joined
<1> HIDE DEF c
<1>3. /\ Len(c) \in Nat /\ DOMAIN c = 1..Len(c)
  BY <1>2, ListedFacts
<1>4. /\ Listed(Keys(a)) /\ Len(Keys(a)) = Len(a)
      /\ \A i \in 1..Len(a) : Keys(a)[i] = a[i].term /\ a[i].term \in ToSet(Keys(a))
      /\ \A t \in ToSet(Keys(a)) : \E i \in 1..Len(a) : a[i].term = t
  BY KeysOf
<1>5. /\ Listed(Keys(b)) /\ Len(Keys(b)) = Len(b)
      /\ \A i \in 1..Len(b) : Keys(b)[i] = b[i].term /\ b[i].term \in ToSet(Keys(b))
      /\ \A t \in ToSet(Keys(b)) : \E i \in 1..Len(b) : b[i].term = t
  BY KeysOf
<1>6. /\ \A i, j \in 1..Len(a) : a[i].term = a[j].term => i = j
      /\ \A i, j \in 1..Len(b) : b[i].term = b[j].term => i = j
  BY <1>4, <1>5 DEF Distinct
<1>7. /\ \A i \in 1..Len(a) : a[i] \in ToSet(a)
      /\ \A i \in 1..Len(b) : b[i] \in ToSet(b)
      /\ \A x \in ToSet(a) : \E i \in 1..Len(a) : a[i] = x
      /\ \A x \in ToSet(b) : \E i \in 1..Len(b) : b[i] = x
  BY ListedFacts
<1>8. ASSUME NEW j \in 1..Len(b) PROVE Newest(b[j].term) = b[j]
  <2> DEFINE P == {k \in DOMAIN c : c[k].term = b[j].term}
  <2>1. P \in SUBSET (1..Len(c)) /\ Len(a) + j \in P
    BY <1>2, <1>3
  <2>2. ASSUME NEW k \in P PROVE k <= Len(a) + j
    <3>1. k \in 1..(Len(a) + Len(b)) /\ c[k].term = b[j].term
      BY <1>2, <1>3
    <3>2. CASE k \in 1..Len(a)
      BY <1>2, <3>2
    <3>3. CASE k - Len(a) \in 1..Len(b) /\ k = Len(a) + (k - Len(a))
      <4>1. c[k] = b[k - Len(a)]
        BY <1>2, <3>3
      <4>2. k - Len(a) = j
        BY <1>6, <3>1, <3>3, <4>1
      <4> QED
        BY <1>2, <3>3, <4>2
    <3> QED
      BY <1>2, <3>1, <3>2, <3>3
  <2> HIDE DEF P
  <2>3. Max(P) = Len(a) + j
    BY <1>3, <2>1, <2>2, MaxIs
  <2> QED
    BY <1>2, <2>3 DEF P
<1>9. ASSUME NEW i \in 1..Len(a), a[i].term \notin ToSet(Keys(b)) PROVE Newest(a[i].term) = a[i]
  <2> DEFINE P == {k \in DOMAIN c : c[k].term = a[i].term}
  <2>1. P \in SUBSET (1..Len(c)) /\ i \in P
    BY <1>2, <1>3
  <2>2. ASSUME NEW k \in P PROVE k <= i
    <3>1. k \in 1..(Len(a) + Len(b)) /\ c[k].term = a[i].term
      BY <1>2, <1>3
    <3>2. CASE k \in 1..Len(a)
      <4>1. k = i
        BY <1>2, <1>6, <3>1, <3>2
      <4> QED
        BY <1>2, <4>1
    <3>3. CASE k - Len(a) \in 1..Len(b) /\ k = Len(a) + (k - Len(a))
      <4>1. c[k] = b[k - Len(a)]
        BY <1>2, <3>3
      <4> QED
        BY <1>5, <1>9, <3>1, <3>3, <4>1
    <3> QED
      BY <1>2, <3>1, <3>2, <3>3
  <2> HIDE DEF P
  <2>3. Max(P) = i
    BY <1>3, <2>1, <2>2, MaxIs
  <2> QED
    BY <1>2, <2>3 DEF P
<1>10. Firsts(c) \in SUBSET (1..Len(c))
       /\ \A i \in Firsts(c), j \in 1..Len(c) : j < i => c[j].term # c[i].term
  BY <1>3 DEF Firsts
<1>11. \A i \in 1..Len(a) : i \in Firsts(c)
  <2> SUFFICES ASSUME NEW i \in 1..Len(a), NEW j \in 1..Len(c), j < i PROVE c[j].term # c[i].term
    BY <1>2, <1>3 DEF Firsts
  <2>1. j \in 1..Len(a) /\ i # j
    BY <1>2, <1>3
  <2> QED
    BY <1>2, <1>6, <2>1
<1>12. \A i \in 1..Len(b) : Len(a) + i \in Firsts(c) <=> b[i].term \notin ToSet(Keys(a))
  <2> SUFFICES ASSUME NEW i \in 1..Len(b) PROVE Len(a) + i \in Firsts(c) <=> b[i].term \notin ToSet(Keys(a))
    OBVIOUS
  <2>1. Len(a) + i \in 1..Len(c) /\ c[Len(a) + i] = b[i]
    BY <1>2
  <2>2. ASSUME b[i].term \in ToSet(Keys(a)) PROVE Len(a) + i \notin Firsts(c)
    <3>1. PICK k \in 1..Len(a) : a[k].term = b[i].term
      BY <1>4, <2>2
    <3>2. k \in 1..Len(c) /\ k < Len(a) + i /\ c[k] = a[k]
      BY <1>2
    <3> QED
      BY <1>10, <2>1, <3>1, <3>2
  <2>3. ASSUME b[i].term \notin ToSet(Keys(a)), NEW j \in 1..Len(c), j < Len(a) + i
        PROVE  c[j].term # b[i].term
    <3>1. CASE j \in 1..Len(a)
      BY <1>2, <1>4, <2>3, <3>1
    <3>2. CASE j - Len(a) \in 1..Len(b) /\ j = Len(a) + (j - Len(a))
      <4>1. c[j] = b[j - Len(a)]
        BY <1>2, <3>2
      <4>2. j - Len(a) # i
        BY <1>2, <2>3, <3>2
      <4> QED
        BY <1>6, <2>3, <3>2, <4>1, <4>2
    <3> QED
      BY <1>2, <3>1, <3>2
  <2>4. b[i].term \notin ToSet(Keys(a)) => Len(a) + i \in Firsts(c)
    BY <1>3, <2>1, <2>3 DEF Firsts
  <2> QED
    BY <2>2, <2>4
<1>13. /\ Listed(first)
       /\ \E h : Through(h, Len(first), Firsts(c)) /\ \A i \in 1..Len(first) : first[i] = c[h[i]]
  <2> HIDE DEF Newest, r
  <2>1. Listed(c) /\ Firsts(c) \in SUBSET (1..Len(c))
    BY <1>2, <1>10
  <2> QED
    BY <2>1, PlacesTaken
<1> HIDE DEF first
<1>14. PICK h : Through(h, Len(first), Firsts(c)) /\ \A i \in 1..Len(first) : first[i] = c[h[i]]
  BY <1>13
<1>15. /\ \A i \in 1..Len(first) : h[i] \in Firsts(c) /\ h[i] \in 1..Len(c) /\ first[i] = c[h[i]]
       /\ \A i, j \in 1..Len(first) : i < j => h[i] < h[j]
       /\ \A k \in Firsts(c) : \E i \in 1..Len(first) : h[i] = k
  BY <1>10, <1>14 DEF Through
<1>16. Len(first) \in Nat /\ DOMAIN first = 1..Len(first)
  BY <1>13, ListedFacts
<1>17. ASSUME NEW i \in 1..Len(first), NEW j \in 1..Len(first) PROVE i < j <=> h[i] < h[j]
  <2>1. i \in Nat /\ j \in Nat /\ h[i] \in Nat /\ h[j] \in Nat /\ (j < i => h[j] < h[i]) /\ (i < j => h[i] < h[j])
    BY <1>3, <1>15, <1>16
  <2> QED
    BY <2>1
<1>18. \A t : t \in ToSet(Keys(a)) \/ t \in ToSet(Keys(b)) => Newest(t).term = t
  <2> SUFFICES ASSUME NEW t, t \in ToSet(Keys(a)) \/ t \in ToSet(Keys(b)) PROVE Newest(t).term = t
    OBVIOUS
  <2> HIDE DEF Newest
  <2>1. CASE t \in ToSet(Keys(b))
    <3>1. PICK j \in 1..Len(b) : b[j].term = t
      BY <1>5, <2>1
    <3> QED
      BY <1>8, <3>1
  <2>2. CASE t \notin ToSet(Keys(b))
    <3>1. PICK j \in 1..Len(a) : a[j].term = t
      BY <1>4, <2>2
    <3> QED
      BY <1>9, <2>2, <3>1
  <2> QED
    BY <2>1, <2>2
<1>19. \A k \in 1..Len(c) : c[k].term \in ToSet(Keys(a)) \/ c[k].term \in ToSet(Keys(b))
  <2> SUFFICES ASSUME NEW k \in 1..(Len(a) + Len(b))
      PROVE  c[k].term \in ToSet(Keys(a)) \/ c[k].term \in ToSet(Keys(b))
    BY <1>2
  <2>1. CASE k \in 1..Len(a)
    BY <1>2, <1>4, <2>1
  <2>2. CASE k - Len(a) \in 1..Len(b) /\ k = Len(a) + (k - Len(a))
    <3>1. c[k] = b[k - Len(a)]
      BY <1>2, <2>2
    <3> QED
      BY <1>5, <2>2, <3>1
  <2> QED
    BY <1>2, <2>1, <2>2
<1> HIDE DEF Newest
<1>20. /\ Listed(r) /\ Len(r) = Len(first) /\ \A i \in 1..Len(first) : r[i] = Newest(first[i].term)
  <2> DEFINE T == {Newest(first[i].term) : i \in 1..Len(first)}
  <2>1. r \in [1..Len(first) -> T]
    BY <1>16
  <2> HIDE DEF T
  <2>2. r \in Seq(T)
    BY <1>16, <2>1, IsASeq
  <2>3. DOMAIN r = 1..Len(r) /\ Len(r) \in Nat /\ DOMAIN r = 1..Len(first)
    BY <2>1, <2>2
  <2>4. \A n, m \in Nat : 1..n = 1..m => n = m
    OBVIOUS
  <2>5. Len(r) = Len(first)
    BY <1>16, <2>3, <2>4
  <2> QED
    BY <1>16, <2>2, <2>5, SeqIsListed
<1> HIDE DEF r
<1>21. /\ Listed(Keys(r)) /\ Len(Keys(r)) = Len(first)
       /\ \A i \in 1..Len(first) : Keys(r)[i] = c[h[i]].term
  <2>1. Listed(Keys(r)) /\ Len(Keys(r)) = Len(r) /\ \A i \in 1..Len(r) : Keys(r)[i] = r[i].term
    BY <1>20, KeysOf
  <2>2. \A i \in 1..Len(first) : r[i].term = c[h[i]].term
    BY <1>15, <1>18, <1>19, <1>20
  <2> QED
    BY <1>20, <2>1, <2>2
<1>22. Distinct(Keys(r))
  <2> SUFFICES ASSUME NEW i \in 1..Len(first), NEW j \in 1..Len(first), Keys(r)[i] = Keys(r)[j] PROVE i = j
    BY <1>21 DEF Distinct
  <2>1. c[h[i]].term = c[h[j]].term
    BY <1>21
  <2>2. ~(h[i] < h[j]) /\ ~(h[j] < h[i])
    BY <1>10, <1>15, <2>1
  <2>3. ~(i < j) /\ ~(j < i)
    BY <1>17, <2>2
  <2> QED
    BY <1>16, <2>3
<1>23. ASSUME NEW x PROVE x \in ToSet(r) <=> Newer(a, b, x)
  <2>1. /\ \A i \in 1..Len(first) : r[i] \in ToSet(r)
        /\ \A y \in ToSet(r) : \E i \in 1..Len(first) : r[i] = y
    BY <1>20, ListedFacts
  <2>2. x \in ToSet(r) <=> \E k \in Firsts(c) : x = Newest(c[k].term)
    BY <1>15, <1>20, <2>1
  <2>3. ASSUME NEW k \in Firsts(c) PROVE Newer(a, b, Newest(c[k].term))
    <3>1. k \in 1..(Len(a) + Len(b))
      BY <1>2, <1>10
    <3>2. CASE c[k].term \in ToSet(Keys(b))
      <4>1. PICK j \in 1..Len(b) : b[j].term = c[k].term
        BY <1>5, <3>2
      <4> QED
        BY <1>7, <1>8, <4>1 DEF Newer
    <3>3. CASE c[k].term \notin ToSet(Keys(b))
      <4>1. k \in 1..Len(a) /\ c[k] = a[k]
        BY <1>2, <1>5, <3>1, <3>3
      <4> QED
        BY <1>7, <1>9, <3>3, <4>1 DEF Newer
    <3> QED
      BY <3>2, <3>3
  <2>4. ASSUME Newer(a, b, x) PROVE \E k \in Firsts(c) : x = Newest(c[k].term)
    <3>1. CASE x \in ToSet(b) /\ x.term \in ToSet(Keys(a))
      <4>1. PICK j \in 1..Len(b) : b[j] = x
        BY <1>7, <3>1
      <4>2. PICK i \in 1..Len(a) : a[i].term = x.term
        BY <1>4, <3>1
      <4> QED
        BY <1>2, <1>8, <1>11, <4>1, <4>2
    <3>2. CASE x \in ToSet(b) /\ x.term \notin ToSet(Keys(a))
      <4>1. PICK j \in 1..Len(b) : b[j] = x
        BY <1>7, <3>2
      <4> QED
        BY <1>2, <1>8, <1>12, <3>2, <4>1
    <3>3. CASE x \in ToSet(a) /\ x.term \notin ToSet(Keys(b))
      <4>1. PICK i \in 1..Len(a) : a[i] = x
        BY <1>7, <3>3
      <4> QED
        BY <1>2, <1>9, <1>11, <3>3, <4>1
    <3> QED
      BY <2>4, <3>1, <3>2, <3>3 DEF Newer
  <2> QED
    BY <2>2, <2>3, <2>4
<1>24. ASSUME NEW t, NEW u PROVE Before(Keys(r), t, u) <=> Ahead(a, b, t, u)
  <2>1. Before(Keys(r), t, u) <=> \E i, j \in 1..Len(first) : i < j /\ Keys(r)[i] = t /\ Keys(r)[j] = u
    BY <1>21, <1>22, BeforeIs
  <2>2. Before(Keys(r), t, u) <=> \E p, q \in Firsts(c) : p < q /\ c[p].term = t /\ c[q].term = u
    <3>1. ASSUME NEW i \in 1..Len(first), NEW j \in 1..Len(first), i < j, Keys(r)[i] = t, Keys(r)[j] = u
          PROVE  \E p, q \in Firsts(c) : p < q /\ c[p].term = t /\ c[q].term = u
      BY <1>15, <1>21, <3>1
    <3>2. ASSUME NEW p \in Firsts(c), NEW q \in Firsts(c), p < q, c[p].term = t, c[q].term = u
          PROVE  \E i, j \in 1..Len(first) : i < j /\ Keys(r)[i] = t /\ Keys(r)[j] = u
      <4>1. PICK i \in 1..Len(first) : h[i] = p
        BY <1>15
      <4>2. PICK j \in 1..Len(first) : h[j] = q
        BY <1>15
      <4>3. i < j
        BY <1>17, <3>2, <4>1, <4>2
      <4> QED
        BY <1>21, <3>2, <4>1, <4>2, <4>3
    <3> QED
      BY <2>1, <3>1, <3>2
  <2>3. /\ Before(Keys(a), t, u) <=> \E i, j \in 1..Len(a) : i < j /\ a[i].term = t /\ a[j].term = u
        /\ Before(Keys(b), t, u) <=> \E i, j \in 1..Len(b) : i < j /\ b[i].term = t /\ b[j].term = u
    <3>1. Before(Keys(a), t, u) <=> \E i, j \in 1..Len(Keys(a)) : i < j /\ Keys(a)[i] = t /\ Keys(a)[j] = u
      BY <1>4, BeforeIs
    <3>2. Before(Keys(b), t, u) <=> \E i, j \in 1..Len(Keys(b)) : i < j /\ Keys(b)[i] = t /\ Keys(b)[j] = u
      BY <1>5, BeforeIs
    <3>3. (\E i, j \in 1..Len(Keys(a)) : i < j /\ Keys(a)[i] = t /\ Keys(a)[j] = u)
            <=> \E i, j \in 1..Len(a) : i < j /\ a[i].term = t /\ a[j].term = u
      BY <1>4
    <3>4. (\E i, j \in 1..Len(Keys(b)) : i < j /\ Keys(b)[i] = t /\ Keys(b)[j] = u)
            <=> \E i, j \in 1..Len(b) : i < j /\ b[i].term = t /\ b[j].term = u
      BY <1>5
    <3> QED
      BY <3>1, <3>2, <3>3, <3>4
  <2>4. ASSUME NEW p \in Firsts(c), NEW q \in Firsts(c), p < q, c[p].term = t, c[q].term = u
        PROVE  Ahead(a, b, t, u)
    <3>1. p \in 1..(Len(a) + Len(b)) /\ q \in 1..(Len(a) + Len(b))
      BY <1>2, <1>10
    <3>2. CASE q \in 1..Len(a)
      <4>1. p \in 1..Len(a)
        BY <1>2, <2>4, <3>1, <3>2
      <4> QED
        BY <1>2, <2>3, <2>4, <3>2, <4>1 DEF Ahead
    <3>3. CASE q - Len(a) \in 1..Len(b) /\ q = Len(a) + (q - Len(a))
      <4>1. c[q] = b[q - Len(a)] /\ u \notin ToSet(Keys(a)) /\ u \in ToSet(Keys(b))
        BY <1>2, <1>5, <1>12, <2>4, <3>3
      <4>2. CASE p \in 1..Len(a)
        BY <1>2, <1>4, <2>4, <4>1, <4>2 DEF Ahead
      <4>3. CASE p - Len(a) \in 1..Len(b) /\ p = Len(a) + (p - Len(a))
        <5>1. c[p] = b[p - Len(a)] /\ t \notin ToSet(Keys(a)) /\ p - Len(a) < q - Len(a)
          BY <1>2, <1>12, <2>4, <3>1, <4>3
        <5>2. \E i, j \in 1..Len(b) : i < j /\ b[i].term = t /\ b[j].term = u
          BY <2>4, <3>3, <4>1, <4>3, <5>1
        <5> QED
          BY <2>3, <4>1, <5>1, <5>2 DEF Ahead
      <4> QED
        BY <1>2, <3>1, <4>2, <4>3
    <3> QED
      BY <1>2, <3>1, <3>2, <3>3
  <2>5. ASSUME Ahead(a, b, t, u)
        PROVE  \E p, q \in Firsts(c) : p < q /\ c[p].term = t /\ c[q].term = u
    <3>1. CASE Before(Keys(a), t, u)
      <4>1. PICK i \in 1..Len(a), j \in 1..Len(a) : i < j /\ a[i].term = t /\ a[j].term = u
        BY <2>3, <3>1
      <4> QED
        BY <1>2, <1>11, <4>1
    <3>2. CASE t \in ToSet(Keys(a)) /\ u \notin ToSet(Keys(a)) /\ u \in ToSet(Keys(b))
      <4>1. PICK i \in 1..Len(a) : a[i].term = t
        BY <1>4, <3>2
      <4>2. PICK j \in 1..Len(b) : b[j].term = u
        BY <1>5, <3>2
      <4>3. i \in Firsts(c) /\ Len(a) + j \in Firsts(c) /\ i < Len(a) + j
        BY <1>2, <1>11, <1>12, <3>2, <4>2
      <4> QED
        BY <1>2, <4>1, <4>2, <4>3
    <3>3. CASE t \notin ToSet(Keys(a)) /\ u \notin ToSet(Keys(a)) /\ Before(Keys(b), t, u)
      <4>1. PICK i \in 1..Len(b), j \in 1..Len(b) : i < j /\ b[i].term = t /\ b[j].term = u
        BY <2>3, <3>3
      <4>2. Len(a) + i \in Firsts(c) /\ Len(a) + j \in Firsts(c) /\ Len(a) + i < Len(a) + j
        BY <1>2, <1>12, <3>3, <4>1
      <4> QED
        BY <1>2, <4>1, <4>2
    <3> QED
      BY <2>5, <3>1, <3>2, <3>3 DEF Ahead
  <2> QED
    BY <2>2, <2>4, <2>5
<1>25. LET m == mergeTerms(a, b) IN
       /\ Listed(m) /\ Distinct(Keys(m))
       /\ \A x : x \in ToSet(m) <=> Newer(a, b, x)
       /\ \A t, u : Before(Keys(m), t, u) <=> Ahead(a, b, t, u)
  BY TermsMerged
<1>26. r = mergeTerms(a, b)
  BY <1>20, <1>22, <1>23, <1>24, <1>25, SameTerms
<1> QED
  BY <1>1, <1>26

-----------------------------------------------------------------------------
(* Slots.                                                                  *)

\* Slots that define a term once, as a published document does, and merged ones,
\* which have an item once too.
Tidy(s) ==
  /\ s = [terms |-> s.terms, rules |-> s.rules, goals |-> s.goals]
  /\ Listed(s.terms) /\ Distinct(Keys(s.terms)) /\ Listed(s.rules)

Neat(s) == Tidy(s) /\ Distinct(s.rules)

\* What is merged is neat.
LEMMA MergeNeat ==
  ASSUME NEW a, NEW b, Tidy(a), Tidy(b)
  PROVE  Neat(mergeInto(a, b))
<1>1. /\ mergeInto(a, b).terms = mergeTerms(a.terms, b.terms)
      /\ mergeInto(a, b).rules = mergeStrings(a.rules, b.rules)
      /\ mergeInto(a, b) = [terms |-> mergeInto(a, b).terms, rules |-> mergeInto(a, b).rules,
                            goals |-> mergeInto(a, b).goals]
  BY DEF mergeInto
<1>2. Listed(mergeTerms(a.terms, b.terms)) /\ Distinct(Keys(mergeTerms(a.terms, b.terms)))
  BY TermsMerged DEF Tidy
<1>3. Listed(mergeStrings(a.rules, b.rules)) /\ Distinct(mergeStrings(a.rules, b.rules))
  BY StringsMerged DEF Tidy
<1> QED
  BY <1>1, <1>2, <1>3 DEF Neat, Tidy

\* Merging is associative: an ancestor's document can be merged into what is there
\* already, and need not be resolved for itself first.
THEOREM MergingAssociates ==
  ASSUME NEW a, NEW b, NEW c, Tidy(a), Tidy(b), Tidy(c)
  PROVE  mergeInto(mergeInto(a, b), c) = mergeInto(a, mergeInto(b, c))
<1>1. mergeTerms(mergeTerms(a.terms, b.terms), c.terms) = mergeTerms(a.terms, mergeTerms(b.terms, c.terms))
  BY TermsAssociate DEF Tidy
<1>2. mergeStrings(mergeStrings(a.rules, b.rules), c.rules) = mergeStrings(a.rules, mergeStrings(b.rules, c.rules))
  BY StringsAssociate DEF Tidy
<1>3. replaceIfSet(replaceIfSet(a.goals, b.goals), c.goals) = replaceIfSet(a.goals, replaceIfSet(b.goals, c.goals))
  BY DEF replaceIfSet
<1> QED
  BY <1>1, <1>2, <1>3 DEF mergeInto

\* A document with nothing in it changes nothing.
LEMMA MergeEmpty ==
  ASSUME NEW a, Neat(a)
  PROVE  mergeInto(a, Empty) = a /\ mergeInto(Empty, a) = a
<1>1. Empty.terms = <<>> /\ Empty.rules = <<>> /\ Empty.goals = {}
  BY DEF Empty
<1>2. mergeTerms(a.terms, <<>>) = a.terms /\ mergeTerms(<<>>, a.terms) = a.terms
  BY TermsAlone DEF Neat, Tidy
<1>3. mergeStrings(a.rules, <<>>) = a.rules /\ mergeStrings(<<>>, a.rules) = a.rules
  BY StringsAlone DEF Neat, Tidy
<1>4. replaceIfSet(a.goals, {}) = a.goals /\ replaceIfSet({}, a.goals) = a.goals
  BY DEF replaceIfSet
<1>5. a = [terms |-> a.terms, rules |-> a.rules, goals |-> a.goals]
  BY DEF Neat, Tidy
<1> QED
  BY <1>1, <1>2, <1>3, <1>4, <1>5 DEF mergeInto

\* No slots are neat.
LEMMA EmptyNeat == Neat(Empty)
BY DEF Neat, Tidy, Empty, Listed, Distinct, Keys

\* Putting a document over another is merging it into the other.
LEMMA OverMerges ==
  ASSUME NEW a, NEW b, Tidy(a), Tidy(b)
  PROVE  Over(b, a) = mergeInto(a, b)
<1>1. Over(b, a) = [terms |-> Overlaid(a.terms, b.terms), rules |-> mergeStrings(a.rules, b.rules),
                    goals |-> IF b.goals = {} THEN a.goals ELSE b.goals]
  BY DEF Over, Overlaid, Firsts, mergeStrings
<1>2. Overlaid(a.terms, b.terms) = mergeTerms(a.terms, b.terms)
  BY TermsOverlaid DEF Tidy
<1>3. (IF b.goals = {} THEN a.goals ELSE b.goals) = replaceIfSet(a.goals, b.goals)
  BY DEF replaceIfSet
<1> QED
  BY <1>1, <1>2, <1>3 DEF mergeInto

-----------------------------------------------------------------------------
(* What the parents come to.  Under is defined by itself, on fewer parents or *)
(* below one mark more: there is one function that does what its definition *)
(* says, and it is that.                                                   *)

\* What Under is defined by.
Step(f, x) ==
  IF x.at = 0 THEN Ok(Empty)
  ELSE LET p == x.doc.extends[x.at]
           before == f[[x EXCEPT !.at = @ - 1]]
           doc == CHOOSE v \in Found(p) : TRUE
           over == Close(doc, f[Parents(doc, x.path \cup {KeyOf(p)}, x.without)])
       IN IF before.ends # "ok" \/ Ref(p) \in x.without THEN before
          ELSE IF KeyOf(p) \in x.path THEN Cycle
          ELSE IF Found(p) = {} THEN Missing
          ELSE IF over.ends # "ok" THEN over
          ELSE Ok(Over(over.slots, before.slots))

\* Documents hold lists, no longer than W, of a finite number of parents.
Bounded(W) ==
  /\ W \in Nat /\ IsFiniteSet(PinnedKeys)
  /\ \A v \in versions : Listed(v.extends) /\ Listed(v.excludes) /\ Len(v.extends) <= W

\* How much there may be below x: the marks still to be had, then the parents.
Below(W) == [x \in Context |-> Cardinality(PinnedKeys \ x.path) * (W + 1) + x.at]

\* It is a natural number.
LEMMA BelowIsNat ==
  ASSUME NEW W, Bounded(W)
  PROVE  Below(W) \in [Context -> Nat]
<1>1. ASSUME NEW x \in Context PROVE Cardinality(PinnedKeys \ x.path) * (W + 1) + x.at \in Nat
  <2>1. Cardinality(PinnedKeys \ x.path) \in Nat
    BY FS_Difference, FS_CardinalityType DEF Bounded
  <2>2. x.at \in Nat /\ W \in Nat
    BY DEF Context, Bounded
  <2>3. \A c, w, a \in Nat : c * (w + 1) + a \in Nat
    OBVIOUS
  <2> QED
    BY <2>1, <2>2, <2>3
<1> QED
  BY <1>1 DEF Below

\* One parent fewer.
LEMMA OneFewer ==
  ASSUME NEW W, Bounded(W), NEW x \in Context, x.at # 0
  PROVE  LET y == [x EXCEPT !.at = @ - 1] IN
         /\ y \in Context /\ y = [doc |-> x.doc, at |-> x.at - 1, path |-> x.path, without |-> x.without]
         /\ Below(W)[y] < Below(W)[x]
<1> DEFINE y == [x EXCEPT !.at = @ - 1]
<1>1. /\ x \in [doc : versions, at : Nat, path : SUBSET PinnedKeys, without : SUBSET Named]
      /\ x.at <= Len(x.doc.extends)
  BY DEF Context
<1>2. y = [doc |-> x.doc, at |-> x.at - 1, path |-> x.path, without |-> x.without] /\ x.at - 1 \in Nat
  BY <1>1
<1>3. Len(x.doc.extends) \in Nat
  BY <1>1, ListedFacts DEF Bounded
<1>4. y \in Context
  BY <1>1, <1>2, <1>3 DEF Context
<1>5. Cardinality(PinnedKeys \ x.path) \in Nat
  BY FS_Difference, FS_CardinalityType DEF Bounded
<1>6. /\ Below(W)[y] = Cardinality(PinnedKeys \ x.path) * (W + 1) + (x.at - 1)
      /\ Below(W)[x] = Cardinality(PinnedKeys \ x.path) * (W + 1) + x.at
  BY <1>2, <1>4 DEF Below
<1>7. \A c, w, a \in Nat : c * (w + 1) + (a - 1) < c * (w + 1) + a
  OBVIOUS
<1> QED
  BY <1>1, <1>2, <1>4, <1>5, <1>6, <1>7 DEF Bounded

\* One mark more.
LEMMA OneDeeper ==
  ASSUME NEW W, Bounded(W), NEW x \in Context, x.at # 0,
         KeyOf(x.doc.extends[x.at]) \notin x.path, NEW v \in versions
  PROVE  LET y == Parents(v, x.path \cup {KeyOf(x.doc.extends[x.at])}, x.without) IN
         y \in Context /\ Below(W)[y] < Below(W)[x]
<1> DEFINE k == KeyOf(x.doc.extends[x.at])
           y == Parents(v, x.path \cup {k}, x.without)
<1>1. /\ x.doc \in versions /\ x.at \in Nat /\ x.path \in SUBSET PinnedKeys /\ x.without \in SUBSET Named
      /\ x.at <= Len(x.doc.extends)
  BY DEF Context
<1>2. /\ Len(x.doc.extends) \in Nat /\ Len(v.extends) \in Nat /\ Len(v.extends) <= W /\ W \in Nat
      /\ \A i \in 1..Len(x.doc.extends) : x.doc.extends[i] \in ToSet(x.doc.extends)
  BY <1>1, ListedFacts DEF Bounded
<1>3. k \in PinnedKeys
  <2>1. x.at \in 1..Len(x.doc.extends)
    BY <1>1, <1>2
  <2>2. x.doc.extends[x.at] \in ToSet(x.doc.extends)
    BY <1>2, <2>1
  <2> QED
    BY <1>1, <2>2 DEF PinnedKeys
<1> HIDE DEF k
<1>4. y = [doc |-> v, at |-> Len(v.extends), path |-> x.path \cup {k}, without |-> x.without \cup ToSet(v.excludes)]
  BY DEF Parents
<1>5. ToSet(v.excludes) \in SUBSET Named
  BY DEF Named
<1>6. y \in Context /\ y.doc = v /\ y.at = Len(v.extends) /\ y.path = x.path \cup {k}
  <2> HIDE DEF y
  <2>1. y.doc = v /\ y.at = Len(v.extends) /\ y.path = x.path \cup {k}
    BY <1>4
  <2>2. x.path \cup {k} \in SUBSET PinnedKeys /\ x.without \cup ToSet(v.excludes) \in SUBSET Named
    BY <1>1, <1>3, <1>5
  <2>3. y \in [doc : versions, at : Nat, path : SUBSET PinnedKeys, without : SUBSET Named]
    BY <1>2, <1>4, <2>2
  <2>4. y.at <= Len(y.doc.extends)
    BY <1>2, <2>1
  <2> QED
    BY <2>1, <2>3, <2>4 DEF Context
<1> HIDE DEF y
<1>7. /\ Cardinality(PinnedKeys \ x.path) \in Nat /\ IsFiniteSet(PinnedKeys \ x.path)
      /\ Cardinality(PinnedKeys \ (x.path \cup {k})) = Cardinality(PinnedKeys \ x.path) - 1
      /\ Cardinality(PinnedKeys \ (x.path \cup {k})) \in Nat
  <2>1. IsFiniteSet(PinnedKeys \ x.path) /\ IsFiniteSet(PinnedKeys \ (x.path \cup {k}))
    BY FS_Difference DEF Bounded
  <2>2. k \in PinnedKeys \ x.path
    BY <1>3 DEF k
  <2>3. PinnedKeys \ (x.path \cup {k}) = (PinnedKeys \ x.path) \ {k}
    OBVIOUS
  <2> QED
    BY <2>1, <2>2, <2>3, FS_RemoveElement, FS_CardinalityType
<1>8. \A c, w, a, l \in Nat : c - 1 \in Nat /\ l <= w => (c - 1) * (w + 1) + l < c * (w + 1) + a
  <2> SUFFICES ASSUME NEW c \in Nat, NEW w \in Nat, NEW a \in Nat, NEW l \in Nat, l <= w
      PROVE  (c - 1) * (w + 1) + l < c * (w + 1) + a
    OBVIOUS
  <2>1. (c - 1) * (w + 1) = c * (w + 1) - (w + 1)
    OBVIOUS
  <2>2. c * (w + 1) \in Int
    OBVIOUS
  <2> QED
    BY <2>1, <2>2
<1>9. /\ Below(W)[y] = Cardinality(PinnedKeys \ (x.path \cup {k})) * (W + 1) + Len(v.extends)
      /\ Below(W)[x] = Cardinality(PinnedKeys \ x.path) * (W + 1) + x.at
  BY <1>6 DEF Below
<1>10. Below(W)[y] < Below(W)[x]
  BY <1>1, <1>2, <1>7, <1>8, <1>9
<1> QED
  BY <1>6, <1>10 DEF k, y

\* A step depends on what is below.
LEMMA StepsAgree ==
  ASSUME NEW W, Bounded(W), NEW x \in Context, NEW f, NEW g,
         \A y \in Context : Below(W)[y] < Below(W)[x] => f[y] = g[y]
  PROVE  Step(f, x) = Step(g, x)
<1>1. CASE x.at = 0
  BY <1>1 DEF Step
<1>2. CASE x.at # 0
  <2> DEFINE p == x.doc.extends[x.at]
             y == [x EXCEPT !.at = @ - 1]
             doc == CHOOSE v \in Found(p) : TRUE
             z == Parents(doc, x.path \cup {KeyOf(p)}, x.without)
  <2>1. f[y] = g[y]
    BY <1>2, OneFewer
  <2>2. KeyOf(p) \notin x.path /\ Found(p) # {} => f[z] = g[z]
    <3> SUFFICES ASSUME KeyOf(p) \notin x.path, Found(p) # {} PROVE f[z] = g[z]
      OBVIOUS
    <3>1. doc \in versions
      <4>1. Found(p) \subseteq versions
        BY DEF Found, RowsOf, VersionsOf
      <4> QED
        BY <4>1
    <3> HIDE DEF doc
    <3> QED
      BY <1>2, <3>1, OneDeeper
  <2>3. Step(f, x) = IF f[y].ends # "ok" \/ Ref(p) \in x.without THEN f[y]
                     ELSE IF KeyOf(p) \in x.path THEN Cycle
                     ELSE IF Found(p) = {} THEN Missing
                     ELSE IF Close(doc, f[z]).ends # "ok" THEN Close(doc, f[z])
                     ELSE Ok(Over(Close(doc, f[z]).slots, f[y].slots))
    BY <1>2 DEF Step
  <2>4. Step(g, x) = IF g[y].ends # "ok" \/ Ref(p) \in x.without THEN g[y]
                     ELSE IF KeyOf(p) \in x.path THEN Cycle
                     ELSE IF Found(p) = {} THEN Missing
                     ELSE IF Close(doc, g[z]).ends # "ok" THEN Close(doc, g[z])
                     ELSE Ok(Over(Close(doc, g[z]).slots, g[y].slots))
    BY <1>2 DEF Step
  <2> HIDE DEF p, y, doc, z
  <2> QED
    BY <2>1, <2>2, <2>3, <2>4
<1> QED
  BY <1>1, <1>2

\* f takes these steps as far as n.
Follows(f, W, n) == \A x \in Context : Below(W)[x] < n => f[x] = Step(f, x)

\* There is such a function for every n, ...
LEMMA SomeFollows ==
  ASSUME NEW W, Bounded(W), NEW n \in Nat
  PROVE  \E f : Follows(f, W, n)
<1> DEFINE N == {k \in Nat : \E f : Follows(f, W, k)}
<1>1. Below(W) \in [Context -> Nat]
  BY BelowIsNat
<1>2. 0 \in N
  <2>1. Follows(<<>>, W, 0)
    BY <1>1 DEF Follows
  <2> QED
    BY <2>1
<1>3. ASSUME NEW k \in N PROVE k + 1 \in N
  <2>1. PICK f : Follows(f, W, k)
    OBVIOUS
  <2> DEFINE g == [x \in Context |-> Step(f, x)]
  <2>2. k \in Nat
    OBVIOUS
  <2>3. \A x \in Context : g[x] = Step(f, x)
    OBVIOUS
  <2> HIDE DEF g, N
  <2>4. ASSUME NEW x \in Context, Below(W)[x] < k + 1 PROVE g[x] = Step(g, x)
    <3>1. ASSUME NEW y \in Context, Below(W)[y] < Below(W)[x] PROVE f[y] = g[y]
      <4>1. Below(W)[y] < k
        BY <1>1, <2>2, <2>4, <3>1
      <4> QED
        BY <2>1, <2>3, <4>1 DEF Follows
    <3>2. Step(f, x) = Step(g, x)
      BY <3>1, StepsAgree
    <3> QED
      BY <2>3, <3>2
  <2>5. Follows(g, W, k + 1)
    BY <2>4 DEF Follows
  <2> QED
    BY <2>2, <2>5 DEF N
<1> HIDE DEF N
<1>4. N = Nat
  <2>1. N \in SUBSET Nat
    BY DEF N
  <2> QED
    BY <1>2, <1>3, <2>1, SetInduction
<1> QED
  BY <1>4 DEF N

\* ... and only one as far as that.
LEMMA OneFollows ==
  ASSUME NEW W, Bounded(W), NEW n \in Nat, NEW f, NEW g, Follows(f, W, n), Follows(g, W, n)
  PROVE  \A x \in Context : Below(W)[x] < n => f[x] = g[x]
<1> DEFINE N == {k \in Nat : k <= n => \A x \in Context : Below(W)[x] < k => f[x] = g[x]}
<1>1. Below(W) \in [Context -> Nat]
  BY BelowIsNat
<1>2. 0 \in N
  BY <1>1
<1>3. ASSUME NEW k \in N PROVE k + 1 \in N
  <2> SUFFICES ASSUME k + 1 <= n, NEW x \in Context, Below(W)[x] < k + 1 PROVE f[x] = g[x]
    OBVIOUS
  <2>1. k \in Nat /\ k <= n /\ \A y \in Context : Below(W)[y] < k => f[y] = g[y]
    OBVIOUS
  <2> HIDE DEF N
  <2>2. ASSUME NEW y \in Context, Below(W)[y] < Below(W)[x] PROVE f[y] = g[y]
    <3>1. Below(W)[y] < k
      BY <1>1, <2>1, <2>2
    <3> QED
      BY <2>1, <3>1
  <2>3. Step(f, x) = Step(g, x)
    BY <2>2, StepsAgree
  <2>4. Below(W)[x] < n
    BY <1>1, <2>1
  <2> QED
    BY <2>3, <2>4 DEF Follows
<1> HIDE DEF N
<1>4. N = Nat
  <2>1. N \in SUBSET Nat
    BY DEF N
  <2> QED
    BY <1>2, <1>3, <2>1, SetInduction
<1>5. n \in N
  BY <1>4
<1> QED
  BY <1>5 DEF N

\* What the parents come to is what its definition says.
LEMMA UnderIs ==
  ASSUME NEW W, Bounded(W)
  PROVE  \A x \in Context : Under[x] = Step(Under, x)
<1> DEFINE F == [x \in Context |-> (CHOOSE f : Follows(f, W, Below(W)[x] + 1))[x]]
<1>1. Below(W) \in [Context -> Nat]
  BY BelowIsNat
<1>2. ASSUME NEW x \in Context
      PROVE  \E f : Follows(f, W, Below(W)[x] + 1) /\ F[x] = f[x]
  <2>1. Below(W)[x] + 1 \in Nat
    BY <1>1
  <2>2. \E f : Follows(f, W, Below(W)[x] + 1)
    BY <2>1, SomeFollows
  <2> QED
    BY <2>2
<1>3. F = [x \in Context |-> F[x]]
  OBVIOUS
<1> HIDE DEF F
<1>4. ASSUME NEW x \in Context PROVE F[x] = Step(F, x)
  <2>1. PICK f : Follows(f, W, Below(W)[x] + 1) /\ F[x] = f[x]
    BY <1>2
  <2>2. Below(W)[x] \in Nat /\ Below(W)[x] < Below(W)[x] + 1
    BY <1>1
  <2>3. F[x] = Step(f, x)
    BY <2>1, <2>2 DEF Follows
  <2>4. ASSUME NEW y \in Context, Below(W)[y] < Below(W)[x] PROVE F[y] = f[y]
    <3>1. PICK g : Follows(g, W, Below(W)[y] + 1) /\ F[y] = g[y]
      BY <1>2
    <3>2. Below(W)[y] \in Nat /\ Below(W)[y] + 1 \in Nat /\ Below(W)[y] < Below(W)[y] + 1
      BY <1>1
    <3>3. \A z \in Context : Below(W)[z] < Below(W)[y] + 1 => Below(W)[z] < Below(W)[x] + 1
      BY <1>1, <2>2, <2>4, <3>2
    <3>4. Follows(f, W, Below(W)[y] + 1)
      BY <2>1, <3>3 DEF Follows
    <3> QED
      BY <3>1, <3>2, <3>4, OneFollows
  <2>5. Step(F, x) = Step(f, x)
    BY <2>4, StepsAgree
  <2> QED
    BY <2>3, <2>5
<1> DEFINE E(h) == h = [x \in Context |-> Step(h, x)]
<1>5. E(F)
  BY <1>3, <1>4
<1>6. E(CHOOSE h : E(h))
  BY <1>5
<1>7. Under = CHOOSE h : E(h)
  BY DEF Under, Step
<1>8. E(Under)
  BY <1>6, <1>7
<1> QED
  BY <1>8

\* A parent is found in one version at most, ...
LEMMA FoundOnce ==
  ASSUME CatalogInv, NEW p, NEW v \in Found(p)
  PROVE  v \in versions /\ Found(p) # {} /\ (CHOOSE x \in Found(p) : TRUE) = v
<1>1. \A x \in Found(p) : x \in PinnedBy(p)
  BY DEF Found, PinnedBy, Readable, Find, GetFrameBySlugName, RowsOf, VersionsOf
<1>2. \A x \in Found(p) : x = v
  BY <1>1, PinnedOnce
<1>3. v \in versions
  BY <1>1 DEF PinnedBy
<1> QED
  BY <1>2, <1>3

\* ... and one of the caller's organization wherever it is pinned.
LEMMA PinnedIsFound ==
  ASSUME NEW p, p.org = call.caller.org, NEW v \in PinnedBy(p)
  PROVE  v \in Found(p)
<1>1. PICK f \in frames : v.frame = f.id /\ f.org = p.org /\ f.name = p.name
  BY DEF PinnedBy
<1>2. v \in versions /\ v.version = p.version
  BY DEF PinnedBy
<1>3. f \in Readable(p.org, p.name)
  BY <1>1 DEF Readable, Find, GetFrameBySlugName, Can, Granted
<1> QED
  BY <1>1, <1>2, <1>3 DEF Found, RowsOf, VersionsOf

\* What one more parent comes to.
LEMMA UnderNext ==
  ASSUME NEW W, Bounded(W), NEW h \in Context, h.at < Len(h.doc.extends)
  PROVE  LET g == [doc |-> h.doc, at |-> h.at + 1, path |-> h.path, without |-> h.without]
             p == h.doc.extends[h.at + 1]
             doc == CHOOSE v \in Found(p) : TRUE
             over == Close(doc, Under[Parents(doc, h.path \cup {KeyOf(p)}, h.without)])
         IN /\ g \in Context
            /\ Under[g] = IF Under[h].ends # "ok" \/ Ref(p) \in h.without THEN Under[h]
                          ELSE IF KeyOf(p) \in h.path THEN Cycle
                          ELSE IF Found(p) = {} THEN Missing
                          ELSE IF over.ends # "ok" THEN over
                          ELSE Ok(Over(over.slots, Under[h].slots))
<1> DEFINE g == [doc |-> h.doc, at |-> h.at + 1, path |-> h.path, without |-> h.without]
           p == h.doc.extends[h.at + 1]
           doc == CHOOSE v \in Found(p) : TRUE
           over == Close(doc, Under[Parents(doc, h.path \cup {KeyOf(p)}, h.without)])
<1>1. /\ h \in [doc : versions, at : Nat, path : SUBSET PinnedKeys, without : SUBSET Named]
      /\ Len(h.doc.extends) \in Nat
  <2>1. h \in [doc : versions, at : Nat, path : SUBSET PinnedKeys, without : SUBSET Named]
    BY DEF Context
  <2> QED
    BY <2>1, ListedFacts DEF Bounded
<1>2. g \in Context
  BY <1>1 DEF Context
<1>3. g.at # 0 /\ [g EXCEPT !.at = @ - 1] = h
  <2>1. g.at = h.at + 1 /\ h.at \in Nat /\ (h.at + 1) - 1 = h.at
    BY <1>1
  <2>2. [g EXCEPT !.at = @ - 1] = [doc |-> h.doc, at |-> (h.at + 1) - 1, path |-> h.path, without |-> h.without]
    OBVIOUS
  <2>3. h = [doc |-> h.doc, at |-> h.at, path |-> h.path, without |-> h.without]
    BY <1>1
  <2> QED
    BY <2>1, <2>2, <2>3
<1>4. Under[g] = Step(Under, g)
  BY <1>2, UnderIs
<1>5. g.doc = h.doc /\ g.at = h.at + 1 /\ g.path = h.path /\ g.without = h.without
  OBVIOUS
<1> HIDE DEF g
<1>6. /\ g.doc.extends[g.at] = p
      /\ Parents(doc, g.path \cup {KeyOf(p)}, g.without) = Parents(doc, h.path \cup {KeyOf(p)}, h.without)
  BY <1>5
<1>7. Step(Under, g) =
        IF Under[h].ends # "ok" \/ Ref(p) \in h.without THEN Under[h]
        ELSE IF KeyOf(p) \in h.path THEN Cycle
        ELSE IF Found(p) = {} THEN Missing
        ELSE IF over.ends # "ok" THEN over
        ELSE Ok(Over(over.slots, Under[h].slots))
  <2> DEFINE q == g.doc.extends[g.at]
             before == Under[[g EXCEPT !.at = @ - 1]]
             low == Close(CHOOSE v \in Found(q) : TRUE,
                          Under[Parents(CHOOSE v \in Found(q) : TRUE, g.path \cup {KeyOf(q)}, g.without)])
  <2>1. Step(Under, g) =
          IF before.ends # "ok" \/ Ref(q) \in g.without THEN before
          ELSE IF KeyOf(q) \in g.path THEN Cycle
          ELSE IF Found(q) = {} THEN Missing
          ELSE IF low.ends # "ok" THEN low
          ELSE Ok(Over(low.slots, before.slots))
    BY <1>3 DEF Step
  <2>2. before = Under[h] /\ q = p
    BY <1>3, <1>6
  <2>3. low = over
    BY <1>5, <2>2
  <2> HIDE DEF low, before, q, over, p
  <2> QED
    BY <1>5, <2>1, <2>2, <2>3
<1> QED
  BY <1>2, <1>4, <1>7 DEF g

\* A failure among the first parents is one of all.
LEMMA FailureStays ==
  ASSUME NEW W, Bounded(W), NEW h \in Context, Under[h].ends # "ok"
  PROVE  Under[[doc |-> h.doc, at |-> Len(h.doc.extends), path |-> h.path, without |-> h.without]] = Under[h]
<1> DEFINE G(n) == [doc |-> h.doc, at |-> n, path |-> h.path, without |-> h.without]
           N == {n \in Nat : h.at + n <= Len(h.doc.extends) => Under[G(h.at + n)] = Under[h]}
<1>1. /\ h \in [doc : versions, at : Nat, path : SUBSET PinnedKeys, without : SUBSET Named]
      /\ Len(h.doc.extends) \in Nat /\ h.at <= Len(h.doc.extends)
  <2>1. h \in [doc : versions, at : Nat, path : SUBSET PinnedKeys, without : SUBSET Named]
        /\ h.at <= Len(h.doc.extends)
    BY DEF Context
  <2> QED
    BY <2>1, ListedFacts DEF Bounded
<1>2. 0 \in N
  <2>1. h.at + 0 = h.at /\ G(h.at) = h
    BY <1>1
  <2> QED
    BY <2>1
<1>3. ASSUME NEW n \in N PROVE n + 1 \in N
  <2> SUFFICES ASSUME h.at + (n + 1) <= Len(h.doc.extends) PROVE Under[G(h.at + (n + 1))] = Under[h]
    OBVIOUS
  <2>1. n \in Nat /\ h.at + n < Len(h.doc.extends) /\ h.at + n \in Nat /\ h.at + (n + 1) = (h.at + n) + 1
    BY <1>1
  <2>2. Under[G(h.at + n)] = Under[h]
    BY <1>1, <2>1
  <2> DEFINE g == G(h.at + n)
  <2>3. g \in Context /\ g.doc = h.doc /\ g.at = h.at + n /\ g.path = h.path /\ g.without = h.without
    BY <1>1, <2>1 DEF Context
  <2>4. Under[g].ends # "ok"
    BY <2>2
  <2> HIDE DEF g, N
  <2>5. Under[[doc |-> g.doc, at |-> g.at + 1, path |-> g.path, without |-> g.without]] = Under[g]
    BY <2>1, <2>3, <2>4, UnderNext
  <2> QED
    BY <2>1, <2>2, <2>3, <2>5 DEF g
<1> HIDE DEF N
<1>4. N = Nat
  <2>1. N \in SUBSET Nat
    BY DEF N
  <2> QED
    BY <1>2, <1>3, <2>1, SetInduction
<1>5. Len(h.doc.extends) - h.at \in N /\ h.at + (Len(h.doc.extends) - h.at) = Len(h.doc.extends)
  BY <1>1, <1>4
<1> QED
  BY <1>1, <1>5 DEF N

-----------------------------------------------------------------------------
(* The levels of a stack s.                                                *)

\* The marks of the parents down to level k.
Marked(s, k) == {s[j].key : j \in 2..k}

\* The first a parents of the document at level k.
Here(s, k, a) == [doc |-> s[k].doc, at |-> a, path |-> Marked(s, k), without |-> s[k].excludes]

\* What is left to do of a document is what is behind the past parents.
Rest(e, past) ==
  /\ e = [key |-> e.key, doc |-> e.doc, todo |-> e.todo, excludes |-> e.excludes]
  /\ Listed(e.todo) /\ past \in Nat /\ past + Len(e.todo) = Len(e.doc.extends)
  /\ \A j \in 1..Len(e.todo) : e.todo[j] = e.doc.extends[past + j]

\* The first a parents of the document at level k have come to m.
Level(s, k, a, m) ==
  Here(s, k, a) \in Context /\ Under[Here(s, k, a)] = Ok(m) /\ Neat(m)

\* The document at the level below is the next parent of this one.
Child(s, k, a) ==
  LET p == s[k].doc.extends[a + 1] IN
  /\ Ref(p) \notin s[k].excludes /\ KeyOf(p) \notin Marked(s, k)
  /\ s[k + 1].key = KeyOf(p) /\ s[k + 1].doc \in Found(p)
  /\ s[k + 1].excludes = s[k].excludes \cup ToSet(s[k + 1].doc.excludes)

\* What was merged is what the levels have come to, put over one another.
Levels(s, at, und, sum) ==
  /\ Listed(s) /\ Len(s) > 0
  /\ s[1].excludes = ToSet(s[1].doc.excludes)
  /\ \A k \in 1..Len(s) :
       /\ Level(s, k, at[k], und[k]) /\ Neat(sum[k])
       /\ sum[k] = IF k = 1 THEN und[k] ELSE mergeInto(sum[k - 1], und[k])
       /\ k = Len(s) => Rest(s[k], at[k])
       /\ k < Len(s) => Rest(s[k], at[k] + 1) /\ Child(s, k, at[k])

\* The documents published.
DocsInv == \A v \in versions : Tidy(v.slots)

\* Up to level n, nothing but what is left to do of it tells t from s.
Alike(s, t, n) == \A k \in 1..n : t[k].key = s[k].key /\ t[k].doc = s[k].doc /\ t[k].excludes = s[k].excludes

\* Nothing else is said of a level than this.
LEMMA AlikeLevels ==
  ASSUME NEW s, NEW t, NEW n \in Nat, Alike(s, t, n)
  PROVE  \A k \in 1..n :
           /\ Marked(t, k) = Marked(s, k)
           /\ \A a : /\ Here(t, k, a) = Here(s, k, a)
                     /\ \A m : Level(s, k, a, m) => Level(t, k, a, m)
                     /\ k < n /\ Child(s, k, a) => Child(t, k, a)
<1>1. ASSUME NEW k \in 1..n PROVE Marked(t, k) = Marked(s, k)
  <2>1. \A j \in 2..k : j \in 1..n
    OBVIOUS
  <2> QED
    BY <2>1 DEF Marked, Alike
<1>2. ASSUME NEW k \in 1..n, NEW a PROVE Here(t, k, a) = Here(s, k, a)
  BY <1>1 DEF Here, Alike
<1>3. ASSUME NEW k \in 1..n, NEW a, NEW m, Level(s, k, a, m) PROVE Level(t, k, a, m)
  BY <1>2, <1>3 DEF Level
<1>4. ASSUME NEW k \in 1..n, NEW a, k < n, Child(s, k, a) PROVE Child(t, k, a)
  <2>1. k + 1 \in 1..n
    BY <1>4
  <2>2. /\ t[k].doc = s[k].doc /\ t[k].excludes = s[k].excludes
        /\ t[k + 1].key = s[k + 1].key /\ t[k + 1].doc = s[k + 1].doc /\ t[k + 1].excludes = s[k + 1].excludes
    BY <2>1 DEF Alike
  <2> QED
    BY <1>1, <1>4, <2>2 DEF Child
<1> QED
  BY <1>1, <1>2, <1>3, <1>4

\* What is left when a parent has been passed.
LEMMA RestPassed ==
  ASSUME NEW e, NEW past, Rest(e, past), e.todo # <<>>
  PROVE  LET x == [e EXCEPT !.todo = Tail(@)] IN
         /\ Rest(x, past + 1) /\ x.key = e.key /\ x.doc = e.doc /\ x.excludes = e.excludes
         /\ Head(e.todo) = e.doc.extends[past + 1] /\ past < Len(e.doc.extends)
<1>1. e = [key |-> e.key, doc |-> e.doc, todo |-> e.todo, excludes |-> e.excludes]
      /\ Listed(e.todo) /\ past \in Nat
      /\ \A j \in 1..Len(e.todo) : e.todo[j] = e.doc.extends[past + j]
  BY DEF Rest
<1>2. e.todo \in Seq(ToSet(e.todo)) /\ Len(e.todo) \in Nat /\ Len(e.todo) > 0
  BY <1>1, ListedFacts
<1>3. [e EXCEPT !.todo = Tail(@)] = [key |-> e.key, doc |-> e.doc, todo |-> Tail(e.todo), excludes |-> e.excludes]
  BY <1>1
<1>4. /\ Listed(Tail(e.todo)) /\ Len(Tail(e.todo)) = Len(e.todo) - 1 /\ Head(e.todo) = e.todo[1]
      /\ \A j \in 1..(Len(e.todo) - 1) : Tail(e.todo)[j] = e.todo[j + 1]
  <2>1. Listed(Tail(e.todo))
    BY <1>1, <1>2, TailListed
  <2> QED
    BY <1>2, <2>1
<1>5. \A j \in 1..(Len(e.todo) - 1) : Tail(e.todo)[j] = e.doc.extends[(past + 1) + j]
  <2>1. \A j \in 1..(Len(e.todo) - 1) : j + 1 \in 1..Len(e.todo) /\ past + (j + 1) = (past + 1) + j
    BY <1>1, <1>2
  <2> QED
    BY <1>1, <1>4, <2>1
<1>6. past + Len(e.todo) = Len(e.doc.extends)
  BY DEF Rest
<1>7. (past + 1) + (Len(e.todo) - 1) = Len(e.doc.extends) /\ past < Len(e.doc.extends) /\ past + 1 \in Nat
  BY <1>1, <1>2, <1>6
<1>8. Head(e.todo) = e.doc.extends[past + 1]
  <2>1. 1 \in 1..Len(e.todo)
    BY <1>2
  <2> QED
    BY <1>1, <1>4, <2>1
<1> DEFINE x == [e EXCEPT !.todo = Tail(@)]
<1>9. /\ x.key = e.key /\ x.doc = e.doc /\ x.todo = Tail(e.todo) /\ x.excludes = e.excludes
      /\ x = [key |-> e.key, doc |-> e.doc, todo |-> Tail(e.todo), excludes |-> e.excludes]
  BY <1>3
<1> HIDE DEF x
<1>10. Rest(x, past + 1)
  BY <1>4, <1>5, <1>7, <1>9 DEF Rest
<1> QED
  BY <1>7, <1>8, <1>9, <1>10 DEF x

-----------------------------------------------------------------------------
(* What a walk has merged.                                                 *)

\* What has been merged on a walk is what its levels have come to.
Reads(w) == \E at, und, sum : Levels(w.stack, at, und, sum) /\ w.acc = sum[Len(w.stack)]

\* Before its first parent a document has come to nothing.
LEMMA NoneYet ==
  ASSUME NEW W, Bounded(W), NEW s, NEW k, s[k].doc \in versions, Marked(s, k) \in SUBSET PinnedKeys,
         s[k].excludes \in SUBSET Named
  PROVE  Level(s, k, 0, Empty)
<1> DEFINE h == [doc |-> s[k].doc, at |-> 0, path |-> Marked(s, k), without |-> s[k].excludes]
<1>1. Len(s[k].doc.extends) \in Nat
  BY ListedFacts DEF Bounded
<1>2. h \in Context /\ h.at = 0
  BY <1>1 DEF Context
<1> HIDE DEF h
<1>3. Under[h] = Ok(Empty)
  BY <1>2, UnderIs DEF Step
<1>4. Here(s, k, 0) = h
  BY DEF Here, h
<1> QED
  BY <1>2, <1>3, <1>4, EmptyNeat DEF Level

\* A published document as it is put on the stack.
LEMMA RestOfAll ==
  ASSUME NEW W, Bounded(W), NEW v \in versions, NEW key, NEW excludes
  PROVE  LET e == Entry(key, v, excludes) IN
         Rest(e, 0) /\ e.key = key /\ e.doc = v /\ e.excludes = excludes \cup ToSet(v.excludes)
<1>1. Listed(v.extends) /\ Len(v.extends) \in Nat
  BY ListedFacts DEF Bounded
<1> DEFINE e == Entry(key, v, excludes)
<1>2. /\ e = [key |-> key, doc |-> v, todo |-> v.extends, excludes |-> excludes \cup ToSet(v.excludes)]
      /\ e.key = key /\ e.doc = v /\ e.todo = v.extends /\ e.excludes = excludes \cup ToSet(v.excludes)
  BY DEF Entry
<1> HIDE DEF e
<1>3. 0 + Len(v.extends) = Len(v.extends) /\ \A j \in 1..Len(v.extends) : 0 + j = j
  BY <1>1
<1> QED
  BY <1>1, <1>2, <1>3 DEF Rest, e

\* Where a walk starts.
LEMMA StartReads ==
  ASSUME NEW W, Bounded(W), NEW doc \in versions
  PROVE  Reads(Start(doc))
<1> DEFINE e == Entry(<<>>, doc, {})
           s == <<e>>
           at == [k \in {1} |-> 0]
           und == [k \in {1} |-> Empty]
<1>1. Rest(e, 0) /\ e.doc = doc /\ e.excludes = ToSet(doc.excludes)
  <2>1. Rest(e, 0) /\ e.key = <<>> /\ e.doc = doc /\ e.excludes = {} \cup ToSet(doc.excludes)
    <3>1. \A key, excludes :
            /\ Rest(Entry(key, doc, excludes), 0)
            /\ Entry(key, doc, excludes).key = key /\ Entry(key, doc, excludes).doc = doc
            /\ Entry(key, doc, excludes).excludes = excludes \cup ToSet(doc.excludes)
      BY RestOfAll
    <3> QED
      BY <3>1
  <2> HIDE DEF e
  <2> QED
    BY <2>1
<1> HIDE DEF e
<1>2. Listed(s) /\ Len(s) = 1 /\ s[1] = e
  <2>1. s \in Seq({e}) /\ Len(s) = 1 /\ s[1] = e
    OBVIOUS
  <2> QED
    BY <2>1, SeqIsListed
<1>3. Start(doc) = [stack |-> s, acc |-> Empty]
  BY DEF Start, e
<1> HIDE DEF s
<1>4. Level(s, 1, 0, Empty)
  <2>1. Marked(s, 1) = {}
    BY DEF Marked
  <2>2. ToSet(doc.excludes) \in SUBSET Named
    BY DEF Named
  <2> QED
    BY <1>1, <1>2, <2>1, <2>2, NoneYet
<1>5. at[1] = 0 /\ und[1] = Empty
  OBVIOUS
<1> HIDE DEF at, und
<1>6. Levels(s, at, und, und)
  <2>1. \A k \in 1..1 : k = 1
    OBVIOUS
  <2> QED
    BY <1>1, <1>2, <1>4, <1>5, <2>1, EmptyNeat DEF Levels
<1> DEFINE w == [stack |-> s, acc |-> Empty]
<1>7. w.stack = s /\ w.acc = Empty /\ Start(doc) = w
  BY <1>3
<1> HIDE DEF w
<1> QED
  BY <1>2, <1>5, <1>6, <1>7 DEF Reads

\* A parent is left out.
LEMMA SkipReads ==
  ASSUME NEW W, Bounded(W), NEW s, NEW at, NEW und, NEW sum, Levels(s, at, und, sum),
         Last(s).todo # <<>>, Ref(Head(Last(s).todo)) \in Last(s).excludes
  PROVE  LET t == Front(s) \o <<[Last(s) EXCEPT !.todo = Tail(@)]>> IN
         Len(t) = Len(s) /\ t[1].doc = s[1].doc /\ \E to : Levels(t, to, und, sum)
<1> DEFINE n == Len(s)
           x == [Last(s) EXCEPT !.todo = Tail(@)]
           t == Front(s) \o <<x>>
           to == [k \in 1..n |-> IF k = n THEN at[n] + 1 ELSE at[k]]
<1>1. Listed(s) /\ n \in Nat /\ n > 0 /\ n \in 1..n /\ Last(s) = s[n]
  <2>1. Listed(s) /\ Len(s) > 0
    BY DEF Levels
  <2> QED
    BY <2>1, ListedFacts DEF Last
<1>2. /\ s[1].excludes = ToSet(s[1].doc.excludes)
      /\ \A k \in 1..n :
           /\ Level(s, k, at[k], und[k]) /\ Neat(sum[k])
           /\ sum[k] = IF k = 1 THEN und[k] ELSE mergeInto(sum[k - 1], und[k])
           /\ k = n => Rest(s[k], at[k])
           /\ k < n => Rest(s[k], at[k] + 1) /\ Child(s, k, at[k])
  BY DEF Levels
<1>3. /\ Rest(x, at[n] + 1) /\ x.key = s[n].key /\ x.doc = s[n].doc /\ x.excludes = s[n].excludes
      /\ Head(s[n].todo) = s[n].doc.extends[at[n] + 1] /\ at[n] < Len(s[n].doc.extends)
  BY <1>1, <1>2, RestPassed
<1> HIDE DEF x
<1>4. /\ Listed(t) /\ Len(t) = n /\ t[n] = x
      /\ \A k \in 1..n : k < n => t[k] = s[k]
  BY <1>1, LastReplaced
<1> HIDE DEF t
<1>5. Alike(s, t, n)
  <2>1. ASSUME NEW k \in 1..n PROVE t[k].key = s[k].key /\ t[k].doc = s[k].doc /\ t[k].excludes = s[k].excludes
    <3>1. CASE k = n
      BY <1>3, <1>4, <3>1
    <3>2. CASE k < n
      BY <1>4, <3>2
    <3> QED
      BY <1>1, <3>1, <3>2
  <2> QED
    BY <2>1 DEF Alike
<1>6. \A k \in 1..n : \A a :
        (\A m : Level(s, k, a, m) => Level(t, k, a, m)) /\ (k < n /\ Child(s, k, a) => Child(t, k, a))
  BY <1>1, <1>5, AlikeLevels
<1>7. Level(t, n, at[n] + 1, und[n])
  <2> DEFINE h == Here(s, n, at[n])
  <2>1. /\ h.doc = s[n].doc /\ h.at = at[n] /\ h.without = s[n].excludes
        /\ Here(s, n, at[n] + 1) = [doc |-> h.doc, at |-> h.at + 1, path |-> h.path, without |-> h.without]
    BY DEF Here
  <2>2. h \in Context /\ Under[h] = Ok(und[n]) /\ Neat(und[n])
    BY <1>1, <1>2 DEF Level
  <2> HIDE DEF h
  <2>3. Here(s, n, at[n] + 1) \in Context /\ Under[Here(s, n, at[n] + 1)] = Under[h]
    BY <1>1, <1>3, <2>1, <2>2, UnderNext
  <2>4. Level(s, n, at[n] + 1, und[n])
    BY <2>2, <2>3 DEF Level
  <2> QED
    BY <1>1, <1>6, <2>4
<1>8. \A k \in 1..n : to[k] = IF k = n THEN at[n] + 1 ELSE at[k]
  OBVIOUS
<1> HIDE DEF to
<1>9. ASSUME NEW k \in 1..n
      PROVE  /\ Level(t, k, to[k], und[k])
             /\ k = n => Rest(t[k], to[k])
             /\ k < n => Rest(t[k], to[k] + 1) /\ Child(t, k, to[k])
  <2>1. CASE k = n
    BY <1>1, <1>3, <1>4, <1>7, <1>8, <2>1
  <2>2. CASE k < n
    <3>1. to[k] = at[k] /\ t[k] = s[k]
      BY <1>1, <1>4, <1>8, <2>2
    <3> QED
      BY <1>1, <1>2, <1>6, <2>2, <3>1
  <2> QED
    BY <1>1, <2>1, <2>2
<1>10. t[1].excludes = s[1].excludes /\ t[1].doc = s[1].doc
  <2>1. 1 \in 1..n
    BY <1>1
  <2> QED
    BY <1>5, <2>1 DEF Alike
<1>11. Levels(t, to, und, sum)
  BY <1>1, <1>2, <1>4, <1>9, <1>10 DEF Levels
<1> QED
  BY <1>4, <1>10, <1>11 DEF t, x

\* The marks of one level more.
LEMMA OneMark ==
  ASSUME NEW s, NEW n \in Nat, n > 0
  PROVE  Marked(s, n + 1) = Marked(s, n) \cup {s[n + 1].key}
<1>1. \A j \in 2..(n + 1) : j \in 2..n \/ j = n + 1
  OBVIOUS
<1>2. n + 1 \in 2..(n + 1) /\ \A j \in 2..n : j \in 2..(n + 1)
  OBVIOUS
<1> QED
  BY <1>1, <1>2 DEF Marked

\* A parent is put on the stack.
LEMMA DescendReads ==
  ASSUME NEW W, Bounded(W), NEW s, NEW at, NEW und, NEW sum, Levels(s, at, und, sum),
         Last(s).todo # <<>>, Ref(Head(Last(s).todo)) \notin Last(s).excludes,
         KeyOf(Head(Last(s).todo)) \notin Marked(s, Len(s)),
         NEW v \in versions, v \in Found(Head(Last(s).todo))
  PROVE  LET t == Append(Front(s) \o <<[Last(s) EXCEPT !.todo = Tail(@)]>>,
                         Entry(KeyOf(Head(Last(s).todo)), v, Last(s).excludes))
         IN /\ t[1].doc = s[1].doc
            /\ \E to, under, total : Levels(t, to, under, total) /\ total[Len(t)] = sum[Len(s)]
<1> DEFINE n == Len(s)
           p == Head(Last(s).todo)
           x == [Last(s) EXCEPT !.todo = Tail(@)]
           e == Entry(KeyOf(p), v, Last(s).excludes)
           passed == Front(s) \o <<x>>
           t == Append(passed, e)
           to == [k \in 1..(n + 1) |-> IF k = n + 1 THEN 0 ELSE at[k]]
           under == [k \in 1..(n + 1) |-> IF k = n + 1 THEN Empty ELSE und[k]]
           total == [k \in 1..(n + 1) |-> IF k = n + 1 THEN sum[n] ELSE sum[k]]
<1>1. Listed(s) /\ n \in Nat /\ n > 0 /\ n \in 1..n /\ Last(s) = s[n]
  <2>1. Listed(s) /\ Len(s) > 0
    BY DEF Levels
  <2> QED
    BY <2>1, ListedFacts DEF Last
<1>2. /\ s[1].excludes = ToSet(s[1].doc.excludes)
      /\ \A k \in 1..n :
           /\ Level(s, k, at[k], und[k]) /\ Neat(sum[k])
           /\ sum[k] = IF k = 1 THEN und[k] ELSE mergeInto(sum[k - 1], und[k])
           /\ k = n => Rest(s[k], at[k])
           /\ k < n => Rest(s[k], at[k] + 1) /\ Child(s, k, at[k])
  BY DEF Levels
<1>3. /\ Rest(x, at[n] + 1) /\ x.key = s[n].key /\ x.doc = s[n].doc /\ x.excludes = s[n].excludes
      /\ p = s[n].doc.extends[at[n] + 1] /\ at[n] < Len(s[n].doc.extends)
  <2>1. x = [s[n] EXCEPT !.todo = Tail(@)] /\ p = Head(s[n].todo)
    BY <1>1
  <2>2. Rest(s[n], at[n]) /\ s[n].todo # <<>>
    BY <1>1, <1>2
  <2> QED
    BY <2>1, <2>2, RestPassed
<1>4. Rest(e, 0) /\ e.key = KeyOf(p) /\ e.doc = v /\ e.excludes = s[n].excludes \cup ToSet(v.excludes)
  <2>1. \A key, excludes :
            /\ Rest(Entry(key, v, excludes), 0)
            /\ Entry(key, v, excludes).key = key /\ Entry(key, v, excludes).doc = v
            /\ Entry(key, v, excludes).excludes = excludes \cup ToSet(v.excludes)
    BY RestOfAll
  <2> QED
    BY <1>1, <2>1
<1>5. Ref(p) \notin s[n].excludes /\ KeyOf(p) \notin Marked(s, n) /\ v \in Found(p)
  BY <1>1
<1> HIDE DEF x, e, p
<1>6. /\ Listed(passed) /\ Len(passed) = n /\ passed[n] = x
      /\ \A k \in 1..n : k < n => passed[k] = s[k]
  BY <1>1, LastReplaced
<1> HIDE DEF passed
<1>7. /\ Listed(t) /\ Len(t) = n + 1 /\ t[n + 1] = e
      /\ \A k \in 1..n : t[k] = passed[k]
  BY <1>6, OneAppended
<1> HIDE DEF t
<1>8. Alike(s, t, n)
  <2>1. ASSUME NEW k \in 1..n PROVE t[k].key = s[k].key /\ t[k].doc = s[k].doc /\ t[k].excludes = s[k].excludes
    <3>1. CASE k = n
      BY <1>3, <1>6, <1>7, <3>1
    <3>2. CASE k < n
      BY <1>6, <1>7, <3>2
    <3> QED
      BY <1>1, <3>1, <3>2
  <2> QED
    BY <2>1 DEF Alike
<1>9. \A k \in 1..n : Marked(t, k) = Marked(s, k) /\ \A a :
        (\A m : Level(s, k, a, m) => Level(t, k, a, m)) /\ (k < n /\ Child(s, k, a) => Child(t, k, a))
  BY <1>1, <1>8, AlikeLevels
<1>10. Child(t, n, at[n])
  <2>1. t[n].doc = s[n].doc /\ t[n].excludes = s[n].excludes /\ Marked(t, n) = Marked(s, n)
    BY <1>1, <1>8, <1>9 DEF Alike
  <2> QED
    BY <1>3, <1>4, <1>5, <1>7, <2>1 DEF Child
<1>11. Level(t, n + 1, 0, Empty)
  <2>1. Here(s, n, at[n]) \in [doc : versions, at : Nat, path : SUBSET PinnedKeys, without : SUBSET Named]
    BY <1>1, <1>2 DEF Level, Context
  <2>2. s[n].doc \in versions /\ at[n] \in Nat /\ Marked(s, n) \in SUBSET PinnedKeys /\ s[n].excludes \in SUBSET Named
    BY <2>1 DEF Here
  <2>3. Marked(t, n + 1) = Marked(s, n) \cup {KeyOf(p)}
    BY <1>1, <1>4, <1>7, <1>9, OneMark
  <2>4. KeyOf(p) \in PinnedKeys
    <3>1. Listed(s[n].doc.extends)
      BY <2>2 DEF Bounded
    <3>2. Len(s[n].doc.extends) \in Nat
          /\ \A i \in 1..Len(s[n].doc.extends) : s[n].doc.extends[i] \in ToSet(s[n].doc.extends)
      BY <3>1, ListedFacts
    <3>3. at[n] + 1 \in 1..Len(s[n].doc.extends)
      BY <1>3, <2>2, <3>2
    <3>4. p \in ToSet(s[n].doc.extends)
      BY <1>3, <3>2, <3>3
    <3> QED
      BY <2>2, <3>4 DEF PinnedKeys
  <2>5. ToSet(v.excludes) \in SUBSET Named
    BY DEF Named
  <2> QED
    BY <1>4, <1>7, <2>2, <2>3, <2>4, <2>5, NoneYet
<1>12. \A k \in 1..(n + 1) :
         IF k = n + 1 THEN to[k] = 0 /\ under[k] = Empty /\ total[k] = sum[n]
         ELSE to[k] = at[k] /\ under[k] = und[k] /\ total[k] = sum[k]
  OBVIOUS
<1> HIDE DEF to, under, total
<1>13. ASSUME NEW k \in 1..(n + 1)
       PROVE  /\ Level(t, k, to[k], under[k]) /\ Neat(total[k])
              /\ total[k] = IF k = 1 THEN under[k] ELSE mergeInto(total[k - 1], under[k])
              /\ k = n + 1 => Rest(t[k], to[k])
              /\ k < n + 1 => Rest(t[k], to[k] + 1) /\ Child(t, k, to[k])
  <2>1. CASE k = n + 1
    <3>1. k # 1 /\ k - 1 = n /\ n \in 1..(n + 1) /\ n # n + 1
      BY <1>1, <2>1
    <3>2. total[k] = sum[n] /\ total[k - 1] = sum[n] /\ under[k] = Empty /\ to[k] = 0
      BY <1>12, <2>1, <3>1
    <3>3. Neat(sum[n]) /\ mergeInto(sum[n], Empty) = sum[n]
      BY <1>1, <1>2, MergeEmpty
    <3>4. Level(t, k, to[k], under[k]) /\ Neat(total[k])
      BY <1>11, <2>1, <3>2, <3>3
    <3>5. Rest(t[k], to[k]) /\ ~(k < n + 1)
      BY <1>1, <1>4, <1>7, <2>1, <3>2
    <3>6. total[k] = mergeInto(total[k - 1], under[k])
      BY <3>2, <3>3
    <3> QED
      BY <3>1, <3>4, <3>5, <3>6
  <2>2. CASE k \in 1..n
    <3>1. to[k] = at[k] /\ under[k] = und[k] /\ total[k] = sum[k] /\ k # n + 1
      BY <1>1, <1>12, <2>2
    <3>2. k # 1 => total[k - 1] = sum[k - 1]
      <4>1. k # 1 => k - 1 \in 1..(n + 1) /\ k - 1 # n + 1
        BY <1>1, <2>2
      <4> QED
        BY <1>12, <4>1
    <3>3. total[k] = IF k = 1 THEN under[k] ELSE mergeInto(total[k - 1], under[k])
      BY <1>2, <2>2, <3>1, <3>2
    <3>4. Rest(t[k], at[k] + 1) /\ Child(t, k, at[k])
      <4>1. CASE k = n
        BY <1>1, <1>3, <1>6, <1>7, <1>10, <4>1
      <4>2. CASE k < n
        BY <1>2, <1>6, <1>7, <1>9, <2>2, <4>2
      <4> QED
        BY <1>1, <2>2, <4>1, <4>2
    <3> QED
      BY <1>2, <1>9, <2>2, <3>1, <3>3, <3>4
  <2> QED
    BY <1>1, <2>1, <2>2
<1>14. t[1].excludes = s[1].excludes /\ t[1].doc = s[1].doc
  <2>1. 1 \in 1..n
    BY <1>1
  <2> QED
    BY <1>8, <2>1 DEF Alike
<1>15. Levels(t, to, under, total)
  BY <1>1, <1>2, <1>7, <1>13, <1>14 DEF Levels
<1>16. total[Len(t)] = sum[n]
  BY <1>1, <1>7, <1>12
<1> QED
  BY <1>14, <1>15, <1>16 DEF t, passed, x, e, p

\* Nothing is left to do of a level whose parents are all passed.
LEMMA AllPassed ==
  ASSUME NEW e, NEW past, Rest(e, past), e.todo = <<>>
  PROVE  past = Len(e.doc.extends)
<1>1. past \in Nat /\ past + Len(e.todo) = Len(e.doc.extends) /\ Len(e.todo) = 0
  BY DEF Rest
<1> QED
  BY <1>1

\* A document put over what its parents have come to.
LEMMA Closed ==
  ASSUME NEW m, Neat(m), NEW doc, Tidy(doc.slots)
  PROVE  /\ Close(doc, Ok(m)) = Ok(mergeInto(m, doc.slots)) /\ Neat(mergeInto(m, doc.slots))
         /\ Ok(m).ends = "ok" /\ Ok(m).slots = m
<1>1. Ok(m).ends = "ok" /\ Ok(m).slots = m
  BY DEF Ok
<1>2. Over(doc.slots, m) = mergeInto(m, doc.slots) /\ Neat(mergeInto(m, doc.slots))
  BY OverMerges, MergeNeat DEF Neat
<1> QED
  BY <1>1, <1>2 DEF Close

\* What a level comes to, its parents done, is what the next parent of the level
\* above does.
LEMMA LevelDone ==
  ASSUME CatalogInv, NEW W, Bounded(W), NEW s, NEW at, NEW und, NEW sum, Levels(s, at, und, sum),
         NEW k \in Nat, k > 0, k < Len(s)
  PROVE  LET h == Here(s, k, at[k])
             done == Under[Here(s, k + 1, Len(s[k + 1].doc.extends))]
             over == Close(s[k + 1].doc, done)
         IN /\ Here(s, k, at[k] + 1) \in Context
            /\ over.ends # "ok" => Under[Here(s, k, at[k] + 1)] = over
            /\ over.ends = "ok" => Under[Here(s, k, at[k] + 1)] = Ok(Over(over.slots, und[k]))
<1> DEFINE h == Here(s, k, at[k])
           p == s[k].doc.extends[at[k] + 1]
           d == s[k + 1].doc
           over == Close(d, Under[Here(s, k + 1, Len(d.extends))])
<1>1. k \in 1..Len(s)
  <2>1. Len(s) \in Nat
    BY ListedFacts DEF Levels
  <2> QED
    BY <2>1
<1>2. h \in Context /\ Under[h] = Ok(und[k]) /\ Rest(s[k], at[k] + 1) /\ Child(s, k, at[k])
  BY <1>1 DEF Levels, Level
<1>3. /\ h.doc = s[k].doc /\ h.at = at[k] /\ h.path = Marked(s, k) /\ h.without = s[k].excludes
      /\ Here(s, k, at[k] + 1) = [doc |-> h.doc, at |-> h.at + 1, path |-> h.path, without |-> h.without]
  BY DEF Here
<1>4. Ok(und[k]).ends = "ok" /\ Ok(und[k]).slots = und[k]
  BY DEF Ok
<1>5. /\ Ref(p) \notin h.without /\ KeyOf(p) \notin h.path /\ d \in Found(p)
      /\ s[k + 1].key = KeyOf(p) /\ s[k + 1].excludes = s[k].excludes \cup ToSet(d.excludes)
  BY <1>2, <1>3 DEF Child
<1>6. Found(p) # {} /\ (CHOOSE v \in Found(p) : TRUE) = d
  BY <1>5, FoundOnce
<1>7. Here(s, k + 1, Len(d.extends)) = Parents(d, h.path \cup {KeyOf(p)}, h.without)
  <2>1. Marked(s, k + 1) = h.path \cup {KeyOf(p)}
    BY <1>3, <1>5, OneMark
  <2> QED
    BY <1>3, <1>5, <2>1 DEF Here, Parents
<1>8. at[k] \in Nat /\ at[k] < Len(s[k].doc.extends)
  <2>1. at[k] \in Nat
    BY <1>2, <1>3 DEF Context
  <2>2. Len(s[k].todo) \in Nat /\ (at[k] + 1) + Len(s[k].todo) = Len(s[k].doc.extends)
    BY <1>2, ListedFacts DEF Rest
  <2> QED
    BY <2>1, <2>2
<1> HIDE DEF h
<1>9. h.doc.extends[h.at + 1] = p /\ h.at < Len(h.doc.extends)
  BY <1>3, <1>8
<1> HIDE DEF p, d
<1>10. /\ Here(s, k, at[k] + 1) \in Context
       /\ Under[Here(s, k, at[k] + 1)] =
            IF Under[h].ends # "ok" \/ Ref(p) \in h.without THEN Under[h]
            ELSE IF KeyOf(p) \in h.path THEN Cycle
            ELSE IF Found(p) = {} THEN Missing
            ELSE IF over.ends # "ok" THEN over
            ELSE Ok(Over(over.slots, Under[h].slots))
  <2> DEFINE low == Close(CHOOSE v \in Found(p) : TRUE,
                          Under[Parents(CHOOSE v \in Found(p) : TRUE, h.path \cup {KeyOf(p)}, h.without)])
             g == [doc |-> h.doc, at |-> h.at + 1, path |-> h.path, without |-> h.without]
  <2>1. /\ g \in Context
        /\ Under[g] = IF Under[h].ends # "ok" \/ Ref(p) \in h.without THEN Under[h]
                      ELSE IF KeyOf(p) \in h.path THEN Cycle
                      ELSE IF Found(p) = {} THEN Missing
                      ELSE IF low.ends # "ok" THEN low
                      ELSE Ok(Over(low.slots, Under[h].slots))
    BY <1>2, <1>9, UnderNext
  <2>2. low = over
    BY <1>6, <1>7
  <2> HIDE DEF low, over
  <2> QED
    BY <1>3, <2>1, <2>2
<1> HIDE DEF over
<1> QED
  BY <1>2, <1>4, <1>5, <1>6, <1>10 DEF h, d, over

\* A document is done, and merged.
LEMMA MergeReads ==
  ASSUME CatalogInv, DocsInv, NEW W, Bounded(W), NEW s, NEW at, NEW und, NEW sum, Levels(s, at, und, sum),
         Last(s).todo = <<>>, Len(s) > 1
  PROVE  LET t == Front(s) IN
         /\ t[1].doc = s[1].doc
         /\ \E to, under, total :
              Levels(t, to, under, total) /\ total[Len(t)] = mergeInto(sum[Len(s)], Last(s).doc.slots)
<1> DEFINE n == Len(s)
           m == n - 1
           t == Front(s)
           d == s[n].doc
           more == mergeInto(und[n], d.slots)
           to == [k \in 1..m |-> IF k = m THEN at[m] + 1 ELSE at[k]]
           under == [k \in 1..m |-> IF k = m THEN mergeInto(und[m], more) ELSE und[k]]
           total == [k \in 1..m |-> IF k = m THEN mergeInto(sum[n], d.slots) ELSE sum[k]]
<1>1. /\ Listed(s) /\ n \in Nat /\ n \in 1..n /\ Last(s) = s[n]
      /\ m \in Nat /\ m > 0 /\ m < n /\ m \in 1..n /\ m \in 1..m /\ m + 1 = n /\ n # 1
  <2>1. Listed(s) /\ Len(s) > 0
    BY DEF Levels
  <2>2. Len(s) \in Nat
    BY <2>1, ListedFacts
  <2> QED
    BY <2>1, <2>2 DEF Last
<1>2. /\ s[1].excludes = ToSet(s[1].doc.excludes)
      /\ \A k \in 1..n :
           /\ Level(s, k, at[k], und[k]) /\ Neat(sum[k])
           /\ sum[k] = IF k = 1 THEN und[k] ELSE mergeInto(sum[k - 1], und[k])
           /\ k = n => Rest(s[k], at[k])
           /\ k < n => Rest(s[k], at[k] + 1) /\ Child(s, k, at[k])
  BY DEF Levels
<1>3. Listed(t) /\ Len(t) = m /\ \A k \in 1..m : t[k] = s[k]
  <2>1. Len(s) > 0
    BY <1>1
  <2> QED
    BY <1>1, <2>1, LastTaken
<1>4. at[n] = Len(d.extends)
  BY <1>1, <1>2, AllPassed
<1>5. Under[Here(s, n, Len(d.extends))] = Ok(und[n]) /\ Neat(und[n]) /\ Neat(und[m]) /\ d \in versions
  <2>1. Level(s, n, at[n], und[n]) /\ Level(s, m, at[m], und[m])
    BY <1>1, <1>2
  <2>2. Here(s, n, at[n]).doc \in versions /\ Here(s, n, at[n]).doc = d
    BY <2>1 DEF Level, Context, Here
  <2> QED
    BY <1>4, <2>1, <2>2 DEF Level
<1>6. Tidy(d.slots)
  BY <1>5 DEF DocsInv
<1>7. /\ Close(d, Ok(und[n])) = Ok(more) /\ Neat(more) /\ Ok(more).ends = "ok" /\ Ok(more).slots = more
  <2>1. Close(d, Ok(und[n])) = Ok(more) /\ Neat(more)
    BY <1>5, <1>6, Closed
  <2> QED
    BY <2>1 DEF Ok
<1> HIDE DEF d, t
<1>8. Level(s, m, at[m] + 1, mergeInto(und[m], more))
  <2>1. /\ Here(s, m, at[m] + 1) \in Context
        /\ Under[Here(s, m, at[m] + 1)] = Ok(Over(more, und[m]))
    <3>1. LET over == Close(s[m + 1].doc, Under[Here(s, m + 1, Len(s[m + 1].doc.extends))])
          IN /\ Here(s, m, at[m] + 1) \in Context
             /\ over.ends = "ok" => Under[Here(s, m, at[m] + 1)] = Ok(Over(over.slots, und[m]))
      BY <1>1, LevelDone
    <3>2. Close(s[m + 1].doc, Under[Here(s, m + 1, Len(s[m + 1].doc.extends))]) = Ok(more)
      BY <1>1, <1>5, <1>7 DEF d
    <3> QED
      BY <1>7, <3>1, <3>2
  <2>2. Over(more, und[m]) = mergeInto(und[m], more) /\ Neat(mergeInto(und[m], more))
    BY <1>5, <1>7, OverMerges, MergeNeat DEF Neat
  <2> QED
    BY <2>1, <2>2 DEF Level
<1>9. Alike(s, t, m)
  BY <1>3 DEF Alike
<1>10. \A k \in 1..m : \A a :
        (\A x : Level(s, k, a, x) => Level(t, k, a, x)) /\ (k < m /\ Child(s, k, a) => Child(t, k, a))
  BY <1>1, <1>9, AlikeLevels
<1>11. /\ sum[n] = mergeInto(sum[m], und[n]) /\ Neat(sum[n]) /\ Neat(sum[m])
  <2>1. Neat(sum[m]) /\ Neat(sum[n]) /\ sum[n] = mergeInto(sum[n - 1], und[n])
    BY <1>1, <1>2
  <2> QED
    BY <2>1
<1>12. mergeInto(sum[n], d.slots) = mergeInto(sum[m], more)
  BY <1>5, <1>6, <1>11, MergingAssociates DEF Neat
<1>13. Neat(mergeInto(sum[n], d.slots))
  BY <1>6, <1>11, MergeNeat DEF Neat
<1>14. mergeInto(sum[n], d.slots) =
         IF m = 1 THEN mergeInto(und[m], more) ELSE mergeInto(sum[m - 1], mergeInto(und[m], more))
  <2>1. CASE m = 1
    <3>1. sum[m] = und[m]
      BY <1>1, <1>2, <2>1
    <3> QED
      BY <1>12, <2>1, <3>1
  <2>2. CASE m # 1
    <3>1. sum[m] = mergeInto(sum[m - 1], und[m]) /\ m - 1 \in 1..n
      <4>1. m - 1 \in 1..n
        BY <1>1, <2>2
      <4>2. sum[m] = IF m = 1 THEN und[m] ELSE mergeInto(sum[m - 1], und[m])
        BY <1>1, <1>2
      <4> QED
        BY <2>2, <4>1, <4>2
    <3>2. Neat(sum[m - 1])
      BY <1>2, <3>1
    <3>3. mergeInto(mergeInto(sum[m - 1], und[m]), more) = mergeInto(sum[m - 1], mergeInto(und[m], more))
      BY <1>5, <1>7, <3>2, MergingAssociates DEF Neat
    <3> QED
      BY <1>12, <2>2, <3>1, <3>3
  <2> QED
    BY <2>1, <2>2
<1> HIDE DEF more
<1>15. \A k \in 1..m :
         IF k = m THEN to[k] = at[m] + 1 /\ under[k] = mergeInto(und[m], more)
                       /\ total[k] = mergeInto(sum[n], d.slots)
         ELSE to[k] = at[k] /\ under[k] = und[k] /\ total[k] = sum[k]
  OBVIOUS
<1> HIDE DEF to, under, total
<1>16. ASSUME NEW k \in 1..m
       PROVE  /\ Level(t, k, to[k], under[k]) /\ Neat(total[k])
              /\ total[k] = IF k = 1 THEN under[k] ELSE mergeInto(total[k - 1], under[k])
              /\ k = m => Rest(t[k], to[k])
              /\ k < m => Rest(t[k], to[k] + 1) /\ Child(t, k, to[k])
  <2>1. k \in 1..n /\ t[k] = s[k] /\ k < n /\ (k # m => k < m)
    BY <1>1, <1>3
  <2>2. k # 1 => total[k - 1] = sum[k - 1]
    <3>1. \A j \in Nat : \A i \in 1..j : i # 1 => i - 1 \in 1..j /\ i - 1 # j
      OBVIOUS
    <3>2. k # 1 => k - 1 \in 1..m /\ k - 1 # m
      <4> HIDE DEF m
      <4> QED
        BY <1>1, <3>1
    <3> QED
      BY <1>15, <3>2
  <2>3. CASE k = m
    <3>1. to[k] = at[m] + 1 /\ under[k] = mergeInto(und[m], more) /\ total[k] = mergeInto(sum[n], d.slots)
      BY <1>15, <2>3
    <3>2. Level(t, k, to[k], under[k]) /\ Neat(total[k])
      BY <1>8, <1>10, <1>13, <2>3, <3>1
    <3>3. total[k] = IF k = 1 THEN under[k] ELSE mergeInto(total[k - 1], under[k])
      BY <1>14, <2>2, <2>3, <3>1
    <3>4. Rest(t[k], to[k]) /\ ~(k < m)
      <4>1. Rest(s[k], at[k] + 1)
        BY <1>2, <2>1
      <4> QED
        BY <1>1, <2>1, <2>3, <3>1, <4>1
    <3> QED
      BY <3>2, <3>3, <3>4
  <2>4. CASE k # m
    <3>1. to[k] = at[k] /\ under[k] = und[k] /\ total[k] = sum[k]
      BY <1>15, <2>4
    <3> QED
      BY <1>2, <1>10, <2>1, <2>2, <2>4, <3>1
  <2> QED
    BY <2>3, <2>4
<1>17. t[1].excludes = s[1].excludes /\ t[1].doc = s[1].doc
  <2>1. 1 \in 1..m
    BY <1>1
  <2> QED
    BY <1>3, <2>1
<1>18. Levels(t, to, under, total)
  BY <1>1, <1>2, <1>3, <1>16, <1>17 DEF Levels
<1>19. total[Len(t)] = mergeInto(sum[n], d.slots)
  BY <1>1, <1>3, <1>15
<1> QED
  BY <1>1, <1>17, <1>18, <1>19 DEF t, d

\* A version of a frame of the caller's organization.
Mine(doc) == doc \in versions /\ \E f \in frames : f.id = doc.frame /\ f.org = call.caller.org

\* A step of a walk keeps what has been merged what its levels have come to.
LEMMA MovesRead ==
  ASSUME CatalogInv, DocsInv, NEW W, Bounded(W), NEW w, NEW u, Reads(w), Mine(Head(w.stack).doc), Moves(w, u)
  PROVE  Reads(u) /\ Head(u.stack).doc = Head(w.stack).doc
<1> DEFINE s == w.stack
           top == Last(s)
           p == Head(top.todo)
           passed == Front(s) \o <<[top EXCEPT !.todo = Tail(@)]>>
<1>1. PICK at, und, sum : Levels(s, at, und, sum) /\ w.acc = sum[Len(s)]
  BY DEF Reads
<1>2. Listed(s) /\ Len(s) > 0 /\ Head(s) = s[1] /\ Len(s) \in Nat
  BY <1>1, HeadIsFirst, ListedFacts DEF Levels
<1>3. ASSUME NEW t, NEW to, NEW under, NEW total, Levels(t, to, under, total),
             u.stack = t, u.acc = total[Len(t)], t[1].doc = s[1].doc
      PROVE  Reads(u) /\ Head(u.stack).doc = Head(w.stack).doc
  <2>1. Reads(u)
    BY <1>3 DEF Reads
  <2>2. Head(t) = t[1]
    BY <1>3, HeadIsFirst DEF Levels
  <2> QED
    BY <1>2, <1>3, <2>1, <2>2
<1>4. CASE top.todo # <<>> /\ Ref(p) \in top.excludes
  <2>1. u = [stack |-> passed, acc |-> w.acc]
    BY <1>4 DEF Moves, Ref
  <2>2. u.stack = passed /\ u.acc = sum[Len(s)]
    BY <1>1, <2>1
  <2>3. Len(passed) = Len(s) /\ passed[1].doc = s[1].doc /\ \E to : Levels(passed, to, und, sum)
    BY <1>1, <1>4, SkipReads
  <2> HIDE DEF passed
  <2> QED
    BY <1>3, <2>2, <2>3
<1>5. CASE top.todo # <<>> /\ Ref(p) \notin top.excludes
  <2>1. /\ KeyOf(p) \notin Marked(s, Len(s)) /\ OwnedAlike(p, Head(s).doc)
        /\ \E v \in PinnedBy(p) : u = [stack |-> Append(passed, Entry(KeyOf(p), v, top.excludes)), acc |-> w.acc]
    BY <1>5 DEF Moves, Ref, KeyOf, Marked
  <2>2. PICK v \in PinnedBy(p) : u = [stack |-> Append(passed, Entry(KeyOf(p), v, top.excludes)), acc |-> w.acc]
    BY <2>1
  <2>3. v \in versions
    BY DEF PinnedBy
  <2>4. p.org = call.caller.org
    BY <2>1 DEF OwnedAlike, Mine, CatalogInv
  <2>5. v \in Found(p)
    BY <2>4, PinnedIsFound
  <2> DEFINE t == Append(passed, Entry(KeyOf(p), v, top.excludes))
  <2>6. u.stack = t /\ u.acc = sum[Len(s)]
    BY <1>1, <2>2
  <2>7. t[1].doc = s[1].doc
        /\ \E to, under, total : Levels(t, to, under, total) /\ total[Len(t)] = sum[Len(s)]
    <3>1. /\ Levels(s, at, und, sum) /\ Last(s).todo # <<>> /\ Ref(Head(Last(s).todo)) \notin Last(s).excludes
          /\ KeyOf(Head(Last(s).todo)) \notin Marked(s, Len(s))
          /\ v \in versions /\ v \in Found(Head(Last(s).todo))
      BY <1>1, <1>5, <2>1, <2>3, <2>5
    <3> HIDE DEF s
    <3> QED
      BY <3>1, DescendReads
  <2> HIDE DEF t
  <2> QED
    BY <1>3, <2>6, <2>7
<1>6. CASE top.todo = <<>>
  <2> DEFINE t == Front(s)
  <2>1. Len(s) > 1 /\ u = [stack |-> t, acc |-> mergeInto(w.acc, top.doc.slots)]
    BY <1>6 DEF Moves
  <2>2. u.stack = t /\ u.acc = mergeInto(sum[Len(s)], top.doc.slots)
    BY <1>1, <2>1
  <2>3. t[1].doc = s[1].doc
        /\ \E to, under, total :
             Levels(t, to, under, total) /\ total[Len(t)] = mergeInto(sum[Len(s)], top.doc.slots)
    BY <1>1, <1>6, <2>1, MergeReads
  <2> HIDE DEF t
  <2> QED
    BY <1>3, <2>2, <2>3
<1> QED
  BY <1>4, <1>5, <1>6

\* So does every walk.
LEMMA WalkReads ==
  ASSUME CatalogInv, DocsInv, NEW W, Bounded(W), NEW doc, Mine(doc), NEW n \in Nat, NEW tr, IsWalk(tr, n, doc)
  PROVE  Reads(tr[n])
<1> DEFINE N == {k \in Nat : k <= n => Reads(tr[k]) /\ Head(tr[k].stack).doc = doc}
<1>1. 0 \in N
  <2>1. tr[0] = Start(doc)
    BY DEF IsWalk
  <2>2. Reads(Start(doc))
    BY StartReads DEF Mine
  <2>3. Head(Start(doc).stack).doc = doc
    BY DEF Start, Entry
  <2> QED
    BY <2>1, <2>2, <2>3
<1>2. ASSUME NEW k \in N PROVE k + 1 \in N
  <2> SUFFICES ASSUME k + 1 <= n PROVE Reads(tr[k + 1]) /\ Head(tr[k + 1].stack).doc = doc
    OBVIOUS
  <2>1. k \in Nat /\ k < n /\ Reads(tr[k]) /\ Head(tr[k].stack).doc = doc
    OBVIOUS
  <2>2. Moves(tr[k], tr[k + 1])
    BY <2>1 DEF IsWalk
  <2> QED
    BY <2>1, <2>2, MovesRead
<1> HIDE DEF N
<1>3. N = Nat
  <2>1. N \in SUBSET Nat
    BY DEF N
  <2> QED
    BY <1>1, <1>2, <2>1, SetInduction
<1> QED
  BY <1>3 DEF N

\* A failure on top is one of the root.
LEMMA FailsUp ==
  ASSUME CatalogInv, NEW W, Bounded(W), NEW s, NEW at, NEW und, NEW sum, Levels(s, at, und, sum),
         NEW o, o.ends # "ok", Here(s, Len(s), at[Len(s)] + 1) \in Context,
         Under[Here(s, Len(s), at[Len(s)] + 1)] = o
  PROVE  Resolution(s[1].doc) = o
<1> DEFINE n == Len(s)
           F(k) == Here(s, k, at[k] + 1) \in Context /\ Under[Here(s, k, at[k] + 1)] = o
           All(k) == Under[Here(s, k, Len(s[k].doc.extends))]
           N == {j \in Nat : j < n => F(n - j)}
<1>1. n \in Nat /\ n > 0
  BY ListedFacts DEF Levels
<1>2. ASSUME NEW k, F(k) PROVE All(k) = o /\ Close(s[k].doc, All(k)) = o
  <2> DEFINE h == Here(s, k, at[k] + 1)
  <2>1. h.doc = s[k].doc /\ h.path = Marked(s, k) /\ h.without = s[k].excludes
    BY DEF Here
  <2>2. h \in Context /\ Under[h] = o
    BY <1>2
  <2>3. Here(s, k, Len(s[k].doc.extends)) =
          [doc |-> h.doc, at |-> Len(h.doc.extends), path |-> h.path, without |-> h.without]
    BY <2>1 DEF Here
  <2> HIDE DEF h
  <2>4. All(k) = o
    BY <2>2, <2>3, FailureStays
  <2> QED
    BY <2>4 DEF Close
<1>3. 0 \in N
  <2>1. n - 0 = n
    BY <1>1
  <2> QED
    BY <2>1
<1>4. ASSUME NEW j \in N PROVE j + 1 \in N
  <2> SUFFICES ASSUME j + 1 < n PROVE F(n - (j + 1))
    OBVIOUS
  <2> DEFINE k == n - (j + 1)
  <2>1. j \in Nat /\ F(n - j) /\ k \in Nat /\ k > 0 /\ k < n /\ n - j = k + 1
    BY <1>1
  <2> HIDE DEF N, k
  <2>2. Close(s[k + 1].doc, All(k + 1)) = o
    BY <1>2, <2>1
  <2>3. LET over == Close(s[k + 1].doc, All(k + 1))
        IN /\ Here(s, k, at[k] + 1) \in Context
           /\ over.ends # "ok" => Under[Here(s, k, at[k] + 1)] = over
    BY <2>1, LevelDone
  <2>4. F(k)
    BY <2>2, <2>3
  <2> QED
    BY <2>4 DEF k
<1>5. F(1)
  <2> HIDE DEF N
  <2>1. N = Nat
    <3>1. N \in SUBSET Nat
      BY DEF N
    <3> QED
      BY <1>3, <1>4, <3>1, SetInduction
  <2>2. n - 1 \in N /\ n - 1 < n /\ n - (n - 1) = 1
    BY <1>1, <2>1
  <2> QED
    BY <2>2 DEF N
<1>6. Close(s[1].doc, All(1)) = o
  BY <1>2, <1>5
<1>7. Here(s, 1, Len(s[1].doc.extends)) = Parents(s[1].doc, {}, {})
  <2>1. Marked(s, 1) = {}
    BY DEF Marked
  <2>2. s[1].excludes = {} \cup ToSet(s[1].doc.excludes)
    BY DEF Levels
  <2> QED
    BY <2>1, <2>2 DEF Here, Parents
<1> QED
  BY <1>6, <1>7 DEF Resolution

\* A root whose parents are done resolves to the document over what was merged.
LEMMA RootDone ==
  ASSUME DocsInv, NEW s, NEW at, NEW und, NEW sum, Levels(s, at, und, sum), Len(s) = 1, Last(s).todo = <<>>
  PROVE  Resolution(s[1].doc) = Ok(mergeInto(sum[1], s[1].doc.slots))
<1>1. Last(s) = s[1] /\ 1 \in 1..Len(s)
  BY DEF Last
<1>2. Level(s, 1, at[1], und[1]) /\ sum[1] = und[1] /\ Rest(s[1], at[1]) /\ s[1].excludes = ToSet(s[1].doc.excludes)
  BY <1>1 DEF Levels
<1>3. at[1] = Len(s[1].doc.extends)
  BY <1>1, <1>2, AllPassed
<1>4. Here(s, 1, at[1]) = Parents(s[1].doc, {}, {})
  <2>1. Marked(s, 1) = {}
    BY DEF Marked
  <2>2. s[1].excludes = {} \cup ToSet(s[1].doc.excludes)
    BY <1>2
  <2> QED
    BY <1>3, <2>1, <2>2 DEF Here, Parents
<1>5. Tidy(s[1].doc.slots)
  <2>1. Here(s, 1, at[1]).doc \in versions /\ Here(s, 1, at[1]).doc = s[1].doc
    BY <1>2 DEF Level, Context, Here
  <2> QED
    BY <2>1 DEF DocsInv
<1>6. Under[Parents(s[1].doc, {}, {})] = Ok(und[1]) /\ Neat(und[1])
  BY <1>2, <1>4 DEF Level
<1> QED
  BY <1>2, <1>5, <1>6, Closed DEF Resolution

-----------------------------------------------------------------------------
(* The catalog is finite, and what the reader holds is up to date.         *)

\* The catalog is finite: a bound there is for what documents list.
BoundInv == DocsInv /\ \E W : Bounded(W)

\* A publication lists a finite number of parents, and defines a term once.
LEMMA PublicationTidy ==
  ASSUME NEW p \in Publication
  PROVE  /\ Listed(p.extends) /\ Listed(p.excludes) /\ Len(p.extends) \in Nat
         /\ IsFiniteSet({KeyOf(x) : x \in ToSet(p.extends)})
         /\ Tidy(Slots(p))
<1>1. Listed(p.extends) /\ Listed(p.excludes) /\ Listed(p.terms) /\ Listed(p.rules)
      /\ \A i, j \in DOMAIN p.terms : p.terms[i] = p.terms[j] => i = j
  BY ResolverAssumption
<1>2. IsFiniteSet({KeyOf(x) : x \in ToSet(p.extends)})
  <2> DEFINE n == Len(p.extends)
             T == {KeyOf(x) : x \in ToSet(p.extends)}
             f == [i \in 1..n |-> KeyOf(p.extends[i])]
  <2>1. n \in Nat /\ (\A i \in 1..n : p.extends[i] \in ToSet(p.extends))
        /\ \A x \in ToSet(p.extends) : \E i \in 1..n : p.extends[i] = x
    BY <1>1, ListedFacts
  <2>2. f \in [1..n -> T] /\ \A t \in T : \E i \in 1..n : f[i] = t
    BY <2>1
  <2>3. f \in Surjection(1..n, T)
    BY <2>2 DEF Surjection
  <2>4. IsFiniteSet(1..n)
    BY <2>1, FS_Interval
  <2> HIDE DEF f, T
  <2>5. IsFiniteSet(T)
    BY <2>3, <2>4, FS_Surjection
  <2> QED
    BY <2>5 DEF T
<1>3. Tidy(Slots(p))
  <2> DEFINE here == [name |-> p.name, version |-> p.version, by |-> p.by]
             terms == [i \in DOMAIN p.terms |-> [term |-> p.terms[i], from |-> here]]
             S == Slots(p)
  <2>1. S.terms = terms /\ S.rules = p.rules /\ S = [terms |-> S.terms, rules |-> S.rules, goals |-> S.goals]
    BY DEF Slots
  <2>2. DOMAIN p.terms = 1..Len(p.terms) /\ Len(p.terms) \in Nat
    BY <1>1, ListedFacts
  <2>3. Listed(S.terms)
    BY SlotsSay DEF SlotsOf
  <2>4. DOMAIN terms = 1..Len(p.terms) /\ \A i \in 1..Len(p.terms) : terms[i].term = p.terms[i]
    BY <2>2
  <2> HIDE DEF S, terms, here
  <2>5. DOMAIN S.terms = 1..Len(S.terms) /\ Len(S.terms) \in Nat
    BY <2>3, ListedFacts
  <2>6. Len(S.terms) = Len(p.terms)
    <3>1. \A n, m \in Nat : 1..n = 1..m => n = m
      OBVIOUS
    <3> QED
      BY <2>1, <2>2, <2>4, <2>5, <3>1
  <2>7. Keys(S.terms) = [i \in 1..Len(p.terms) |-> S.terms[i].term]
    BY <2>5, <2>6 DEF Keys
  <2>8. /\ DOMAIN Keys(S.terms) = 1..Len(p.terms)
        /\ \A i \in 1..Len(p.terms) : Keys(S.terms)[i] = p.terms[i]
    BY <2>1, <2>4, <2>7
  <2>9. Len(Keys(S.terms)) = Len(p.terms)
    BY <2>2, <2>7
  <2>10. Distinct(Keys(S.terms))
    BY <1>1, <2>2, <2>8, <2>9 DEF Distinct
  <2>11. Tidy(S)
    BY <1>1, <2>1, <2>3, <2>10 DEF Tidy
  <2> QED
    BY <2>11 DEF S
<1> QED
  BY <1>1, <1>2, <1>3, ListedFacts

\* A publish adds one document.
LEMMA OneMoreBounded ==
  ASSUME BoundInv, NEW p \in Publication, NEW id, versions' = versions \cup {Written(p, id)}
  PROVE  BoundInv'
<1> DEFINE v == Written(p, id)
<1>1. v.extends = p.extends /\ v.excludes = p.excludes /\ v.slots = Slots(p)
  BY DEF Written
<1> HIDE DEF v
<1>2. versions' = versions \cup {v}
  BY DEF v
<1>3. /\ Listed(p.extends) /\ Listed(p.excludes) /\ Len(p.extends) \in Nat
      /\ IsFiniteSet({KeyOf(x) : x \in ToSet(p.extends)})
      /\ Tidy(Slots(p))
  BY PublicationTidy
<1>4. DocsInv'
  BY <1>1, <1>2, <1>3 DEF BoundInv, DocsInv
<1>5. PICK W : Bounded(W)
  BY DEF BoundInv
<1> DEFINE U == IF Len(p.extends) <= W THEN W ELSE Len(p.extends)
<1>6. U \in Nat /\ W <= U /\ Len(p.extends) <= U /\ W \in Nat
  BY <1>3, <1>5 DEF Bounded
<1> HIDE DEF U
<1>7. IsFiniteSet(PinnedKeys')
  <2>1. PinnedKeys' = PinnedKeys \cup {KeyOf(x) : x \in ToSet(p.extends)}
    BY <1>1, <1>2 DEF PinnedKeys
  <2> QED
    BY <1>3, <1>5, <2>1, FS_Union DEF Bounded
<1>8. \A d \in versions' : Listed(d.extends) /\ Listed(d.excludes) /\ Len(d.extends) <= U
  <2>1. ASSUME NEW d \in versions PROVE Listed(d.extends) /\ Listed(d.excludes) /\ Len(d.extends) <= U
    <3>1. Listed(d.extends) /\ Listed(d.excludes) /\ Len(d.extends) <= W
      BY <1>5 DEF Bounded
    <3>2. Len(d.extends) \in Nat
      BY <3>1, ListedFacts
    <3> QED
      BY <1>6, <3>1, <3>2
  <2> QED
    BY <1>1, <1>2, <1>3, <1>6, <2>1
<1>9. Bounded(U)'
  BY <1>6, <1>7, <1>8 DEF Bounded
<1> QED
  BY <1>4, <1>9 DEF BoundInv

\* Every step leaves the catalog finite.
LEMMA BoundStep ==
  ASSUME IInv, BoundInv, [NextReader]_vars
  PROVE  BoundInv'
<1>1. CASE Publish
  <2>1. PICK p \in Publication :
           \/ \E id : id \notin HeldIds /\ Create(NewFrame(p, id), Written(p, id))
           \/ \E f \in frames : f.name = p.name /\ Advance(f, Written(p, f.id))
    BY <1>1, Published
  <2>2. \E id : versions' = versions \cup {Written(p, id)}
    BY <2>1 DEF Create, Advance
  <2> QED
    BY <2>2, OneMoreBounded
<1>2. ASSUME versions' \subseteq versions PROVE BoundInv'
  <2>1. PICK W : Bounded(W)
    BY DEF BoundInv
  <2>2. IsFiniteSet(PinnedKeys')
    <3>1. PinnedKeys' \in SUBSET PinnedKeys
      BY <1>2 DEF PinnedKeys
    <3> QED
      BY <2>1, <3>1, FS_Subset DEF Bounded
  <2>3. Bounded(W)'
    BY <1>2, <2>1, <2>2 DEF Bounded
  <2> QED
    BY <1>2, <2>3 DEF BoundInv, DocsInv
<1>3. ~Publish => versions' \subseteq versions
  BY DeleteKeepsCatalog DEF NextReader, IInv, Receive, ReaderStep, vars, catalog
<1> QED
  BY <1>1, <1>2, <1>3

\* There is nothing to begin with.
LEMMA InitBounded ==
  ASSUME InitReader
  PROVE  BoundInv
<1>1. PinnedKeys = {}
  BY DEF InitReader, PinnedKeys
<1>2. Bounded(0)
  BY <1>1, FS_EmptySet DEF Bounded, InitReader
<1> QED
  BY <1>2 DEF BoundInv, DocsInv, InitReader

\* The version of a frame that is asked for.
Wanted(f) == IF call.version = NoVersion THEN f.latest ELSE call.version

\* As long as nothing happens, what the reader holds is what a query would find.
FreshInv ==
  since = "nothing" =>
    /\ pc = "version" => frame = Readable(call.org, call.name)
    /\ pc \in Walking => \E f \in Readable(call.org, call.name) : Root \in RowsOf(f, Wanted(f))
    /\ pc = "parent" => frame = Readable(Parent.org, Parent.name)

\* Whatever happens, it is noted.
LEMMA FreshStep ==
  ASSUME IInv, FreshInv, [NextReader]_vars
  PROVE  FreshInv'
<1>1. CASE Publish \/ Delete
  <2>1. since' = "nothing" => pc' \notin {"version"} \cup Walking
    BY <1>1 DEF Publish, Delete, Changed, FirstStep, Walking, local
  <2> QED
    BY <2>1 DEF FreshInv, Walking
<1>2. CASE Receive \/ StoreError
  BY <1>2 DEF Receive, StoreError, Fail, Finish, Goto, FirstStep, Walking, FreshInv
<1>3. CASE UNCHANGED vars
  BY <1>3 DEF vars, local, catalog, FreshInv, Readable, Find, Can, RowsOf, Root, Wanted, Parent, Top
<1>4. CASE ReaderStep
  <2>1. UNCHANGED frames /\ UNCHANGED versions /\ UNCHANGED since
    BY <1>4 DEF ReaderStep, catalog
  <2>2. UNCHANGED call => /\ \A org, name : Readable(org, name)' = Readable(org, name)
                          /\ \A f : Wanted(f)' = Wanted(f)
                          /\ \A f, x : RowsOf(f, x)' = RowsOf(f, x)
    BY <2>1 DEF Readable, Find, Can, RowsOf, Wanted
  <2> SUFFICES ASSUME since = "nothing"
      PROVE  /\ pc' = "version" => frame' = Readable(call.org, call.name)'
             /\ pc' \in Walking => \E f \in Readable(call.org, call.name)' : Root' \in RowsOf(f, Wanted(f))'
             /\ pc' = "parent" => frame' = Readable(Parent.org, Parent.name)'
    BY <2>1 DEF FreshInv
  <2>3. CASE GetFrame
    <3>1. pc' # "idle" => pc' = "version" /\ frame' = Readable(call.org, call.name) /\ UNCHANGED call
      BY <2>3 DEF GetFrame, Fail, Finish, Goto, Keep
    <3>2. pc' \in {"idle", "version"}
      BY <2>3 DEF GetFrame, Fail, Finish, Goto
    <3> QED
      BY <2>2, <3>1, <3>2 DEF Walking
  <2>4. CASE GetFrameVersion
    <3>1. pc' \in {"idle", "walk"}
      BY <2>4 DEF GetFrameVersion, Fail, Finish, Goto
    <3>2. pc' = "walk" => \E f \in frame : \E v \in RowsOf(f, Wanted(f)) :
                            stack' = <<Entry(<<>>, v, {})>> /\ UNCHANGED call
      BY <2>4 DEF GetFrameVersion, Fail, Finish, Goto, Keep, Wanted
    <3>3. frame = Readable(call.org, call.name)
      BY <2>4 DEF GetFrameVersion, FreshInv
    <3>4. \A v : stack' = <<Entry(<<>>, v, {})>> => Root' = v
      BY DEF Root, Entry
    <3> QED
      BY <2>2, <3>1, <3>2, <3>3, <3>4 DEF Walking
  <2>5. CASE FetchParent
    <3>1. pc' \in {"idle", "parent"} /\ pc \in Walking
      BY <2>5 DEF FetchParent, Unfetched, Fail, Finish, Goto, Walking
    <3>2. pc' = "parent" => frame' = Readable(Parent.org, Parent.name) /\ UNCHANGED <<call, stack>>
      BY <2>5 DEF FetchParent, Unfetched, Fail, Finish, Goto, Keep
    <3>3. UNCHANGED stack => Root' = Root /\ Parent' = Parent
      BY DEF Root, Parent, Top
    <3>4. \E f \in Readable(call.org, call.name) : Root \in RowsOf(f, Wanted(f))
      BY <3>1 DEF FreshInv
    <3> QED
      BY <2>2, <3>1, <3>2, <3>3, <3>4 DEF Walking
  <2>6. CASE SkipParent \/ FetchParentVersion \/ Merge
    <3>1. pc' \in {"idle", "walk"} /\ pc \in Walking /\ (pc' = "walk" => UNCHANGED call)
      BY <2>6 DEF SkipParent, FetchParentVersion, Merge, Unfetched, Fail, Finish, Goto, Keep, Walking
    <3>2. pc' = "walk" => Root' = Root
      BY <2>6, <3>1, RootStays
    <3>3. \E f \in Readable(call.org, call.name) : Root \in RowsOf(f, Wanted(f))
      BY <3>1 DEF FreshInv
    <3> QED
      BY <2>2, <3>1, <3>2, <3>3 DEF Walking
  <2>7. CASE ListFramesByOrg \/ CheckRead \/ ListRead \/ CheckEdit \/ CheckDelete \/ ListFrameVersions \/ FindCycle
    <3>1. pc' \notin {"version"} \cup Walking
      BY <2>7 DEF ListFramesByOrg, CheckRead, ListRead, CheckEdit, CheckDelete, ListFrameVersions, FindCycle,
                  Fail, Finish, Goto, Walking
    <3> QED
      BY <3>1 DEF Walking
  <2> QED
    BY <1>4, <2>3, <2>4, <2>5, <2>6, <2>7 DEF ReaderStep, ReaderCall
<1> QED
  BY <1>1, <1>2, <1>3, <1>4 DEF NextReader

-----------------------------------------------------------------------------
(* How a resolve ends.                                                     *)

\* While nothing is deleted, what has been merged is what the levels of the stack
\* have come to.
LEMMA WalkMeans ==
  ASSUME IInv, RootInv, WalkInv, BoundInv, pc \in Walking, since # "delete"
  PROVE  \E at, und, sum : Levels(stack, at, und, sum) /\ acc = sum[Len(stack)]
<1>1. PICK n \in Nat : \E tr : OnWalk(n, tr)
  BY DEF WalkInv
<1>2. PICK tr : OnWalk(n, tr)
  BY <1>1
<1>3. PICK W : Bounded(W)
  BY DEF BoundInv
<1>4. Mine(Root)
  BY DEF RootInv, Mine
<1>5. IsWalk(tr, n, Root) /\ tr[n].stack = stack /\ tr[n].acc = acc
  BY <1>2 DEF OnWalk
<1>6. Reads(tr[n])
  BY <1>3, <1>4, <1>5, WalkReads DEF IInv, BoundInv
<1> QED
  BY <1>5, <1>6 DEF Reads

\* The next parent fails, and so does the root.
LEMMA TopFails ==
  ASSUME IInv, RootInv, WalkInv, BoundInv, pc \in Walking, since # "delete", Top.todo # <<>>, ~Excluded(Parent)
  PROVE  /\ Key \in visiting => Resolution(Root) = Cycle
         /\ Key \notin visiting /\ Found(Parent) = {} => Resolution(Root) = Missing
<1> DEFINE n == Len(stack)
<1>1. PICK W : Bounded(W)
  BY DEF BoundInv
<1>2. PICK at, und, sum : Levels(stack, at, und, sum) /\ acc = sum[Len(stack)]
  BY WalkMeans
<1>3. n \in Nat /\ n > 0 /\ n \in 1..n /\ Top = stack[n] /\ Root = stack[1].doc
  BY TopFacts
<1>4. Level(stack, n, at[n], und[n]) /\ Rest(Top, at[n])
  BY <1>2, <1>3 DEF Levels
<1> DEFINE h == Here(stack, n, at[n])
           p == Parent
<1>5. /\ h.doc = Top.doc /\ h.at = at[n] /\ h.path = Marked(stack, n) /\ h.without = Top.excludes
      /\ Here(stack, n, at[n] + 1) = [doc |-> h.doc, at |-> h.at + 1, path |-> h.path, without |-> h.without]
  BY <1>3 DEF Here
<1>6. h \in Context /\ Under[h] = Ok(und[n]) /\ Ok(und[n]).ends = "ok"
  BY <1>4 DEF Level, Ok
<1>7. p = Top.doc.extends[at[n] + 1] /\ at[n] < Len(Top.doc.extends)
  BY <1>4, RestPassed DEF Parent
<1>8. visiting = Marked(stack, n) /\ Key = KeyOf(p) /\ Ref(p) \notin Top.excludes
  BY DEF IInv, Marks, Marked, Key, KeyOf, Ref, Excluded
<1> HIDE DEF h, p
<1>9. h.doc.extends[h.at + 1] = p /\ h.at < Len(h.doc.extends)
  BY <1>5, <1>7
<1> DEFINE g == [doc |-> h.doc, at |-> h.at + 1, path |-> h.path, without |-> h.without]
           low == Close(CHOOSE v \in Found(p) : TRUE,
                        Under[Parents(CHOOSE v \in Found(p) : TRUE, h.path \cup {KeyOf(p)}, h.without)])
<1>10. /\ g \in Context
       /\ Under[g] = IF Under[h].ends # "ok" \/ Ref(p) \in h.without THEN Under[h]
                     ELSE IF KeyOf(p) \in h.path THEN Cycle
                     ELSE IF Found(p) = {} THEN Missing
                     ELSE IF low.ends # "ok" THEN low
                     ELSE Ok(Over(low.slots, Under[h].slots))
  BY <1>1, <1>6, <1>9, UnderNext
<1> HIDE DEF low
<1>11. Here(stack, n, at[n] + 1) = g
  BY <1>5
<1> HIDE DEF g
<1>12. ASSUME NEW o, Under[g] = o, o.ends # "ok" PROVE Resolution(Root) = o
  BY <1>1, <1>2, <1>3, <1>10, <1>11, <1>12, FailsUp DEF IInv
<1>13. Key \in visiting => Under[g] = Cycle
  BY <1>5, <1>6, <1>8, <1>10
<1>14. Key \notin visiting /\ Found(p) = {} => Under[g] = Missing
  BY <1>5, <1>6, <1>8, <1>10
<1>15. Cycle.ends # "ok" /\ Missing.ends # "ok"
  BY DEF Cycle, Missing
<1> QED
  BY <1>12, <1>13, <1>14, <1>15 DEF p

\* What a request is answered, where its frame has the version.
LEMMA AnswerIs ==
  ASSUME CatalogInv
  PROVE  /\ \A f \in Readable(call.org, call.name) :
              \A v \in RowsOf(f, Wanted(f)) : Answer = Resolution(v)
         /\ (\A f \in Readable(call.org, call.name) : RowsOf(f, Wanted(f)) = {}) => Answer = Missing
<1> DEFINE found == UNION {RowsOf(f, Wanted(f)) : f \in Readable(call.org, call.name)}
<1>1. Answer = IF found = {} THEN Missing ELSE Resolution(CHOOSE v \in found : TRUE)
  BY DEF Answer, Wanted
<1>2. \A f, g \in Readable(call.org, call.name) : f = g
  BY DEF Readable, Find, GetFrameBySlugName, CatalogInv
<1>3. \A f, v, w : v \in RowsOf(f, Wanted(f)) /\ w \in RowsOf(f, Wanted(f)) => v = w
  BY DEF RowsOf, VersionsOf, CatalogInv
<1>4. ASSUME NEW f \in Readable(call.org, call.name), NEW v, v \in RowsOf(f, Wanted(f))
      PROVE  Answer = Resolution(v)
  <2>1. v \in found /\ \A w \in found : w = v
    BY <1>2, <1>3, <1>4
  <2> HIDE DEF found
  <2>2. (CHOOSE w \in found : TRUE) = v
    BY <2>1
  <2> QED
    BY <1>1, <2>1, <2>2
<1>5. ASSUME \A f \in Readable(call.org, call.name) : RowsOf(f, Wanted(f)) = {} PROVE Answer = Missing
  <2>1. found = {}
    BY <1>5
  <2> QED
    BY <1>1, <2>1
<1> QED
  BY <1>4, <1>5

\* The ways a resolve ends.
NoFrame == pc = "get" /\ Readable(call.org, call.name) = {} /\ reply' = "not_found"
NoVersionOf(f) == pc = "version" /\ RowsOf(f, Wanted(f)) = {} /\ reply' = "not_found"
AtParent == pc \in Walking /\ Top.todo # <<>> /\ ~Excluded(Parent)
CycleFound == AtParent /\ Key \in visiting /\ reply' = "failed_precondition"
NoParent == AtParent /\ Key \notin visiting /\ reply' = "not_found" /\ (since = "nothing" => Found(Parent) = {})
RootMerged ==
  /\ pc \in Walking /\ Top.todo = <<>> /\ Len(stack) = 1 /\ reply' = "ok"
  /\ acc' = mergeInto(acc, Top.doc.slots)

\* There are no others.
LEMMA ResolveEndsBy ==
  ASSUME IInv, FreshInv, [NextReader]_vars, Resolved
  PROVE  \/ NoFrame \/ (\E f \in frame : NoVersionOf(f))
         \/ CycleFound \/ NoParent \/ RootMerged
<1>1. CASE Publish \/ Delete \/ UNCHANGED vars
  BY <1>1 DEF Publish, Delete, vars, local, Resolved
<1>2. CASE Receive \/ StoreError
  BY <1>2 DEF Receive, StoreError, Fail, Finish, Resolved
<1>3. CASE ReaderStep
  <2>1. ~(ListFramesByOrg \/ CheckRead \/ ListRead \/ CheckEdit \/ CheckDelete \/ ListFrameVersions)
    BY DEF ListFramesByOrg, CheckRead, ListRead, CheckEdit, CheckDelete, ListFrameVersions, Resolved
  <2>2. CASE GetFrame
    BY <2>2 DEF GetFrame, Fail, Finish, Goto, Resolved, NoFrame
  <2>3. CASE GetFrameVersion
    BY <2>3 DEF GetFrameVersion, Fail, Finish, Goto, Resolved, NoVersionOf, Wanted
  <2>4. CASE SkipParent
    BY <2>4 DEF SkipParent, Goto, Resolved
  <2>5. CASE FindCycle
    BY <2>5 DEF FindCycle, Fail, Finish, CycleFound, AtParent, Walking
  <2>6. CASE FetchParent
    <3>1. pc = "walk" /\ AtParent /\ Key \notin visiting /\ Readable(Parent.org, Parent.name) = {} /\ reply' = "not_found"
      BY <2>6 DEF FetchParent, Unfetched, Fail, Finish, Goto, Resolved, AtParent, Walking
    <3>2. Found(Parent) = {}
      BY <3>1 DEF Found
    <3> QED
      BY <3>1, <3>2 DEF NoParent
  <2>7. CASE FetchParentVersion
    <3>1. PICK f \in frame : pc = "parent" /\ RowsOf(f, Parent.version) = {} /\ reply' = "not_found"
      BY <2>7 DEF FetchParentVersion, Unfetched, Fail, Finish, Goto, Resolved, Pinned
    <3>2. AtParent /\ Key \notin visiting
      BY <3>1 DEF IInv, ParentInv, AtParent, Walking
    <3>3. ASSUME since = "nothing" PROVE Found(Parent) = {}
      <4>1. frame = Readable(Parent.org, Parent.name)
        BY <3>1, <3>3 DEF FreshInv
      <4>2. \A g \in frame : g = f
        BY <4>1 DEF IInv, CatalogInv, Readable, Find, GetFrameBySlugName
      <4>3. \A g \in frame : RowsOf(g, Parent.version) = {}
        BY <3>1, <4>2
      <4> QED
        BY <4>1, <4>3 DEF Found
    <3> QED
      BY <3>1, <3>2, <3>3 DEF NoParent
  <2>8. CASE Merge
    BY <2>8 DEF Merge, Finish, Goto, Resolved, RootMerged, Walking
  <2> QED
    BY <1>3, <2>1, <2>2, <2>3, <2>4, <2>5, <2>6, <2>7, <2>8 DEF ReaderStep, ReaderCall
<1> QED
  BY <1>1, <1>2, <1>3 DEF NextReader

\* A reader comes to what the definition says: a document resolved with one
\* accumulator, a stack and marks is its parents resolved each for itself and
\* merged, and it fails where that fails.
THEOREM DefinitionMet == SpecReader => ResolvedByDefinition
<1> DEFINE Met ==
      Resolved =>
        /\ since = "nothing" =>
             /\ reply' = Answer.ends
             /\ reply' = "ok" => acc' = Answer.slots
        /\ since = "publish" =>
             /\ reply' = "ok" => Ok(acc') = Resolution(Root)
             /\ reply' = "failed_precondition" => Resolution(Root) = Cycle
           Inv == IInv /\ RootInv /\ WalkInv /\ BoundInv /\ FreshInv
<1>1. Inv /\ [NextReader]_vars => [Met]_vars
  <2> SUFFICES ASSUME IInv, RootInv, WalkInv, BoundInv, FreshInv, [NextReader]_vars, Resolved
      PROVE  /\ since = "nothing" =>
                  /\ reply' = Answer.ends
                  /\ reply' = "ok" => acc' = Answer.slots
             /\ since = "publish" =>
                  /\ reply' = "ok" => Ok(acc') = Resolution(Root)
                  /\ reply' = "failed_precondition" => Resolution(Root) = Cycle
    OBVIOUS
  <2>1. /\ Missing.ends = "not_found" /\ Cycle.ends = "failed_precondition"
        /\ \A m : Ok(m).ends = "ok" /\ Ok(m).slots = m
    BY DEF Missing, Cycle, Ok
  <2>2. CatalogInv
    BY DEF IInv
  <2>3. CASE NoFrame
    <3>1. reply' = "not_found" /\ Answer = Missing
      BY <2>2, <2>3, AnswerIs DEF NoFrame
    <3> QED
      BY <2>1, <3>1
  <2>4. ASSUME NEW f \in frame, NoVersionOf(f)
        PROVE  reply' = "not_found" /\ (since = "nothing" => Answer = Missing)
    <3>1. pc = "version" /\ RowsOf(f, Wanted(f)) = {} /\ reply' = "not_found"
      BY <2>4 DEF NoVersionOf
    <3>2. ASSUME since = "nothing" PROVE Answer = Missing
      <4>1. frame = Readable(call.org, call.name)
        BY <3>1, <3>2 DEF FreshInv
      <4>2. \A g \in frame : g = f
        BY <2>2, <4>1 DEF CatalogInv, Readable, Find, GetFrameBySlugName
      <4>3. \A g \in frame : RowsOf(g, Wanted(g)) = {}
        BY <3>1, <4>2
      <4> QED
        BY <2>2, <4>1, <4>3, AnswerIs
    <3> QED
      BY <3>1, <3>2
  <2>5. ASSUME pc \in Walking, since = "nothing" PROVE Answer = Resolution(Root)
    BY <2>2, <2>5, AnswerIs DEF FreshInv
  <2>6. CASE CycleFound
    <3>1. pc \in Walking /\ reply' = "failed_precondition"
      BY <2>6 DEF CycleFound, AtParent
    <3>2. since # "delete" => Resolution(Root) = Cycle
      BY <2>6, TopFails DEF CycleFound, AtParent
    <3> QED
      BY <2>1, <2>5, <3>1, <3>2
  <2>7. CASE NoParent
    <3>1. pc \in Walking /\ reply' = "not_found"
      BY <2>7 DEF NoParent, AtParent
    <3>2. since = "nothing" => Resolution(Root) = Missing
      BY <2>7, TopFails DEF NoParent, AtParent
    <3> QED
      BY <2>1, <2>5, <3>1, <3>2
  <2>8. CASE RootMerged
    <3>1. pc \in Walking /\ Top.todo = <<>> /\ Len(stack) = 1 /\ reply' = "ok" /\ acc' = mergeInto(acc, Top.doc.slots)
      BY <2>8 DEF RootMerged
    <3>2. Top = stack[1] /\ Root = stack[1].doc
      BY <3>1, TopFacts
    <3>3. ASSUME since # "delete" PROVE Resolution(Root) = Ok(acc')
      <4>1. PICK at, und, sum : Levels(stack, at, und, sum) /\ acc = sum[Len(stack)]
        BY <3>1, <3>3, WalkMeans
      <4>2. Resolution(stack[1].doc) = Ok(mergeInto(sum[1], stack[1].doc.slots))
        BY <3>1, <4>1, RootDone DEF BoundInv, Top
      <4> QED
        BY <3>1, <3>2, <4>1, <4>2
    <3> QED
      BY <2>1, <2>5, <3>1, <3>3
  <2>9. \/ NoFrame \/ (\E f \in frame : NoVersionOf(f))
        \/ CycleFound \/ NoParent \/ RootMerged
    BY ResolveEndsBy
  <2>10. CASE \E f \in frame : NoVersionOf(f)
    BY <2>1, <2>4, <2>10
  <2> QED
    BY <2>3, <2>6, <2>7, <2>8, <2>9, <2>10
<1>2. Inv /\ [NextReader]_vars => Inv'
  BY StepKeeps, RootStep, WalkStep, BoundStep, FreshStep
<1>3. InitReader => Inv
  BY InitKeeps, InitBounded DEF InitReader, RootInv, WalkInv, FreshInv, Walking
<1> QED
  BY <1>1, <1>2, <1>3, PTL DEF SpecReader, ResolvedByDefinition

=============================================================================
