--------------------------- MODULE ResolverProofs ---------------------------
(***************************************************************************)
(* Theorems about Resolver, for every set of publications and of requests: *)
(* what the marks of the walk are, that nothing excluded is merged, that a *)
(* list is complete, and that a version resolves to one document as long   *)
(* as no frame is deleted.                                                 *)
(***************************************************************************)
EXTENDS Resolution, FiniteSetTheorems, SequenceTheorems, TLAPS

-----------------------------------------------------------------------------
(* Lists.  What a recursive function computes is proved by induction, which *)
(* the library states with an operator for a parameter; as a fact about     *)
(* sets it follows from the order of the naturals being well-founded.       *)

\* Induction, as a fact about sets of naturals.
LEMMA SetInduction ==
  ASSUME NEW N \in SUBSET Nat, 0 \in N, \A n \in N : n + 1 \in N
  PROVE  N = Nat
<1> SUFFICES ASSUME Nat \ N # {} PROVE FALSE
  OBVIOUS
<1>1. PICK n \in Nat \ N : \A m \in Nat \ N : ~(<<m, n>> \in OpToRel(<, Nat))
  <2>1. Nat \ N \in SUBSET Nat
    OBVIOUS
  <2> QED
    BY <2>1, WFMin, NatLessThanWellFounded
<1>2. n - 1 \in Nat /\ n - 1 < n
  OBVIOUS
<1>3. <<n - 1, n>> \in OpToRel(<, Nat)
  BY <1>2 DEF OpToRel
<1>4. n - 1 \in N
  BY <1>1, <1>2, <1>3
<1>5. (n - 1) + 1 = n
  OBVIOUS
<1> QED
  BY <1>4, <1>5

\* The prefixes of the function that Filter is defined by.
Steps(s, S, n) ==
  {f \in [0..n -> Seq(S)] :
     \A i \in 0..n : f[i] = IF i = 0 THEN <<>> ELSE IF s[i] \in S THEN Append(f[i - 1], s[i]) ELSE f[i - 1]}

\* There is one for every length.
LEMMA StepsExist ==
  ASSUME NEW s, NEW S, NEW n \in Nat
  PROVE  Steps(s, S, n) # {}
<1>DEFINE N == {k \in Nat : Steps(s, S, k) # {}}
<1>1. 0 \in N
  <2>1. [i \in 0..0 |-> <<>>] \in Steps(s, S, 0)
    BY DEF Steps
  <2> QED
    BY <2>1
<1>2. ASSUME NEW k \in N PROVE k + 1 \in N
  <2>1. PICK f : f \in Steps(s, S, k)
    OBVIOUS
  <2>DEFINE next == IF s[k + 1] \in S THEN Append(f[k], s[k + 1]) ELSE f[k]
            g == [i \in 0..(k + 1) |-> IF i <= k THEN f[i] ELSE next]
  <2>2. f \in [0..k -> Seq(S)] /\ k \in Nat
    BY <2>1 DEF Steps
  <2>3. next \in Seq(S)
    BY <2>2
  <2>4. g \in [0..(k + 1) -> Seq(S)]
    BY <2>2, <2>3
  <2>5. ASSUME NEW i \in 0..(k + 1)
        PROVE  g[i] = IF i = 0 THEN <<>> ELSE IF s[i] \in S THEN Append(g[i - 1], s[i]) ELSE g[i - 1]
    <3>1. CASE i <= k
      <4>1. g[i] = f[i] /\ (i # 0 => g[i - 1] = f[i - 1]) /\ i \in 0..k
        BY <2>2, <3>1
      <4> QED
        BY <2>1, <4>1 DEF Steps
    <3>2. CASE i = k + 1
      BY <2>2, <3>2
    <3> QED
      BY <2>2, <3>1, <3>2
  <2>6. g \in Steps(s, S, k + 1)
    BY <2>4, <2>5 DEF Steps
  <2> QED
    BY <2>2, <2>6
<1> HIDE DEF N
<1>3. N = Nat
  <2>1. N \in SUBSET Nat
    BY DEF N
  <2> QED
    BY <1>1, <1>2, <2>1, SetInduction
<1> QED
  BY <1>3 DEF N

\* Filter is what the whole of it computes, ...
LEMMA FilterIs ==
  ASSUME NEW T, NEW s \in Seq(T), NEW S, NEW f \in Steps(s, S, Len(s))
  PROVE  Filter(s, S) = f[Len(s)]
<1>DEFINE E(h) == h = [i \in 0..Len(s) |->
                   IF i = 0 THEN <<>> ELSE IF s[i] \in S THEN Append(h[i - 1], s[i]) ELSE h[i - 1]]
<1>2. E(f)
  BY DEF Steps
<1>3. ASSUME NEW g, E(g) PROVE g = f
  <2>1. Len(s) \in Nat
    OBVIOUS
  <2>DEFINE N == {k \in Nat : k <= Len(s) => g[k] = f[k]}
  <2>2. 0 \in N
    BY <1>2, <1>3, <2>1
  <2>3. ASSUME NEW k \in N PROVE k + 1 \in N
    <3> SUFFICES ASSUME k + 1 <= Len(s) PROVE g[k + 1] = f[k + 1]
      OBVIOUS
    <3>1. k \in Nat /\ k + 1 \in 0..Len(s) /\ k + 1 # 0 /\ (k + 1) - 1 = k /\ g[k] = f[k]
      BY <2>1
    <3>2. \A h : E(h) => h[k + 1] = IF s[k + 1] \in S THEN Append(h[k], s[k + 1]) ELSE h[k]
      BY <3>1
    <3> QED
      BY <1>2, <1>3, <3>1, <3>2
  <2> HIDE DEF N
  <2>4. N = Nat
    <3>1. N \in SUBSET Nat
      BY DEF N
    <3> QED
      BY <2>2, <2>3, <3>1, SetInduction
  <2>5. \A k \in 0..Len(s) : g[k] = f[k]
    BY <2>1, <2>4 DEF N
  <2> QED
    BY <1>2, <1>3, <2>5
<1>4. (CHOOSE g : E(g)) = f
  BY <1>2, <1>3
<1> QED
  BY <1>4 DEF Filter

\* ... and leaves members of the set it is given.
LEMMA FilterSelects ==
  ASSUME NEW T, NEW s \in Seq(T), NEW S
  PROVE  Filter(s, S) \in Seq(S)
<1>1. Len(s) \in Nat
  OBVIOUS
<1>2. PICK f : f \in Steps(s, S, Len(s))
  BY <1>1, StepsExist
<1>3. f[Len(s)] \in Seq(S)
  BY <1>1, <1>2 DEF Steps
<1> QED
  BY <1>2, <1>3, FilterIs

\* A sequence over any set is a list of what it holds.
LEMMA SeqIsListed ==
  ASSUME NEW T, NEW s \in Seq(T)
  PROVE  Listed(s) /\ ToSet(s) \subseteq T
<1>1. Len(s) \in Nat /\ DOMAIN s = 1..Len(s) /\ \A i \in 1..Len(s) : s[i] \in T /\ s[i] \in ToSet(s)
  BY DEF ToSet
<1>2. s \in [1..Len(s) -> ToSet(s)]
  BY <1>1
<1>3. s \in Seq(ToSet(s))
  BY <1>1, <1>2, IsASeq
<1> QED
  BY <1>1, <1>3 DEF Listed, ToSet

\* Its places and its members.
LEMMA ListedFacts ==
  ASSUME NEW s, Listed(s)
  PROVE  /\ Len(s) \in Nat /\ DOMAIN s = 1..Len(s) /\ s \in Seq(ToSet(s))
         /\ \A i \in 1..Len(s) : s[i] \in ToSet(s)
         /\ \A x \in ToSet(s) : \E i \in 1..Len(s) : s[i] = x
         /\ s = <<>> <=> Len(s) = 0
BY DEF Listed, ToSet

\* Its head is the first.
LEMMA HeadIsFirst ==
  ASSUME NEW s, Listed(s), Len(s) > 0
  PROVE  Head(s) = s[1]
BY ListedFacts

\* What is left of a list when its head is taken.
LEMMA TailListed ==
  ASSUME NEW s, Listed(s), s # <<>>
  PROVE  Listed(Tail(s)) /\ ToSet(Tail(s)) \subseteq ToSet(s) /\ Head(s) \in ToSet(s)
<1>1. Tail(s) \in Seq(ToSet(s)) /\ Head(s) \in ToSet(s)
  BY ListedFacts
<1> QED
  BY <1>1, SeqIsListed

\* The items before the last.
LEMMA FrontKeeps ==
  ASSUME NEW T, NEW s \in Seq(T), Len(s) > 0
  PROVE  /\ Front(s) \in Seq(T) /\ Len(Front(s)) = Len(s) - 1
         /\ \A i \in 1..(Len(s) - 1) : Front(s)[i] = s[i]
<1>1. 1 \in 1..(Len(s) + 1) /\ Len(s) - 1 \in 0..Len(s) /\ Len(s) \in Nat
  OBVIOUS
<1>2. /\ SubSeq(s, 1, Len(s) - 1) \in Seq(T)
      /\ Len(SubSeq(s, 1, Len(s) - 1)) = IF 1 <= Len(s) - 1 THEN (Len(s) - 1) - 1 + 1 ELSE 0
      /\ \A i \in 1..((Len(s) - 1) - 1 + 1) : SubSeq(s, 1, Len(s) - 1)[i] = s[1 + i - 1]
  BY <1>1, SubSeqProperties
<1>3. (Len(s) - 1) - 1 + 1 = Len(s) - 1 /\ \A i \in 1..(Len(s) - 1) : 1 + i - 1 = i
  BY <1>1
<1> QED
  BY <1>1, <1>2, <1>3 DEF Front

\* The last item replaced, ...
LEMMA LastReplaced ==
  ASSUME NEW s, Listed(s), Len(s) > 0, NEW x
  PROVE  LET t == Front(s) \o <<x>> IN
         /\ Listed(t) /\ Len(t) = Len(s) /\ t[Len(s)] = x
         /\ \A i \in 1..Len(s) : i < Len(s) => t[i] = s[i]
<1>DEFINE T == ToSet(s) \cup {x}
<1>1. s \in Seq(T) /\ Len(s) \in Nat
  BY ListedFacts
<1>2. /\ Front(s) \in Seq(T) /\ Len(Front(s)) = Len(s) - 1
      /\ \A i \in 1..(Len(s) - 1) : Front(s)[i] = s[i]
  BY <1>1, FrontKeeps
<1>3. <<x>> \in Seq(T) /\ Len(<<x>>) = 1 /\ <<x>>[1] = x
  OBVIOUS
<1> HIDE DEF T
<1>4. /\ Front(s) \o <<x>> \in Seq(T) /\ Len(Front(s) \o <<x>>) = Len(s)
      /\ (Front(s) \o <<x>>)[Len(s)] = x
      /\ \A i \in 1..(Len(s) - 1) : (Front(s) \o <<x>>)[i] = s[i]
  BY <1>1, <1>2, <1>3
<1>5. Listed(Front(s) \o <<x>>)
  BY <1>4, SeqIsListed
<1> QED
  BY <1>1, <1>4, <1>5

\* ... one more put behind it, ...
LEMMA OneAppended ==
  ASSUME NEW s, Listed(s), NEW x
  PROVE  LET t == Append(s, x) IN
         /\ Listed(t) /\ Len(t) = Len(s) + 1 /\ t[Len(s) + 1] = x
         /\ \A i \in 1..Len(s) : t[i] = s[i]
<1>DEFINE T == ToSet(s) \cup {x}
<1>1. s \in Seq(T) /\ Len(s) \in Nat /\ x \in T
  BY ListedFacts
<1> HIDE DEF T
<1>2. Append(s, x) \in Seq(T)
  BY <1>1
<1>3. Listed(Append(s, x))
  BY <1>2, SeqIsListed
<1> QED
  BY <1>1, <1>3

\* ... or the last one taken away: the others are where they were.
LEMMA LastTaken ==
  ASSUME NEW s, Listed(s), Len(s) > 0
  PROVE  /\ Listed(Front(s)) /\ Len(Front(s)) = Len(s) - 1
         /\ \A i \in 1..(Len(s) - 1) : Front(s)[i] = s[i]
<1>1. s \in Seq(ToSet(s)) /\ Len(s) \in Nat
  BY ListedFacts
<1>2. /\ Front(s) \in Seq(ToSet(s)) /\ Len(Front(s)) = Len(s) - 1
      /\ \A i \in 1..(Len(s) - 1) : Front(s)[i] = s[i]
  BY <1>1, FrontKeeps
<1> QED
  BY <1>2, SeqIsListed

\* Merging terms adds nothing that was in neither list.
LEMMA MergedTerms ==
  ASSUME NEW old, NEW new, Listed(old), Listed(new)
  PROVE  Listed(mergeTerms(old, new)) /\ ToSet(mergeTerms(old, new)) \subseteq ToSet(old) \cup ToSet(new)
<1>DEFINE Newest(t) == IF \E i \in DOMAIN new : new[i].term = t.term
                         THEN CHOOSE u \in ToSet(new) : u.term = t.term ELSE t
          known == {t.term : t \in ToSet(old)}
          added == {t \in ToSet(new) : t.term \notin known}
          T == ToSet(old) \cup ToSet(new)
          kept == [i \in DOMAIN old |-> Newest(old[i])]
<1>1. ASSUME NEW t \in T PROVE Newest(t) \in T
  <2>1. CASE \E i \in DOMAIN new : new[i].term = t.term
    <3>1. \E u \in ToSet(new) : u.term = t.term
      BY <2>1, ListedFacts
    <3>2. (CHOOSE u \in ToSet(new) : u.term = t.term) \in ToSet(new)
      BY <3>1
    <3> QED
      BY <2>1, <3>2
  <2>2. CASE ~\E i \in DOMAIN new : new[i].term = t.term
    BY <2>2
  <2> QED
    BY <2>1, <2>2
<1>2. Filter(new, added) \in Seq(T)
  <2>1. Filter(new, added) \in Seq(added)
    BY ListedFacts, FilterSelects
  <2>2. added \subseteq T
    OBVIOUS
  <2> HIDE DEF added, T
  <2> QED
    BY <2>1, <2>2
<1>3. kept \in Seq(T)
  <2>1. DOMAIN old = 1..Len(old) /\ Len(old) \in Nat /\ \A i \in 1..Len(old) : old[i] \in T
    BY ListedFacts
  <2>2. \A i \in 1..Len(old) : Newest(old[i]) \in T
    BY <1>1, <2>1
  <2> HIDE DEF Newest, T
  <2>3. kept \in [1..Len(old) -> T]
    BY <2>1, <2>2
  <2> QED
    BY <2>1, <2>3, IsASeq
<1>4. mergeTerms(old, new) = kept \o Filter(new, added)
  BY DEF mergeTerms
<1> HIDE DEF kept, T, added
<1>5. mergeTerms(old, new) \in Seq(T)
  BY <1>2, <1>3, <1>4
<1>6. Listed(mergeTerms(old, new)) /\ ToSet(mergeTerms(old, new)) \subseteq T
  BY <1>5, SeqIsListed
<1> QED
  BY <1>6 DEF T

-----------------------------------------------------------------------------
(* The catalog as a reader finds it.                                       *)

\* Who wrote what is in the slots.
Said(slots) == {t.from : t \in ToSet(slots.terms)} \cup slots.goals

\* A document merged over others says nothing that none of them said.
LEMMA MergedSays ==
  ASSUME NEW dst, NEW src, Listed(dst.terms), Listed(src.terms)
  PROVE  /\ Listed(mergeInto(dst, src).terms)
         /\ \A s \in Said(mergeInto(dst, src)) : s \in Said(dst) \/ s \in Said(src)
<1>1. mergeInto(dst, src).terms = mergeTerms(dst.terms, src.terms)
  BY DEF mergeInto
<1>2. mergeInto(dst, src).goals = replaceIfSet(dst.goals, src.goals)
  BY DEF mergeInto
<1>3. replaceIfSet(dst.goals, src.goals) \subseteq dst.goals \cup src.goals
  BY DEF replaceIfSet
<1> QED
  BY <1>1, <1>2, <1>3, MergedTerms DEF Said

IsFrame(f) == f = [id |-> f.id, org |-> f.org, name |-> f.name, owner |-> f.owner, latest |-> f.latest]

SlotsOf(name, slots) == Listed(slots.terms) /\ \A s \in Said(slots) : s.name = name

\* Frames are told by their ids and by their names, versions by frame and number,
\* and what a version says it says in its frame's name.
CatalogInv ==
  /\ \A f \in frames : IsFrame(f)
  /\ \A f, g \in frames : f.id = g.id \/ (f.org = g.org /\ f.name = g.name) => f = g
  /\ \A v, w \in versions : v.frame = w.frame /\ v.version = w.version => v = w
  /\ \A v \in versions :
       /\ \E f \in frames : f.id = v.frame /\ SlotsOf(f.name, v.slots)
       /\ Listed(v.extends) /\ Listed(v.excludes)

-----------------------------------------------------------------------------
(* What the reader holds.                                                  *)

Held == frame \cup {e.frame : e \in listing} \cup todo

\* A frame the reader has seen keeps its name and owner as long as it is there.
HeldInv ==
  \A g \in Held, f \in frames :
    f.id = g.id => f.org = g.org /\ f.name = g.name /\ f.owner = g.owner

Listings == {"list_read", "list_edit", "list_delete"}
Walking == {"walk", "parent"}

\* What means nothing is empty; a document is read in the caller's organization.
LocalInv ==
  /\ pc # "idle" => call = [op |-> call.op, caller |-> call.caller, org |-> call.org,
                            name |-> call.name, version |-> call.version]
  /\ pc \in {"version"} \cup Walking => call.org = call.caller.org
  /\ pc \in {"get", "version", "list"} \cup Listings => acc = Empty
  /\ pc \notin {"version", "parent", "list_delete"} => frame = {}
  /\ pc \notin Listings => todo = {} /\ listing = {}
  /\ pc \notin Walking => visiting = {}

-----------------------------------------------------------------------------
(* The lists.                                                              *)

\* What the caller may do with frame f.
Due(f) == IF call.caller.role = "admin" \/ f.owner = call.caller.sub THEN {"edit", "delete"} ELSE {}

\* What a list says so far of the frame of entry e.
SoFar(f) ==
  IF pc = "list_read" \/ f \in todo THEN {} ELSE IF f \in frame THEN Due(f) \ {"delete"} ELSE Due(f)

\* The list has every frame there was, or is about to, and says of those still
\* there what the caller may do, as far as it has come.
ListInv ==
  pc \in Listings =>
    /\ \A f \in Held : f.org = call.caller.org
    /\ since = "nothing" =>
         \A f \in frames : f.org = call.caller.org =>
           \/ pc = "list_read" /\ f \in todo
           \/ \E e \in listing : e.frame = f
    /\ \A e \in listing :
         /\ e = [frame |-> e.frame, rights |-> e.rights]
         /\ e.frame.id \in Ids(frames) => e.rights = SoFar(e.frame)
    /\ frame \cap todo = {} /\ \A f, g \in frame : f = g

-----------------------------------------------------------------------------
(* The walk.                                                               *)

IsEntry(e) ==
  /\ e = [key |-> e.key, doc |-> e.doc, todo |-> e.todo, excludes |-> e.excludes]
  /\ Listed(e.todo) /\ Listed(e.doc.extends) /\ Listed(e.doc.excludes) /\ Listed(e.doc.slots.terms)
  /\ ToSet(Root.excludes) \subseteq e.excludes

\* A parent on the stack is of the caller's organization, says what it says in its
\* own name, and is not among the excludes of the root.
IsParent(e) ==
  /\ e.key.org = call.caller.org
  /\ \A s \in Said(e.doc.slots) : s.name = e.key.name
  /\ [org |-> e.key.org, name |-> e.key.name] \notin ToSet(Root.excludes)

\* The marks are the keys of the parents on the stack, each there once.
Marks ==
  pc \in Walking =>
    /\ visiting = {stack[i].key : i \in 2..Len(stack)}
    /\ \A i, j \in 2..Len(stack) : stack[i].key = stack[j].key => i = j

\* What has been merged so far, nobody excluded has said.
StackInv ==
  pc \in Walking =>
    /\ Listed(stack) /\ Len(stack) > 0
    /\ \A i \in 1..Len(stack) : IsEntry(stack[i]) /\ (i > 1 => IsParent(stack[i]))
    /\ Listed(acc.terms)
    /\ \A s \in Said(acc) : [org |-> call.org, name |-> s.name] \notin ToSet(Root.excludes)

\* The frame about to be fetched is the next parent's, which is not on the stack.
ParentInv ==
  pc = "parent" =>
    /\ Top.todo # <<>> /\ ~Excluded(Parent) /\ Key \notin visiting
    /\ \A f \in frame : f.org = Parent.org /\ f.name = Parent.name /\ f.org = call.caller.org
    /\ since # "delete" =>
         \A f \in frame : \E g \in frames : g.id = f.id /\ g.org = f.org /\ g.name = f.name

IInv ==
  /\ CatalogInv /\ HeldInv /\ LocalInv
  /\ ListInv
  /\ Marks /\ StackInv /\ ParentInv

-----------------------------------------------------------------------------
(* What publishing and deleting do to the catalog.                         *)

NewFrame(p, id) == [id |-> id, org |-> p.org, name |-> p.name, owner |-> p.by, latest |-> p.version]

Written(p, id) ==
  [frame |-> id, version |-> p.version, by |-> p.by,
   extends |-> p.extends, excludes |-> p.excludes, slots |-> Slots(p)]

\* The same frame, whatever its latest version.
Same(f, g) == f.id = g.id /\ f.org = g.org /\ f.name = g.name /\ f.owner = g.owner

\* A publication says what it says in its own name.
LEMMA SlotsSay ==
  ASSUME NEW p \in Publication
  PROVE  SlotsOf(p.name, Slots(p))
<1>DEFINE here == [name |-> p.name, version |-> p.version, by |-> p.by]
          terms == [i \in DOMAIN p.terms |-> [term |-> p.terms[i], from |-> here]]
          T == {[term |-> x, from |-> here] : x \in ToSet(p.terms)}
<1>1. DOMAIN p.terms = 1..Len(p.terms) /\ Len(p.terms) \in Nat
      /\ \A i \in 1..Len(p.terms) : p.terms[i] \in ToSet(p.terms)
  BY ResolverAssumption, ListedFacts
<1>2. terms \in [1..Len(p.terms) -> T]
  BY <1>1
<1> HIDE DEF terms
<1>3. Listed(terms) /\ ToSet(terms) \subseteq T
  <2> HIDE DEF T
  <2>1. terms \in Seq(T)
    BY <1>1, <1>2, IsASeq
  <2> QED
    BY <2>1, SeqIsListed
<1>4. Slots(p).terms = terms /\ Slots(p).goals \subseteq {here}
  BY DEF Slots, terms
<1>5. \A t \in T : t.from = here
  OBVIOUS
<1> HIDE DEF T
<1>6. \A s \in Said(Slots(p)) : s = here
  BY <1>3, <1>4, <1>5 DEF Said
<1> QED
  BY <1>3, <1>4, <1>6 DEF SlotsOf

\* A publish puts a frame there under an id the reader does not hold, or moves a
\* frame to a version it does not have.
LEMMA Published ==
  ASSUME Publish
  PROVE  \E p \in Publication :
           \/ \E id : id \notin HeldIds /\ Create(NewFrame(p, id), Written(p, id))
           \/ \E f \in frames : f.name = p.name /\ Advance(f, Written(p, f.id))
<1>1. PICK p \in Publication :
        \/ /\ IdsOf[p.name] \ HeldIds # {}
           /\ LET id == CHOOSE i \in IdsOf[p.name] \ HeldIds : TRUE IN
              Create(NewFrame(p, id), Written(p, id))
        \/ \E f \in Find(p.org, p.name) :
             f.owner = p.by /\ ~Older(p.version, f.latest) /\ Advance(f, Written(p, f.id))
  BY DEF Publish, NewFrame, Written
<1>2. CASE \E f \in Find(p.org, p.name) :
             f.owner = p.by /\ ~Older(p.version, f.latest) /\ Advance(f, Written(p, f.id))
  BY <1>2 DEF Find, GetFrameBySlugName
<1>3. CASE /\ IdsOf[p.name] \ HeldIds # {}
           /\ LET id == CHOOSE i \in IdsOf[p.name] \ HeldIds : TRUE IN
              Create(NewFrame(p, id), Written(p, id))
  <2>1. PICK id : id \in IdsOf[p.name] \ HeldIds /\ Create(NewFrame(p, id), Written(p, id))
    BY <1>3
  <2> QED
    BY <2>1
<1> QED
  BY <1>1, <1>2, <1>3

\* Frames stay what they are but for their latest version, a new one has an id
\* nobody held, and no version goes.
LEMMA PublishKeeps ==
  ASSUME CatalogInv, Publish
  PROVE  /\ \A f \in frames : \E g \in frames' : Same(f, g)
         /\ \A g \in frames' :
              (\E f \in frames : Same(f, g)) \/ (g.id \notin HeldIds /\ g.id \notin Ids(frames))
         /\ versions \subseteq versions'
<1>1. PICK p \in Publication :
           \/ \E id : id \notin HeldIds /\ Create(NewFrame(p, id), Written(p, id))
           \/ \E f \in frames : f.name = p.name /\ Advance(f, Written(p, f.id))
  BY Published
<1>2. ASSUME NEW id, id \notin HeldIds, Create(NewFrame(p, id), Written(p, id))
      PROVE  /\ \A f \in frames : \E g \in frames' : Same(f, g)
             /\ \A g \in frames' :
                  (\E f \in frames : Same(f, g)) \/ (g.id \notin HeldIds /\ g.id \notin Ids(frames))
             /\ versions \subseteq versions'
  <2>1. NewFrame(p, id).id = id
    BY DEF NewFrame
  <2> QED
    BY <1>2, <2>1 DEF Create, FrameGone, Same
<1>3. ASSUME NEW f \in frames, Advance(f, Written(p, f.id))
      PROVE  /\ \A h \in frames : \E g \in frames' : Same(h, g)
             /\ \A g \in frames' :
                  (\E h \in frames : Same(h, g)) \/ (g.id \notin HeldIds /\ g.id \notin Ids(frames))
             /\ versions \subseteq versions'
  <2>DEFINE h == [f EXCEPT !.latest = Written(p, f.id).version]
  <2>1. Same(f, h)
    BY DEF CatalogInv, IsFrame, Same
  <2>2. frames' = (frames \ {f}) \cup {h} /\ versions \subseteq versions'
    BY <1>3 DEF Advance
  <2> HIDE DEF h
  <2> QED
    BY <2>1, <2>2 DEF Same
<1> QED
  BY <1>1, <1>2, <1>3

\* Publishing keeps the catalog what it is, ...
LEMMA PublishKeepsCatalog ==
  ASSUME CatalogInv, Publish
  PROVE  CatalogInv'
<1>1. PICK p \in Publication :
           \/ \E id : id \notin HeldIds /\ Create(NewFrame(p, id), Written(p, id))
           \/ \E f \in frames : f.name = p.name /\ Advance(f, Written(p, f.id))
  BY Published
<1>2. SlotsOf(p.name, Slots(p)) /\ Listed(p.extends) /\ Listed(p.excludes)
  BY SlotsSay, ResolverAssumption
<1>3. ASSUME NEW id, Create(NewFrame(p, id), Written(p, id))
      PROVE  CatalogInv'
  <2>DEFINE f == NewFrame(p, id)
            v == Written(p, id)
  <2>1. f.id = id /\ f.org = p.org /\ f.name = p.name /\ IsFrame(f)
    BY DEF NewFrame, IsFrame
  <2>2. v.frame = id /\ v.extends = p.extends /\ v.excludes = p.excludes /\ v.slots = Slots(p)
    BY DEF Written
  <2> HIDE DEF f, v
  <2>3. /\ frames' = frames \cup {f} /\ versions' = versions \cup {v}
        /\ \A g \in frames : g.id # id /\ ~(g.org = f.org /\ g.name = f.name)
        /\ \A w \in versions : w.frame # id
    BY <1>3, <2>1 DEF Create, FrameGone, Ids, VersionsOf, NameTaken, GetFrameBySlugName, f, v
  <2>4. \A g \in frames' : IsFrame(g)
    BY <2>1, <2>3 DEF CatalogInv
  <2>5. \A g, h \in frames' : g.id = h.id \/ (g.org = h.org /\ g.name = h.name) => g = h
    BY <2>1, <2>3 DEF CatalogInv
  <2>6. \A w, u \in versions' : w.frame = u.frame /\ w.version = u.version => w = u
    BY <2>2, <2>3 DEF CatalogInv
  <2>7. \A w \in versions' :
          /\ \E g \in frames' : g.id = w.frame /\ SlotsOf(g.name, w.slots)
          /\ Listed(w.extends) /\ Listed(w.excludes)
    BY <1>2, <2>1, <2>2, <2>3 DEF CatalogInv
  <2> QED
    BY <2>4, <2>5, <2>6, <2>7 DEF CatalogInv
<1>4. ASSUME NEW f \in frames, f.name = p.name, Advance(f, Written(p, f.id))
      PROVE  CatalogInv'
  <2>DEFINE v == Written(p, f.id)
            h == [f EXCEPT !.latest = v.version]
  <2>1. IsFrame(h) /\ h.id = f.id /\ h.org = f.org /\ h.name = f.name
    BY DEF CatalogInv, IsFrame
  <2>2. v.frame = f.id /\ v.extends = p.extends /\ v.excludes = p.excludes /\ v.slots = Slots(p)
    BY DEF Written
  <2>3. /\ frames' = (frames \ {f}) \cup {h} /\ versions' = versions \cup {v}
        /\ \A w \in versions : ~(w.frame = f.id /\ w.version = v.version)
    BY <1>4 DEF Advance, VersionTaken, VersionsOf
  <2> HIDE DEF v, h
  <2>4. \A g \in frames' : IsFrame(g)
    BY <2>1, <2>3 DEF CatalogInv
  <2>5. \A g, k \in frames' : g.id = k.id \/ (g.org = k.org /\ g.name = k.name) => g = k
    BY <2>1, <2>3 DEF CatalogInv
  <2>6. \A w, u \in versions' : w.frame = u.frame /\ w.version = u.version => w = u
    BY <2>2, <2>3 DEF CatalogInv
  <2>7. \A w \in versions' :
          /\ \E g \in frames' : g.id = w.frame /\ SlotsOf(g.name, w.slots)
          /\ Listed(w.extends) /\ Listed(w.excludes)
    <3>1. \A g \in frames : \E k \in frames' : k.id = g.id /\ k.name = g.name
      BY <2>1, <2>3
    <3> QED
      BY <1>2, <1>4, <2>1, <2>2, <2>3, <3>1 DEF CatalogInv
  <2> QED
    BY <2>4, <2>5, <2>6, <2>7 DEF CatalogInv
<1> QED
  BY <1>1, <1>3, <1>4

\* ... and so does deleting, which only takes rows away.
LEMMA DeleteKeepsCatalog ==
  ASSUME CatalogInv, Delete
  PROVE  CatalogInv' /\ frames' \subseteq frames /\ versions' \subseteq versions
<1>1. PICK f \in frames : Withdraw(f)
  BY DEF Delete
<1>2. frames' = frames \ {f} /\ versions' = {v \in versions : v.frame # f.id}
  BY <1>1 DEF Withdraw, VersionsOf
<1>3. \A v \in versions' :
        /\ \E g \in frames' : g.id = v.frame /\ SlotsOf(g.name, v.slots)
        /\ Listed(v.extends) /\ Listed(v.excludes)
  BY <1>2 DEF CatalogInv
<1> QED
  BY <1>2, <1>3 DEF CatalogInv

-----------------------------------------------------------------------------
(* Steps that keep what the reader holds, or nothing of it.                *)

\* Nothing a client does to the catalog breaks what a waiting reader relies on.
LEMMA CatalogSteps ==
  ASSUME IInv, Publish \/ Delete
  PROVE  IInv'
<1>1. UNCHANGED local /\ CatalogInv'
  BY PublishKeepsCatalog, DeleteKeepsCatalog DEF IInv, Publish, Delete
<1>2. \A g \in frames' :
        (\E f \in frames : Same(f, g)) \/ (g.id \notin HeldIds /\ g.id \notin Ids(frames))
  BY PublishKeeps, DeleteKeepsCatalog DEF IInv, Same
<1>3. HeldInv'
  <2>1. Held' = Held /\ \A g \in Held : g.id \in HeldIds
    BY <1>1 DEF Held, HeldIds, Ids, local
  <2>2. ASSUME NEW g \in Held, NEW h \in frames', h.id = g.id
        PROVE  h.org = g.org /\ h.name = g.name /\ h.owner = g.owner
    <3>1. PICK f \in frames : Same(f, h)
      BY <1>2, <2>1, <2>2
    <3> QED
      BY <2>2, <3>1 DEF IInv, HeldInv, Same
  <2> QED
    BY <2>1, <2>2 DEF HeldInv
<1>4. LocalInv'
  BY <1>1 DEF IInv, LocalInv, local
<1>5. pc \in Listings \cup Walking => since' # "nothing"
  BY DEF Publish, Delete, Changed, FirstStep, Listings, Walking
<1>6. ListInv'
  <2> SUFFICES ASSUME pc' \in Listings
      PROVE  /\ \A f \in Held' : f.org = call'.caller.org
             /\ \A e \in listing' :
                  /\ e = [frame |-> e.frame, rights |-> e.rights]
                  /\ e.frame.id \in Ids(frames') => e.rights = SoFar(e.frame)'
             /\ frame' \cap todo' = {} /\ \A f, g \in frame' : f = g
    BY <1>1, <1>5 DEF ListInv, local
  <2>1. ListInv /\ pc \in Listings /\ Held' = Held
    BY <1>1 DEF IInv, Held, local
  <2>2. \A e \in listing : e.frame.id \in Ids(frames') => e.frame.id \in Ids(frames)
    <3>1. \A e \in listing : e.frame.id \in HeldIds
      BY DEF HeldIds, Ids
    <3>2. ASSUME NEW x, x \in Ids(frames'), x \in HeldIds PROVE x \in Ids(frames)
      <4>1. PICK h \in frames' : h.id = x
        BY <3>2 DEF Ids
      <4>2. PICK f \in frames : Same(f, h)
        BY <1>2, <3>2, <4>1
      <4> QED
        BY <4>1, <4>2 DEF Same, Ids
    <3> QED
      BY <3>1, <3>2
  <2>3. \A e \in listing : SoFar(e.frame)' = SoFar(e.frame)
    BY <1>1 DEF SoFar, Due, local
  <2> QED
    BY <1>1, <2>1, <2>2, <2>3 DEF ListInv, local
<1>7. Marks' /\ StackInv'
  BY <1>1 DEF IInv, Marks, StackInv, IsEntry, IsParent, Root, local
<1>8. ParentInv'
  <2> SUFFICES ASSUME pc' = "parent" PROVE ParentInv'
    BY DEF ParentInv
  <2>1. pc = "parent" /\ ParentInv /\ pc # FirstStep(call)
    BY <1>1 DEF IInv, FirstStep, local
  <2>2. since' # "delete" => since # "delete" /\ Publish
    BY <2>1 DEF Publish, Delete, Changed
  <2>3. since' # "delete" =>
          \A f \in frame' : \E g \in frames' : g.id = f.id /\ g.org = f.org /\ g.name = f.name
    <3> SUFFICES ASSUME since' # "delete", NEW f \in frame
        PROVE  \E g \in frames' : g.id = f.id /\ g.org = f.org /\ g.name = f.name
      BY <1>1 DEF local
    <3>1. PICK g \in frames : g.id = f.id /\ g.org = f.org /\ g.name = f.name
      BY <2>1, <2>2 DEF ParentInv
    <3>2. PICK h \in frames' : Same(g, h)
      BY <2>2, PublishKeeps DEF IInv
    <3> QED
      BY <3>1, <3>2 DEF Same
  <2>4. /\ Top' = Top /\ Parent' = Parent /\ Key' = Key
        /\ Excluded(Parent)' <=> Excluded(Parent)
    BY <1>1 DEF Top, Parent, Key, Excluded, local
  <2> QED
    BY <1>1, <2>1, <2>3, <2>4 DEF ParentInv, local
<1> QED
  BY <1>1, <1>3, <1>4, <1>6, <1>7, <1>8 DEF IInv

\* A request that ends leaves nothing behind.
LEMMA EndKeeps ==
  ASSUME IInv, UNCHANGED catalog, NEW code, Finish(code)
  PROVE  IInv'
<1>1. /\ pc' = "idle" /\ frame' = {} /\ todo' = {} /\ listing' = {} /\ visiting' = {}
  BY DEF Finish, Goto
<1>2. CatalogInv'
  BY DEF IInv, CatalogInv, catalog
<1>3. HeldInv'
  BY <1>1 DEF HeldInv, Held
<1> QED
  BY <1>1, <1>2, <1>3
     DEF IInv, LocalInv, ListInv, Marks, StackInv, ParentInv, Listings, Walking

\* The reader holds what it held, and frames that are there.
LEMMA HeldKept ==
  ASSUME IInv, UNCHANGED catalog, Held' \subseteq Held \cup frames
  PROVE  CatalogInv' /\ HeldInv'
<1>1. CatalogInv'
  BY DEF IInv, CatalogInv, catalog
<1>2. \A g \in Held \cup frames, f \in frames :
        f.id = g.id => f.org = g.org /\ f.name = g.name /\ f.owner = g.owner
  BY DEF IInv, HeldInv, CatalogInv
<1> QED
  BY <1>1, <1>2 DEF HeldInv, catalog

\* Outside the walk there is nothing to say about it.
LEMMA NotWalking ==
  ASSUME pc' \notin Walking
  PROVE  Marks' /\ StackInv' /\ ParentInv'
BY DEF Marks, StackInv, ParentInv, Walking

\* A request arrives.
LEMMA ReceiveKeeps ==
  ASSUME IInv, Receive
  PROVE  IInv'
<1>1. /\ call' \in Call /\ pc' \in {"list", "get"} /\ acc' = Empty
      /\ UNCHANGED <<catalog, frame, todo, listing, visiting>>
  BY DEF Receive, Goto, FirstStep
<1>2. frame = {} /\ todo = {} /\ listing = {} /\ visiting = {}
  BY DEF IInv, LocalInv, Receive, Listings, Walking
<1>3. CatalogInv' /\ HeldInv'
  <2>1. Held' = Held /\ UNCHANGED catalog
    BY <1>1 DEF Held
  <2> QED
    BY <2>1, HeldKept
<1>4. LocalInv'
  BY <1>1, <1>2, ResolverAssumption DEF LocalInv, Listings, Walking
<1>5. ListInv' /\ pc' \notin Walking
  BY <1>1 DEF ListInv, Listings, Walking
<1> QED
  BY <1>3, <1>4, <1>5, NotWalking DEF IInv

-----------------------------------------------------------------------------
(* The lists.                                                              *)

\* What rbac.Can answers of a frame of the caller's organization that is there.
LEMMA CanMeans ==
  ASSUME IInv, NEW f \in Held \cup frames, f.id \in Ids(frames), f.org = call.caller.org
  PROVE  /\ f \in frames => Can(f, "read")
         /\ \A perm \in {"edit", "delete"} :
              Can(f, perm) <=> call.caller.role = "admin" \/ f.owner = call.caller.sub
<1>1. f \in frames => Can(f, "read")
  BY DEF Can, Granted
<1>2. PICK g \in frames : g.id = f.id
  BY DEF Ids
<1>3. \A h \in frames : h.id = f.id => h.owner = f.owner
  BY DEF IInv, HeldInv, CatalogInv
<1> QED
  BY <1>1, <1>2, <1>3 DEF Can, Granted

\* The query of a list.
LEMMA ListFramesKeeps ==
  ASSUME IInv, UNCHANGED <<catalog, since>>, ListFramesByOrg
  PROVE  IInv'
<1>1. /\ pc = "list" /\ pc' = "list_read"
      /\ todo' = {f \in frames : f.org = call.caller.org}
      /\ UNCHANGED <<call, frame, listing, stack, visiting, acc>>
  BY DEF ListFramesByOrg, Goto, Keep
<1>2. frame = {} /\ listing = {} /\ todo = {}
  BY <1>1 DEF IInv, LocalInv, Listings
<1>3. CatalogInv' /\ HeldInv'
  <2>1. Held' \subseteq Held \cup frames /\ UNCHANGED catalog
    BY <1>1 DEF Held
  <2> QED
    BY <2>1, HeldKept
<1>4. LocalInv'
  BY <1>1, <1>2 DEF IInv, LocalInv, Listings, Walking
<1>5. ListInv'
  <2>1. Held' = todo'
    BY <1>1, <1>2 DEF Held
  <2> QED
    BY <1>1, <1>2, <2>1 DEF ListInv, Listings, catalog
<1>6. pc' \notin Walking
  BY <1>1 DEF Walking
<1> QED
  BY <1>3, <1>4, <1>5, <1>6, NotWalking DEF IInv

\* A frame is put on the list, or it is not there any more.
LEMMA CheckReadKeeps ==
  ASSUME IInv, UNCHANGED <<catalog, since>>, CheckRead
  PROVE  IInv'
<1>1. PICK f \in todo :
        /\ todo' = todo \ {f}
        /\ listing' = listing \cup IF Can(f, "read") THEN {[frame |-> f, rights |-> {}]} ELSE {}
  BY DEF CheckRead
<1>2. pc = "list_read" /\ pc' = "list_read" /\ UNCHANGED <<call, frame, stack, visiting, acc>>
  BY DEF CheckRead, Goto, Keep
<1>3. ListInv /\ frame = {} /\ pc \in Listings
  BY <1>2 DEF IInv, LocalInv, Listings
<1>4. listing \subseteq listing' /\ \A e \in listing' : e \in listing \/ e = [frame |-> f, rights |-> {}]
  BY <1>1
<1>5. CatalogInv' /\ HeldInv' /\ Held' \subseteq Held
  <2>1. Held' \subseteq Held
    BY <1>1, <1>2, <1>4 DEF Held
  <2>2. UNCHANGED catalog
    OBVIOUS
  <2> QED
    BY <2>1, <2>2, HeldKept
<1>6. LocalInv'
  BY <1>2, <1>3 DEF IInv, LocalInv, Listings, Walking
<1>7. ListInv'
  <2>1. \A g \in Held' : g.org = call'.caller.org
    BY <1>2, <1>3, <1>5 DEF ListInv
  <2>2. ASSUME since' = "nothing", NEW g \in frames, g.org = call.caller.org
        PROVE  g \in todo' \/ \E e \in listing' : e.frame = g
    <3>1. g \in todo \/ \E e \in listing : e.frame = g
      BY <1>2, <1>3, <2>2 DEF ListInv
    <3>2. CASE g = f
      <4>1. g.id \in Ids(frames)
        BY DEF Ids
      <4>2. Can(f, "read")
        BY <2>2, <3>2, <4>1, CanMeans
      <4>3. [frame |-> f, rights |-> {}] \in listing'
        BY <1>1, <3>2, <4>2
      <4>4. [frame |-> f, rights |-> {}].frame = f
        OBVIOUS
      <4> QED
        BY <3>2, <4>3, <4>4
    <3> QED
      BY <1>1, <1>4, <3>1, <3>2
  <2>3. \A e \in listing' : e = [frame |-> e.frame, rights |-> e.rights]
    BY <1>3, <1>4 DEF ListInv
  <2>4. \A e \in listing' : e.frame.id \in Ids(frames') => e.rights = SoFar(e.frame)'
    <3>1. \A e : SoFar(e)' = {} /\ SoFar(e) = {}
      BY <1>2 DEF SoFar
    <3> QED
      BY <1>3, <1>4, <3>1 DEF ListInv, catalog
  <2> QED
    BY <1>2, <1>3, <2>1, <2>2, <2>3, <2>4 DEF ListInv, catalog
<1>8. pc' \notin Walking
  BY <1>2 DEF Walking
<1> QED
  BY <1>5, <1>6, <1>7, <1>8, NotWalking DEF IInv

\* The list goes on to the rights, or the tool to the frame it has found.
LEMMA ListReadKeeps ==
  ASSUME IInv, UNCHANGED <<catalog, since>>, ListRead
  PROVE  IInv'
<1>1. pc = "list_read" /\ todo = {} /\ frame = {} /\ ListInv /\ pc \in Listings /\ UNCHANGED catalog
  BY DEF ListRead, IInv, LocalInv, Listings
<1>2. CASE Fail("not_found")
  BY <1>1, <1>2, EndKeeps DEF Fail
<1>3. CASE /\ todo' = {e.frame : e \in listing} /\ Goto("list_edit")
           /\ Keep(<<frame, listing, stack, visiting, acc>>)
  <2>1. pc' = "list_edit" /\ UNCHANGED <<call, frame, listing, stack, visiting, acc>>
    BY <1>3 DEF Goto, Keep
  <2>2. CatalogInv' /\ HeldInv' /\ Held' \subseteq Held
    <3>1. Held' \subseteq Held
      BY <1>3, <2>1 DEF Held
    <3> QED
      BY <1>1, <3>1, HeldKept
  <2>3. LocalInv'
    BY <1>1, <2>1 DEF IInv, LocalInv, Listings, Walking
  <2>4. ListInv'
    <3>1. \A e \in listing : SoFar(e.frame)' = {} /\ SoFar(e.frame) = {}
      BY <1>1, <1>3, <2>1 DEF SoFar
    <3>2. \A g \in Held' : g.org = call'.caller.org
      BY <1>1, <2>1, <2>2 DEF ListInv
    <3>3. since' = "nothing" =>
            \A g \in frames' : g.org = call'.caller.org => \E e \in listing' : e.frame = g
      BY <1>1, <2>1 DEF ListInv, catalog
    <3>4. \A e \in listing' : /\ e = [frame |-> e.frame, rights |-> e.rights]
                              /\ e.frame.id \in Ids(frames') => e.rights = SoFar(e.frame)'
      BY <1>1, <2>1, <3>1 DEF ListInv, catalog
    <3> QED
      BY <1>1, <2>1, <3>2, <3>3, <3>4 DEF ListInv
  <2>5. pc' \notin Walking
    BY <2>1 DEF Walking
  <2> QED
    BY <2>2, <2>3, <2>4, <2>5, NotWalking DEF IInv
<1>4. CASE \E e \in listing :
             /\ call' = [call EXCEPT !.org = e.frame.org,
                           !.version = IF @ = NoVersion THEN e.frame.latest ELSE @]
             /\ listing' = {} /\ Goto("get")
             /\ UNCHANGED <<frame, todo, stack, visiting, acc, page, reply>>
  <2>1. /\ pc' = "get" /\ listing' = {} /\ UNCHANGED <<frame, todo, stack, visiting, acc>>
        /\ call' = [op |-> call'.op, caller |-> call'.caller, org |-> call'.org,
                    name |-> call'.name, version |-> call'.version]
    <3>1. call = [op |-> call.op, caller |-> call.caller, org |-> call.org,
                  name |-> call.name, version |-> call.version]
      BY <1>1 DEF IInv, LocalInv
    <3> QED
      BY <1>4, <3>1 DEF Goto
  <2>2. CatalogInv' /\ HeldInv'
    <3>1. Held' \subseteq Held
      BY <2>1 DEF Held
    <3> QED
      BY <1>1, <3>1, HeldKept
  <2>3. LocalInv'
    BY <1>1, <2>1 DEF IInv, LocalInv, Listings, Walking
  <2>4. ListInv' /\ pc' \notin Walking
    BY <2>1 DEF ListInv, Listings, Walking
  <2> QED
    BY <2>2, <2>3, <2>4, NotWalking DEF IInv
<1> QED
  BY <1>2, <1>3, <1>4 DEF ListRead

\* A right is put in the entries of frame f, if the caller has it.
LEMMA GrantAdds ==
  ASSUME IInv, pc \in Listings, NEW f \in Held, NEW perm \in {"edit", "delete"}, Grant(f, perm)
  PROVE  /\ {d.frame : d \in listing'} = {e.frame : e \in listing}
         /\ \A d \in listing' : \E e \in listing :
              /\ d = [frame |-> e.frame, rights |-> d.rights]
              /\ e.frame.id \in Ids(frames) =>
                   d.rights = e.rights \cup
                     IF e.frame = f /\ (call.caller.role = "admin" \/ f.owner = call.caller.sub)
                       THEN {perm} ELSE {}
<1>DEFINE Given(e) == IF e.frame = f /\ Can(f, perm) THEN [e EXCEPT !.rights = @ \cup {perm}] ELSE e
<1>1. listing' = {Given(e) : e \in listing}
  BY DEF Grant
<1>2. ASSUME NEW e \in listing
      PROVE  /\ Given(e) = [frame |-> e.frame, rights |-> Given(e).rights]
             /\ Given(e).rights = e.rights \cup IF e.frame = f /\ Can(f, perm) THEN {perm} ELSE {}
  <2>1. e = [frame |-> e.frame, rights |-> e.rights]
    BY DEF IInv, ListInv
  <2>2. CASE e.frame = f /\ Can(f, perm)
    <3>1. Given(e) = [frame |-> e.frame, rights |-> e.rights \cup {perm}]
      BY <2>1, <2>2
    <3> QED
      BY <2>2, <3>1
  <2>3. CASE ~(e.frame = f /\ Can(f, perm))
    BY <2>1, <2>3
  <2> QED
    BY <2>2, <2>3
<1>3. f.org = call.caller.org
  BY DEF IInv, ListInv
<1>4. f.id \in Ids(frames) =>
        (Can(f, perm) <=> call.caller.role = "admin" \/ f.owner = call.caller.sub)
  BY <1>3, CanMeans
<1> HIDE DEF Given
<1>5. \A e \in listing : Given(e).frame = e.frame
  BY <1>2
<1>6. {d.frame : d \in listing'} = {e.frame : e \in listing}
  BY <1>1, <1>5
<1>7. ASSUME NEW e \in listing, e.frame.id \in Ids(frames)
      PROVE  Given(e).rights = e.rights \cup
               IF e.frame = f /\ (call.caller.role = "admin" \/ f.owner = call.caller.sub)
                 THEN {perm} ELSE {}
  BY <1>2, <1>4, <1>7
<1> QED
  BY <1>1, <1>2, <1>6, <1>7

\* The first right, or the end of the list.
LEMMA CheckEditKeeps ==
  ASSUME IInv, UNCHANGED <<catalog, since>>, CheckEdit
  PROVE  IInv'
<1>1. pc = "list_edit" /\ frame = {} /\ ListInv /\ pc \in Listings /\ UNCHANGED catalog
  BY DEF CheckEdit, IInv, LocalInv, Listings
<1>2. CASE Finish("ok")
  BY <1>1, <1>2, EndKeeps
<1>3. ASSUME NEW f \in todo, Grant(f, "edit"), frame' = {f}, todo' = todo \ {f},
             Goto("list_delete"), Keep(<<stack, visiting, acc>>)
      PROVE  IInv'
  <2>1. pc' = "list_delete" /\ UNCHANGED <<call, stack, visiting, acc>>
    BY <1>3 DEF Goto, Keep
  <2>2. f \in Held
    BY DEF Held
  <2>3. /\ {d.frame : d \in listing'} = {e.frame : e \in listing}
        /\ \A d \in listing' : \E e \in listing :
              /\ d = [frame |-> e.frame, rights |-> d.rights]
              /\ e.frame.id \in Ids(frames) =>
                   d.rights = e.rights \cup
                     IF e.frame = f /\ (call.caller.role = "admin" \/ f.owner = call.caller.sub)
                       THEN {"edit"} ELSE {}
    BY <1>1, <1>3, <2>2, GrantAdds
  <2>4. CatalogInv' /\ HeldInv' /\ Held' \subseteq Held
    <3>1. Held' \subseteq Held
      BY <1>3, <2>3 DEF Held
    <3> QED
      BY <1>1, <3>1, HeldKept
  <2>5. LocalInv'
    BY <1>1, <2>1 DEF IInv, LocalInv, Listings, Walking
  <2>6. ListInv'
    <3>1. \A g \in Held' : g.org = call'.caller.org
      BY <1>1, <2>1, <2>4 DEF ListInv
    <3>2. ASSUME since' = "nothing", NEW g \in frames', g.org = call'.caller.org
          PROVE  \E d \in listing' : d.frame = g
      <4>1. \E e \in listing : e.frame = g
        BY <1>1, <2>1, <3>2 DEF ListInv, catalog
      <4>2. g \in {d.frame : d \in listing'}
        BY <2>3, <4>1
      <4> QED
        BY <4>2
    <3>3. ASSUME NEW d \in listing'
          PROVE  /\ d = [frame |-> d.frame, rights |-> d.rights]
                 /\ d.frame.id \in Ids(frames') => d.rights = SoFar(d.frame)'
      <4>1. PICK e \in listing :
              /\ d = [frame |-> e.frame, rights |-> d.rights]
              /\ e.frame.id \in Ids(frames) =>
                   d.rights = e.rights \cup
                     IF e.frame = f /\ (call.caller.role = "admin" \/ f.owner = call.caller.sub)
                       THEN {"edit"} ELSE {}
        BY <2>3
      <4>2. d.frame = e.frame
        BY <4>1
      <4>3. e.frame.id \in Ids(frames) => e.rights = SoFar(e.frame)
        BY <1>1 DEF ListInv
      <4>4. SoFar(e.frame) = IF e.frame \in todo THEN {} ELSE Due(e.frame)
        BY <1>1 DEF SoFar
      <4>5. SoFar(e.frame)' = IF e.frame \in todo /\ e.frame # f THEN {}
                              ELSE IF e.frame = f THEN Due(e.frame) \ {"delete"} ELSE Due(e.frame)
        BY <1>3, <2>1 DEF SoFar, Due
      <4>6. CASE e.frame = f
        BY <1>1, <4>1, <4>2, <4>3, <4>4, <4>5, <4>6 DEF Due, catalog
      <4>7. CASE e.frame # f
        BY <1>1, <4>1, <4>2, <4>3, <4>4, <4>5, <4>7 DEF catalog
      <4> QED
        BY <4>6, <4>7
    <3> QED
      BY <1>3, <2>1, <3>1, <3>2, <3>3 DEF ListInv
  <2>7. pc' \notin Walking
    BY <2>1 DEF Walking
  <2> QED
    BY <2>4, <2>5, <2>6, <2>7, NotWalking DEF IInv
<1> QED
  BY <1>2, <1>3 DEF CheckEdit

\* The second, of the same frame.
LEMMA CheckDeleteKeeps ==
  ASSUME IInv, UNCHANGED <<catalog, since>>, CheckDelete
  PROVE  IInv'
<1>1. pc = "list_delete" /\ ListInv /\ pc \in Listings /\ UNCHANGED catalog
  BY DEF CheckDelete, IInv, Listings
<1>2. PICK f \in frame : Grant(f, "delete")
  BY DEF CheckDelete
<1>3. pc' = "list_edit" /\ frame' = {} /\ UNCHANGED <<call, todo, stack, visiting, acc>>
  BY DEF CheckDelete, Goto, Keep
<1>4. f \in Held /\ f \notin todo /\ \A g \in frame : g = f
  BY <1>1 DEF Held, ListInv
<1>5. /\ {d.frame : d \in listing'} = {e.frame : e \in listing}
      /\ \A d \in listing' : \E e \in listing :
            /\ d = [frame |-> e.frame, rights |-> d.rights]
            /\ e.frame.id \in Ids(frames) =>
                 d.rights = e.rights \cup
                   IF e.frame = f /\ (call.caller.role = "admin" \/ f.owner = call.caller.sub)
                     THEN {"delete"} ELSE {}
  BY <1>1, <1>2, <1>4, GrantAdds
<1>6. CatalogInv' /\ HeldInv' /\ Held' \subseteq Held
  <2>1. Held' \subseteq Held
    BY <1>3, <1>5 DEF Held
  <2> QED
    BY <1>1, <2>1, HeldKept
<1>7. LocalInv'
  BY <1>1, <1>3 DEF IInv, LocalInv, Listings, Walking
<1>8. ListInv'
  <2>1. \A g \in Held' : g.org = call'.caller.org
    BY <1>1, <1>3, <1>6 DEF ListInv
  <2>2. ASSUME since' = "nothing", NEW g \in frames', g.org = call'.caller.org
        PROVE  \E d \in listing' : d.frame = g
    <3>1. \E e \in listing : e.frame = g
      BY <1>1, <1>3, <2>2 DEF ListInv, catalog
    <3>2. g \in {d.frame : d \in listing'}
      BY <1>5, <3>1
    <3> QED
      BY <3>2
  <2>3. ASSUME NEW d \in listing'
        PROVE  /\ d = [frame |-> d.frame, rights |-> d.rights]
               /\ d.frame.id \in Ids(frames') => d.rights = SoFar(d.frame)'
    <3>1. PICK e \in listing :
            /\ d = [frame |-> e.frame, rights |-> d.rights]
            /\ e.frame.id \in Ids(frames) =>
                 d.rights = e.rights \cup
                   IF e.frame = f /\ (call.caller.role = "admin" \/ f.owner = call.caller.sub)
                     THEN {"delete"} ELSE {}
      BY <1>5
    <3>2. d.frame = e.frame
      BY <3>1
    <3>3. e.frame.id \in Ids(frames) => e.rights = SoFar(e.frame)
      BY <1>1 DEF ListInv
    <3>4. SoFar(e.frame) = IF e.frame \in todo THEN {}
                           ELSE IF e.frame = f THEN Due(e.frame) \ {"delete"} ELSE Due(e.frame)
      BY <1>1, <1>4 DEF SoFar
    <3>5. SoFar(e.frame)' = IF e.frame \in todo THEN {} ELSE Due(e.frame)
      BY <1>3 DEF SoFar, Due
    <3>6. CASE e.frame = f
      BY <1>1, <1>4, <3>1, <3>2, <3>3, <3>4, <3>5, <3>6 DEF Due, catalog
    <3>7. CASE e.frame # f
      BY <1>1, <3>1, <3>2, <3>3, <3>4, <3>5, <3>7 DEF catalog
    <3> QED
      BY <3>6, <3>7
  <2> QED
    BY <1>3, <2>1, <2>2, <2>3 DEF ListInv
<1>9. pc' \notin Walking
  BY <1>3 DEF Walking
<1> QED
  BY <1>6, <1>7, <1>8, <1>9, NotWalking DEF IInv

-----------------------------------------------------------------------------
(* The walk.                                                               *)

\* The lookup of the document asked for.
LEMMA GetFrameKeeps ==
  ASSUME IInv, UNCHANGED <<catalog, since>>, GetFrame
  PROVE  IInv'
<1>1. pc = "get" /\ UNCHANGED catalog
  BY DEF GetFrame
<1>2. CASE Fail("not_found")
  BY <1>1, <1>2, EndKeeps DEF Fail
<1>3. ASSUME Readable(call.org, call.name) # {}, frame' = Readable(call.org, call.name),
             Goto("version"), Keep(<<todo, listing, stack, visiting, acc>>)
      PROVE  IInv'
  <2>1. pc' = "version" /\ UNCHANGED <<call, todo, listing, stack, visiting, acc>>
    BY <1>3 DEF Goto, Keep
  <2>2. frame' \subseteq frames /\ call.org = call.caller.org
    BY <1>3 DEF Readable, Find, GetFrameBySlugName, Can
  <2>3. CatalogInv' /\ HeldInv'
    <3>1. Held' \subseteq Held \cup frames
      BY <2>1, <2>2 DEF Held
    <3> QED
      BY <1>1, <3>1, HeldKept
  <2>4. LocalInv'
    BY <1>1, <2>1, <2>2 DEF IInv, LocalInv, Listings, Walking
  <2>5. ListInv' /\ pc' \notin Walking
    BY <2>1 DEF ListInv, Listings, Walking
  <2> QED
    BY <2>3, <2>4, <2>5, NotWalking DEF IInv
<1> QED
  BY <1>2, <1>3 DEF GetFrame

\* A document that was published, as an entry of the stack.
LEMMA EntryOf ==
  ASSUME IInv, NEW v \in versions, NEW key, NEW excludes
  PROVE  LET e == Entry(key, v, excludes) IN
         /\ e = [key |-> key, doc |-> v, todo |-> v.extends, excludes |-> excludes \cup ToSet(v.excludes)]
         /\ e = [key |-> e.key, doc |-> e.doc, todo |-> e.todo, excludes |-> e.excludes]
         /\ Listed(e.todo) /\ Listed(e.doc.extends) /\ Listed(e.doc.excludes) /\ Listed(e.doc.slots.terms)
<1>1. Listed(v.extends) /\ Listed(v.excludes) /\ Listed(v.slots.terms)
  BY DEF IInv, CatalogInv, SlotsOf
<1> QED
  BY <1>1 DEF Entry

\* Its version, at the root of a walk.
LEMMA GetVersionKeeps ==
  ASSUME IInv, UNCHANGED <<catalog, since>>, GetFrameVersion
  PROVE  IInv'
<1>1. pc = "version" /\ UNCHANGED catalog
  BY DEF GetFrameVersion
<1>2. CASE Fail("not_found")
  BY <1>1, <1>2, EndKeeps DEF Fail
<1>3. CASE Finish("ok")
  BY <1>1, <1>3, EndKeeps
<1>4. ASSUME NEW v \in versions, stack' = <<Entry(<<>>, v, {})>>, frame' = {}, Goto("walk"),
             Keep(<<todo, listing, visiting, acc>>)
      PROVE  IInv'
  <2>1. pc' = "walk" /\ UNCHANGED <<call, todo, listing, visiting, acc>>
    BY <1>4 DEF Goto, Keep
  <2>2. visiting = {} /\ acc = Empty /\ call.org = call.caller.org
    BY <1>1 DEF IInv, LocalInv, Walking
  <2>3. CatalogInv' /\ HeldInv'
    <3>1. Held' \subseteq Held
      BY <1>4, <2>1 DEF Held
    <3> QED
      BY <1>1, <3>1, HeldKept
  <2>4. LocalInv'
    BY <1>1, <1>4, <2>1, <2>2 DEF IInv, LocalInv, Listings, Walking
  <2>5. ListInv' /\ ParentInv'
    BY <2>1 DEF ListInv, ParentInv, Listings
  <2>DEFINE e == Entry(<<>>, v, {})
  <2>6. /\ e.doc = v /\ e.excludes = ToSet(v.excludes)
        /\ e = [key |-> e.key, doc |-> e.doc, todo |-> e.todo, excludes |-> e.excludes]
        /\ Listed(e.todo) /\ Listed(e.doc.extends) /\ Listed(e.doc.excludes) /\ Listed(e.doc.slots.terms)
    <3>1. /\ e = [key |-> <<>>, doc |-> v, todo |-> v.extends, excludes |-> {} \cup ToSet(v.excludes)]
          /\ e = [key |-> e.key, doc |-> e.doc, todo |-> e.todo, excludes |-> e.excludes]
          /\ Listed(e.todo) /\ Listed(e.doc.extends) /\ Listed(e.doc.excludes) /\ Listed(e.doc.slots.terms)
      BY EntryOf
    <3> HIDE DEF e
    <3> QED
      BY <3>1
  <2> HIDE DEF e
  <2>7. stack' = <<e>> /\ Len(stack') = 1 /\ stack'[1] = e /\ Head(stack') = e /\ Listed(stack')
    <3>1. <<e>> \in Seq({e})
      OBVIOUS
    <3>2. Listed(<<e>>)
      BY <3>1, SeqIsListed
    <3> QED
      BY <1>4, <3>2 DEF e
  <2>8. Marks'
    BY <2>1, <2>2, <2>7 DEF Marks
  <2>9. StackInv'
    <3>1. Root' = v
      BY <2>6, <2>7 DEF Root
    <3>2. IsEntry(e)'
      BY <2>6, <3>1 DEF IsEntry
    <3>3. Listed(acc'.terms) /\ Said(acc') = {}
      <4>1. Listed(<<>>)
        BY DEF Listed
      <4>2. ToSet(<<>>) = {}
        BY DEF ToSet
      <4>3. acc'.terms = <<>> /\ acc'.goals = {}
        BY <2>1, <2>2 DEF Empty
      <4> QED
        BY <4>1, <4>2, <4>3 DEF Said
    <3> QED
      BY <2>7, <3>2, <3>3 DEF StackInv
  <2> QED
    BY <2>3, <2>4, <2>5, <2>8, <2>9 DEF IInv
<1> QED
  BY <1>2, <1>3, <1>4 DEF GetFrameVersion, RowsOf, VersionsOf

\* The document whose parents are walked.
LEMMA TopFacts ==
  ASSUME IInv, pc \in Walking
  PROVE  /\ Listed(stack) /\ Len(stack) \in Nat /\ Len(stack) > 0
         /\ Top = stack[Len(stack)] /\ Root = stack[1].doc /\ IsEntry(Top)
         /\ call.org = call.caller.org
<1>1. Listed(stack) /\ Len(stack) > 0
  BY DEF IInv, StackInv
<1>2. Len(stack) \in Nat
  BY <1>1, ListedFacts
<1>3. \A i \in 1..Len(stack) : IsEntry(stack[i])
  BY DEF IInv, StackInv
<1> QED
  BY <1>1, <1>2, <1>3, HeadIsFirst DEF Top, Last, Root, IInv, LocalInv, Walking

\* The stack when a parent has been passed: nothing but what is left to do of the
\* document on top has changed.
LEMMA PassedFacts ==
  ASSUME IInv, pc \in Walking, Top.todo # <<>>
  PROVE  /\ Listed(Passed) /\ Len(Passed) = Len(stack)
         /\ \A i \in 1..Len(stack) :
              /\ IsEntry(Passed[i])
              /\ Passed[i].key = stack[i].key /\ Passed[i].doc = stack[i].doc
<1>DEFINE x == [Top EXCEPT !.todo = Tail(@)]
<1>1. /\ Listed(stack) /\ Len(stack) \in Nat /\ Len(stack) > 0
      /\ Top = stack[Len(stack)] /\ IsEntry(Top)
  BY TopFacts
<1>2. Listed(Tail(Top.todo))
  BY <1>1, TailListed DEF IsEntry
<1>3. x = [key |-> Top.key, doc |-> Top.doc, todo |-> Tail(Top.todo), excludes |-> Top.excludes]
  <2>1. Top = [key |-> Top.key, doc |-> Top.doc, todo |-> Top.todo, excludes |-> Top.excludes]
    BY <1>1 DEF IsEntry
  <2> QED
    BY <2>1
<1>4. IsEntry(x) /\ x.key = Top.key /\ x.doc = Top.doc
  BY <1>1, <1>2, <1>3 DEF IsEntry
<1>5. Passed = Front(stack) \o <<x>>
  BY DEF Passed
<1> HIDE DEF x
<1>6. /\ Listed(Passed) /\ Len(Passed) = Len(stack) /\ Passed[Len(stack)] = x
      /\ \A i \in 1..Len(stack) : i < Len(stack) => Passed[i] = stack[i]
  BY <1>1, <1>5, LastReplaced
<1>7. ASSUME NEW i \in 1..Len(stack)
      PROVE  IsEntry(Passed[i]) /\ Passed[i].key = stack[i].key /\ Passed[i].doc = stack[i].doc
  <2>1. CASE i = Len(stack)
    BY <1>1, <1>4, <1>6, <2>1
  <2>2. CASE i < Len(stack)
    BY <1>1, <1>6, <2>2 DEF IInv, StackInv
  <2> QED
    BY <1>1, <2>1, <2>2
<1> QED
  BY <1>6, <1>7

\* What makes a stack one of the same walk.
LEMMA SameWalk ==
  ASSUME IInv, pc \in Walking, UNCHANGED call, Listed(stack'), Len(stack') > 0,
         stack'[1].doc = stack[1].doc,
         \A i \in 1..Len(stack') : IsEntry(stack'[i]) /\ (i > 1 => IsParent(stack'[i])),
         Listed(acc'.terms),
         \A s \in Said(acc') : [org |-> call.org, name |-> s.name] \notin ToSet(Root.excludes)
  PROVE  StackInv'
<1>1. Root' = Root
  BY TopFacts, HeadIsFirst DEF Root
<1>2. \A e : (IsEntry(e)' <=> IsEntry(e)) /\ (IsParent(e)' <=> IsParent(e))
  BY <1>1 DEF IsEntry, IsParent
<1> QED
  BY <1>1, <1>2 DEF StackInv

\* The rest of the invariant, after a step of the walk to another document.
LEMMA StillWalking ==
  ASSUME IInv, pc \in Walking, UNCHANGED <<catalog, since>>, pc' = "walk", frame' = {},
         UNCHANGED <<call, todo, listing>>, Marks', StackInv'
  PROVE  IInv'
<1>1. CatalogInv' /\ HeldInv'
  <2>1. Held' \subseteq Held /\ UNCHANGED catalog
    BY DEF Held
  <2> QED
    BY <2>1, HeldKept
<1>2. LocalInv'
  BY DEF IInv, LocalInv, Listings, Walking
<1>3. ListInv' /\ ParentInv'
  BY DEF ListInv, ParentInv, Listings
<1> QED
  BY <1>1, <1>2, <1>3 DEF IInv

\* A parent is left out.
LEMMA SkipKeeps ==
  ASSUME IInv, UNCHANGED <<catalog, since>>, SkipParent
  PROVE  IInv'
<1>1. /\ pc = "walk" /\ pc \in Walking /\ Top.todo # <<>> /\ pc' = "walk" /\ stack' = Passed
      /\ UNCHANGED <<call, frame, todo, listing, visiting, acc>>
  BY DEF SkipParent, Goto, Keep, Walking
<1>2. /\ Listed(stack') /\ Len(stack') = Len(stack) /\ Len(stack) \in Nat /\ Len(stack) > 0
      /\ \A i \in 1..Len(stack) :
           /\ IsEntry(stack'[i])
           /\ stack'[i].key = stack[i].key /\ stack'[i].doc = stack[i].doc
  BY <1>1, PassedFacts, TopFacts
<1>3. StackInv /\ Marks /\ frame = {}
  BY <1>1 DEF IInv, LocalInv
<1>4. Marks'
  <2>1. {stack'[i].key : i \in 2..Len(stack')} = {stack[i].key : i \in 2..Len(stack)}
    BY <1>2
  <2> QED
    BY <1>1, <1>2, <1>3, <2>1 DEF Marks
<1>5. StackInv'
  <2>1. \A i \in 1..Len(stack') : i > 1 => IsParent(stack'[i])
    BY <1>1, <1>2, <1>3 DEF StackInv, IsParent
  <2>2. Listed(acc'.terms) /\ \A s \in Said(acc') : [org |-> call.org, name |-> s.name] \notin ToSet(Root.excludes)
    BY <1>1, <1>3 DEF StackInv
  <2> QED
    BY <1>1, <1>2, <2>1, <2>2, SameWalk
<1> QED
  BY <1>1, <1>3, <1>4, <1>5, StillWalking

\* A parent is looked up.
LEMMA FetchKeeps ==
  ASSUME IInv, UNCHANGED <<catalog, since>>, FetchParent
  PROVE  IInv'
<1>1. pc = "walk" /\ pc \in Walking /\ Top.todo # <<>> /\ ~Excluded(Parent) /\ Key \notin visiting
      /\ UNCHANGED catalog
  BY DEF FetchParent, Walking
<1>2. CASE Unfetched
  BY <1>1, <1>2, EndKeeps DEF Unfetched, Fail
<1>3. ASSUME frame' = Readable(Parent.org, Parent.name), Goto("parent"),
             Keep(<<todo, listing, stack, visiting, acc>>)
      PROVE  IInv'
  <2>1. pc' = "parent" /\ UNCHANGED <<call, todo, listing, stack, visiting, acc>>
    BY <1>3 DEF Goto, Keep
  <2>2. /\ frame' \subseteq frames
        /\ \A f \in frame' : f.org = Parent.org /\ f.name = Parent.name /\ f.org = call.caller.org
    BY <1>3 DEF Readable, Find, GetFrameBySlugName, Can
  <2>3. CatalogInv' /\ HeldInv'
    <3>1. Held' \subseteq Held \cup frames
      BY <2>1, <2>2 DEF Held
    <3> QED
      BY <1>1, <3>1, HeldKept
  <2>4. LocalInv'
    BY <1>1, <2>1 DEF IInv, LocalInv, Listings, Walking
  <2>5. ListInv'
    BY <2>1 DEF ListInv, Listings
  <2>6. Marks' /\ StackInv'
    BY <1>1, <2>1 DEF IInv, Marks, StackInv, IsEntry, IsParent, Root
  <2>7. ParentInv'
    <3>1. Top' = Top /\ Parent' = Parent /\ Key' = Key /\ (Excluded(Parent)' <=> Excluded(Parent))
      BY <2>1 DEF Top, Parent, Key, Excluded
    <3> QED
      BY <1>1, <2>1, <2>2, <3>1 DEF ParentInv, catalog
  <2> QED
    BY <2>3, <2>4, <2>5, <2>6, <2>7 DEF IInv
<1> QED
  BY <1>2, <1>3 DEF FetchParent

\* The version of a parent that was fetched says what it says in the parent's name.
LEMMA ParentSays ==
  ASSUME IInv, pc = "parent", NEW f \in frame, NEW v \in RowsOf(f, Pinned(f, Parent))
  PROVE  /\ v \in versions
         /\ \A s \in Said(v.slots) : s.name = Parent.name
         /\ Parent.org = call.caller.org
         /\ [org |-> Parent.org, name |-> Parent.name] \notin ToSet(Root.excludes)
<1>1. v \in versions /\ v.frame = f.id
  BY DEF RowsOf, VersionsOf
<1>2. PICK g \in frames : g.id = v.frame /\ SlotsOf(g.name, v.slots)
  BY <1>1 DEF IInv, CatalogInv
<1>3. g.name = f.name
  BY <1>1, <1>2 DEF IInv, HeldInv, Held
<1>4. IsEntry(Top)
  BY TopFacts DEF Walking
<1> QED
  BY <1>1, <1>2, <1>3, <1>4 DEF IInv, ParentInv, SlotsOf, IsEntry, Excluded

\* It is put on top of the stack.
LEMMA DescendKeeps ==
  ASSUME IInv, UNCHANGED <<catalog, since>>, FetchParentVersion
  PROVE  IInv'
<1>1. pc = "parent" /\ pc \in Walking /\ ParentInv /\ UNCHANGED catalog
  BY DEF FetchParentVersion, IInv, Walking
<1>2. CASE Unfetched
  BY <1>1, <1>2, EndKeeps DEF Unfetched, Fail
<1>3. ASSUME NEW f \in frame, NEW v \in RowsOf(f, Pinned(f, Parent)),
             visiting' = visiting \cup {Key}, stack' = Append(Passed, Entry(Key, v, Top.excludes)),
             frame' = {}, Goto("walk"), Keep(<<todo, listing, acc>>)
      PROVE  IInv'
  <2>1. pc' = "walk" /\ UNCHANGED <<call, todo, listing, acc>>
    BY <1>3 DEF Goto, Keep
  <2>2. Top.todo # <<>> /\ Key \notin visiting /\ IsEntry(Top)
    BY <1>1, TopFacts DEF ParentInv
  <2>3. /\ Listed(Passed) /\ Len(Passed) = Len(stack) /\ Len(stack) \in Nat /\ Len(stack) > 0
        /\ \A i \in 1..Len(stack) :
             /\ IsEntry(Passed[i])
             /\ Passed[i].key = stack[i].key /\ Passed[i].doc = stack[i].doc
    BY <1>1, <2>2, PassedFacts, TopFacts
  <2>4. /\ v \in versions
        /\ \A s \in Said(v.slots) : s.name = Parent.name
        /\ Parent.org = call.caller.org
        /\ [org |-> Parent.org, name |-> Parent.name] \notin ToSet(Root.excludes)
    BY <1>1, ParentSays
  <2>DEFINE e == Entry(Key, v, Top.excludes)
  <2>5. e.key = Key /\ e.doc = v /\ IsEntry(e)
    <3>1. /\ e.key = Key /\ e.doc = v /\ e.excludes = Top.excludes \cup ToSet(v.excludes)
          /\ e = [key |-> e.key, doc |-> e.doc, todo |-> e.todo, excludes |-> e.excludes]
          /\ Listed(e.todo) /\ Listed(e.doc.extends) /\ Listed(e.doc.excludes) /\ Listed(e.doc.slots.terms)
      BY <2>4, EntryOf
    <3> HIDE DEF e
    <3> QED
      BY <2>2, <3>1 DEF IsEntry
  <2>6. IsParent(e)
    <3>1. Key.org = Parent.org /\ Key.name = Parent.name
      BY DEF Key
    <3> HIDE DEF e
    <3> QED
      BY <2>4, <2>5, <3>1 DEF IsParent
  <2>7. stack' = Append(Passed, e)
    BY <1>3
  <2> HIDE DEF e
  <2>8. /\ Listed(stack') /\ Len(stack') = Len(stack) + 1 /\ stack'[Len(stack) + 1] = e
        /\ \A i \in 1..Len(stack) : stack'[i] = Passed[i]
    BY <2>3, <2>7, OneAppended
  <2>9. StackInv /\ Marks
    BY DEF IInv
  <2>10. Marks'
    <3>1. {stack'[i].key : i \in 2..Len(stack')} = {stack[i].key : i \in 2..Len(stack)} \cup {Key}
      <4>1. \A i \in 2..Len(stack) : stack'[i].key = stack[i].key
        BY <2>3, <2>8
      <4>2. \A i \in 2..Len(stack') : i \in 2..Len(stack) \/ i = Len(stack) + 1
        BY <2>3, <2>8
      <4>3. Len(stack) + 1 \in 2..Len(stack') /\ stack'[Len(stack) + 1].key = Key
        BY <2>3, <2>5, <2>8
      <4>4. \A i \in 2..Len(stack) : i \in 2..Len(stack')
        BY <2>3, <2>8
      <4> QED
        BY <4>1, <4>2, <4>3, <4>4
    <3>2. ASSUME NEW i \in 2..Len(stack'), NEW j \in 2..Len(stack'), stack'[i].key = stack'[j].key
          PROVE  i = j
      <4>1. \A k \in 2..Len(stack) : stack'[k].key = stack[k].key /\ stack[k].key # Key
        BY <1>1, <2>2, <2>3, <2>8, <2>9 DEF Marks
      <4>2. stack'[Len(stack) + 1].key = Key
        BY <2>5, <2>8
      <4>3. \A k \in 2..Len(stack') : k \in 2..Len(stack) \/ k = Len(stack) + 1
        BY <2>3, <2>8
      <4> QED
        BY <1>1, <2>9, <3>2, <4>1, <4>2, <4>3 DEF Marks
    <3> QED
      BY <1>1, <1>3, <2>9, <3>1, <3>2 DEF Marks
  <2>11. StackInv'
    <3>1. \A i \in 1..Len(stack') : IsEntry(stack'[i]) /\ (i > 1 => IsParent(stack'[i]))
      <4>1. \A i \in 1..Len(stack') : i \in 1..Len(stack) \/ i = Len(stack) + 1
        BY <2>3, <2>8
      <4>2. \A i \in 1..Len(stack) : IsEntry(stack'[i]) /\ (i > 1 => IsParent(stack'[i]))
        BY <1>1, <2>3, <2>8, <2>9 DEF StackInv, IsParent
      <4> QED
        BY <2>5, <2>6, <2>8, <4>1, <4>2
    <3>2. Len(stack') > 0 /\ stack'[1].doc = stack[1].doc
      BY <2>3, <2>8
    <3>3. Listed(acc'.terms) /\ \A s \in Said(acc') : [org |-> call.org, name |-> s.name] \notin ToSet(Root.excludes)
      BY <1>1, <2>1, <2>9 DEF StackInv
    <3> QED
      BY <1>1, <2>1, <2>8, <3>1, <3>2, <3>3, SameWalk
  <2> QED
    BY <1>1, <1>3, <2>1, <2>10, <2>11, StillWalking
<1> QED
  BY <1>2, <1>3 DEF FetchParentVersion

\* What an ancestor says is merged; nobody excluded says it.
LEMMA MergedSaid ==
  ASSUME IInv, pc \in Walking
  PROVE  /\ Listed(mergeInto(acc, Top.doc.slots).terms)
         /\ \A s \in Said(mergeInto(acc, Top.doc.slots)) :
              \/ Len(stack) = 1 /\ s \in Said(Root.slots)
              \/ [org |-> call.org, name |-> s.name] \notin ToSet(Root.excludes)
<1>1. /\ Len(stack) \in Nat /\ Len(stack) > 0 /\ Top = stack[Len(stack)] /\ Root = stack[1].doc
      /\ IsEntry(Top) /\ call.org = call.caller.org
  BY TopFacts
<1>2. Listed(acc.terms) /\ \A s \in Said(acc) : [org |-> call.org, name |-> s.name] \notin ToSet(Root.excludes)
  BY DEF IInv, StackInv
<1>3. /\ Listed(mergeInto(acc, Top.doc.slots).terms)
      /\ \A s \in Said(mergeInto(acc, Top.doc.slots)) : s \in Said(acc) \/ s \in Said(Top.doc.slots)
  BY <1>1, <1>2, MergedSays DEF IsEntry
<1>4. CASE Len(stack) = 1
  BY <1>1, <1>2, <1>3, <1>4
<1>5. CASE Len(stack) # 1
  <2>1. IsParent(Top)
    <3>1. \A n \in Nat : n > 0 /\ n # 1 => n > 1 /\ n \in 1..n
      OBVIOUS
    <3>2. Len(stack) > 1 /\ Len(stack) \in 1..Len(stack)
      BY <1>1, <1>5, <3>1
    <3> QED
      BY <1>1, <3>2 DEF IInv, StackInv
  <2>2. \A s \in Said(Top.doc.slots) : [org |-> call.org, name |-> s.name] \notin ToSet(Root.excludes)
    BY <1>1, <2>1 DEF IsParent
  <2> QED
    BY <1>2, <1>3, <2>2
<1> QED
  BY <1>4, <1>5

\* A document is done, and leaves the stack.
LEMMA MergeKeeps ==
  ASSUME IInv, UNCHANGED <<catalog, since>>, Merge
  PROVE  IInv'
<1>1. pc = "walk" /\ pc \in Walking /\ UNCHANGED catalog /\ acc' = mergeInto(acc, Top.doc.slots)
  BY DEF Merge, Walking
<1>2. CASE Finish("ok")
  BY <1>1, <1>2, EndKeeps
<1>3. ASSUME Len(stack) > 1, stack' = Front(stack), visiting' = Leave(Top.key), Goto("walk"),
             Keep(<<frame, todo, listing>>)
      PROVE  IInv'
  <2>1. pc' = "walk" /\ frame' = {} /\ UNCHANGED <<call, todo, listing>>
    BY <1>1, <1>3 DEF Goto, Keep, IInv, LocalInv
  <2>2. Listed(stack) /\ Len(stack) \in Nat /\ Top = stack[Len(stack)]
    BY <1>1, TopFacts
  <2>3. /\ Listed(stack') /\ Len(stack') = Len(stack) - 1
        /\ \A i \in 1..(Len(stack) - 1) : stack'[i] = stack[i]
    BY <1>3, <2>2, LastTaken
  <2>4. StackInv /\ Marks
    BY DEF IInv
  <2>5. Marks'
    <3>1. \A i \in 2..Len(stack') : i \in 2..Len(stack) /\ i # Len(stack) /\ stack'[i] = stack[i]
      BY <2>2, <2>3
    <3>2. Len(stack) \in 2..Len(stack)
          /\ \A i \in 2..Len(stack) : i = Len(stack) \/ i \in 2..Len(stack')
      BY <1>3, <2>2, <2>3
    <3>3. /\ visiting = {stack[i].key : i \in 2..Len(stack)}
          /\ \A i, j \in 2..Len(stack) : stack[i].key = stack[j].key => i = j
      BY <1>1, <2>4 DEF Marks
    <3>4. visiting' = {stack[i].key : i \in 2..Len(stack)} \ {stack[Len(stack)].key}
      BY <1>3, <2>2, <3>3 DEF Leave
    <3>5. visiting' = {stack'[i].key : i \in 2..Len(stack')}
      BY <3>1, <3>2, <3>3, <3>4
    <3> QED
      BY <3>1, <3>3, <3>5 DEF Marks
  <2>6. StackInv'
    <3>1. /\ Listed(acc'.terms)
          /\ \A s \in Said(acc') : [org |-> call.org, name |-> s.name] \notin ToSet(Root.excludes)
      BY <1>1, <1>3, <2>2, MergedSaid
    <3>2. \A i \in 1..Len(stack') : IsEntry(stack'[i]) /\ (i > 1 => IsParent(stack'[i]))
      BY <1>1, <2>2, <2>3, <2>4 DEF StackInv
    <3>3. Len(stack') > 0 /\ stack'[1].doc = stack[1].doc
      BY <1>3, <2>2, <2>3
    <3> QED
      BY <1>1, <2>1, <2>3, <3>1, <3>2, <3>3, SameWalk
  <2> QED
    BY <1>1, <2>1, <2>5, <2>6, StillWalking
<1> QED
  BY <1>2, <1>3 DEF Merge

-----------------------------------------------------------------------------
(* The invariant.                                                          *)

\* The registry and the reader start with nothing.
LEMMA InitKeeps ==
  ASSUME InitReader
  PROVE  IInv
<1>1. CatalogInv /\ HeldInv
  BY DEF InitReader, CatalogInv, HeldInv
<1>2. LocalInv
  BY DEF InitReader, LocalInv, Listings, Walking
<1>3. ListInv /\ Marks /\ StackInv /\ ParentInv
  BY DEF InitReader, ListInv, Marks, StackInv, ParentInv, Listings, Walking
<1> QED
  BY <1>1, <1>2, <1>3 DEF IInv

\* Every step of the reader's keeps the invariant.
LEMMA ReaderKeeps ==
  ASSUME IInv, ReaderStep
  PROVE  IInv'
<1>1. UNCHANGED <<catalog, since>> /\ UNCHANGED catalog
  BY DEF ReaderStep
<1>2. CASE ListFramesByOrg
  BY <1>1, <1>2, ListFramesKeeps
<1>3. CASE CheckRead
  BY <1>1, <1>3, CheckReadKeeps
<1>4. CASE ListRead
  BY <1>1, <1>4, ListReadKeeps
<1>5. CASE CheckEdit
  BY <1>1, <1>5, CheckEditKeeps
<1>6. CASE CheckDelete
  BY <1>1, <1>6, CheckDeleteKeeps
<1>7. CASE GetFrame
  BY <1>1, <1>7, GetFrameKeeps
<1>8. CASE GetFrameVersion
  BY <1>1, <1>8, GetVersionKeeps
<1>9. CASE ListFrameVersions
  BY <1>1, <1>9, EndKeeps DEF ListFrameVersions
<1>10. CASE SkipParent
  BY <1>1, <1>10, SkipKeeps
<1>11. CASE FindCycle
  BY <1>1, <1>11, EndKeeps DEF FindCycle, Fail
<1>12. CASE FetchParent
  BY <1>1, <1>12, FetchKeeps
<1>13. CASE FetchParentVersion
  BY <1>1, <1>13, DescendKeeps
<1>14. CASE Merge
  BY <1>1, <1>14, MergeKeeps
<1> QED
  BY <1>2, <1>3, <1>4, <1>5, <1>6, <1>7, <1>8, <1>9, <1>10, <1>11, <1>12, <1>13, <1>14
     DEF ReaderStep, ReaderCall

\* So does every step, and so does none.
LEMMA StepKeeps ==
  ASSUME IInv, [NextReader]_vars
  PROVE  IInv'
<1>1. CASE Publish \/ Delete
  BY <1>1, CatalogSteps
<1>2. CASE Receive
  BY <1>2, ReceiveKeeps
<1>3. CASE ReaderStep
  BY <1>3, ReaderKeeps
<1>4. CASE StoreError /\ UNCHANGED <<catalog, since, answered>>
  <2>1. UNCHANGED catalog /\ Finish("internal")
    BY <1>4 DEF StoreError, Fail
  <2> QED
    BY <2>1, EndKeeps
<1>5. CASE UNCHANGED vars
  <2>1. UNCHANGED <<frames, versions, pc, call, frame, todo, listing, stack, visiting, acc, since>>
    BY <1>5 DEF vars, local, catalog
  <2>2. CatalogInv' /\ HeldInv' /\ LocalInv'
    BY <2>1 DEF IInv, CatalogInv, HeldInv, LocalInv, Held
  <2>3. ListInv'
    BY <2>1 DEF IInv, ListInv, Held, SoFar, Due
  <2>4. Marks' /\ StackInv'
    BY <2>1 DEF IInv, Marks, StackInv, IsEntry, IsParent, Root
  <2>5. ParentInv'
    BY <2>1 DEF IInv, ParentInv, Top, Parent, Key, Excluded
  <2> QED
    BY <2>2, <2>3, <2>4, <2>5 DEF IInv
<1> QED
  BY <1>1, <1>2, <1>3, <1>4, <1>5 DEF NextReader

\* The catalog, what a reader holds of it and the walk are what they should be;
\* the marks are the parents being resolved, so that a parent with a mark is one
\* that comes back to itself.
THEOREM Walk == SpecReader => []IInv
<1>1. InitReader => IInv
  BY InitKeeps
<1>2. IInv /\ [NextReader]_vars => IInv'
  BY StepKeeps
<1> QED
  BY <1>1, <1>2, PTL DEF SpecReader

-----------------------------------------------------------------------------
(* What a reader is given.                                                 *)

\* The list a caller is given is the one that has been made, and only CheckEdit
\* gives one.
LEMMA ListEnds ==
  ASSUME IInv, [NextReader]_vars, pc = "list_edit", pc' = "idle", reply' = "ok"
  PROVE  todo = {} /\ page' = listing
<1>1. CASE Publish \/ Delete \/ UNCHANGED vars
  BY <1>1 DEF Publish, Delete, vars, local
<1>2. CASE Receive \/ StoreError
  BY <1>2 DEF Receive, StoreError, Fail, Finish
<1>3. CASE ReaderStep
  <2>1. CheckEdit
    BY <1>3 DEF ReaderStep, ReaderCall, ListFramesByOrg, CheckRead, ListRead, CheckDelete, GetFrame,
                GetFrameVersion, ListFrameVersions, SkipParent, FindCycle, FetchParent,
                FetchParentVersion, Merge
  <2> QED
    BY <2>1 DEF CheckEdit, Goto
<1> QED
  BY <1>1, <1>2, <1>3 DEF NextReader

\* A list has every frame of the caller's organization there was from the query
\* to the end, and says what the caller may do with each that is still there.
THEOREM ListsAreComplete == SpecReader => ListIsComplete
<1>DEFINE Complete ==
     pc = "list_edit" /\ pc' = "idle" /\ reply' = "ok" =>
       /\ \A f \in frames : f.org = call.caller.org /\ since = "nothing" =>
            \E e \in page' : e.frame = f
       /\ \A e \in page' :
            /\ e.frame.org = call.caller.org
            /\ e.frame.id \in Ids(frames) =>
                 e.rights = IF call.caller.role = "admin" \/ e.frame.owner = call.caller.sub
                              THEN {"edit", "delete"} ELSE {}
<1>1. IInv /\ [NextReader]_vars => [Complete]_vars
  <2> SUFFICES ASSUME IInv, [NextReader]_vars, pc = "list_edit", pc' = "idle", reply' = "ok"
      PROVE  /\ \A f \in frames : f.org = call.caller.org /\ since = "nothing" =>
                  \E e \in page' : e.frame = f
             /\ \A e \in page' :
                  /\ e.frame.org = call.caller.org
                  /\ e.frame.id \in Ids(frames) =>
                       e.rights = IF call.caller.role = "admin" \/ e.frame.owner = call.caller.sub
                                    THEN {"edit", "delete"} ELSE {}
    OBVIOUS
  <2>1. todo = {} /\ page' = listing /\ frame = {} /\ ListInv /\ pc \in Listings
    BY ListEnds DEF IInv, LocalInv, Listings
  <2>2. \A e \in listing : SoFar(e.frame) = Due(e.frame) /\ e.frame \in Held
    BY <2>1 DEF SoFar, Held
  <2> QED
    BY <2>1, <2>2 DEF ListInv, Due
<1>2. IInv /\ [NextReader]_vars => IInv'
  BY StepKeeps
<1>3. InitReader => IInv
  BY InitKeeps
<1> QED
  BY <1>1, <1>2, <1>3, PTL DEF SpecReader, ListIsComplete

\* A resolved document is given where the root is merged, and nowhere else.
LEMMA ResolveEnds ==
  ASSUME [NextReader]_vars, Resolved, reply' = "ok"
  PROVE  /\ pc = "walk" /\ Top.todo = <<>> /\ Len(stack) = 1 /\ UNCHANGED catalog
         /\ acc' = mergeInto(acc, Top.doc.slots)
<1>1. CASE Publish \/ Delete \/ UNCHANGED vars
  BY <1>1 DEF Publish, Delete, vars, local, Resolved
<1>2. CASE Receive \/ StoreError
  BY <1>2 DEF Receive, StoreError, Fail, Finish, Resolved
<1>3. CASE ReaderStep
  <2>1. ~(ListFramesByOrg \/ CheckRead \/ ListRead \/ CheckEdit \/ CheckDelete)
    BY DEF ListFramesByOrg, CheckRead, ListRead, CheckEdit, CheckDelete, Resolved
  <2>2. ~(GetFrame \/ GetFrameVersion \/ ListFrameVersions)
    BY DEF GetFrame, GetFrameVersion, ListFrameVersions, Fail, Finish, Goto, Resolved
  <2>3. ~(SkipParent \/ FindCycle \/ FetchParent \/ FetchParentVersion)
    BY DEF SkipParent, FindCycle, FetchParent, FetchParentVersion, Unfetched, Fail, Finish, Goto, Resolved
  <2>4. Merge
    BY <1>3, <2>1, <2>2, <2>3 DEF ReaderStep, ReaderCall
  <2> QED
    BY <1>3, <2>4 DEF Merge, Goto, Resolved, ReaderStep
<1> QED
  BY <1>1, <1>2, <1>3 DEF NextReader

\* Nothing an excluded frame says is in a resolved document, whichever ancestor
\* it comes through and whatever is published or deleted during the walk.
THEOREM NothingExcluded == SpecReader => ExcludedNotMerged
<1>DEFINE NotMerged ==
     Resolved /\ reply' = "ok" =>
       \A s \in {t.from : t \in ToSet(acc'.terms)} \cup acc'.goals :
         \/ s \in {t.from : t \in ToSet(Root.slots.terms)} \cup Root.slots.goals
         \/ [org |-> call.org, name |-> s.name] \notin ToSet(Root.excludes)
<1>1. IInv /\ [NextReader]_vars => [NotMerged]_vars
  <2> SUFFICES ASSUME IInv, [NextReader]_vars, Resolved, reply' = "ok", NEW s \in Said(acc')
      PROVE  \/ s \in Said(Root.slots)
             \/ [org |-> call.org, name |-> s.name] \notin ToSet(Root.excludes)
    BY DEF Said
  <2>1. pc \in Walking /\ acc' = mergeInto(acc, Top.doc.slots)
    BY ResolveEnds DEF Walking
  <2> QED
    BY <2>1, MergedSaid
<1>2. IInv /\ [NextReader]_vars => IInv'
  BY StepKeeps
<1>3. InitReader => IInv
  BY InitKeeps
<1> QED
  BY <1>1, <1>2, <1>3, PTL DEF SpecReader, ExcludedNotMerged

-----------------------------------------------------------------------------
(* The walk as a computation.  What the stack and the slots merged so far   *)
(* become depends on nothing but the versions parents are pinned to, and    *)
(* these stay what they are while nothing is deleted: two walks from one    *)
(* document are one walk, however much is published between their steps.    *)

\* The version a parent is pinned to.
PinnedBy(p) ==
  {v \in versions : /\ v.version = p.version
                    /\ \E f \in frames : v.frame = f.id /\ f.org = p.org /\ f.name = p.name}

\* Parent p is of the organization of the frame that doc is a version of.
OwnedAlike(p, doc) == \E f \in frames : f.id = doc.frame /\ f.org = p.org

\* A stack and what has been merged, and those that come next.
Moves(w, u) ==
  LET top == Last(w.stack)
      p == Head(top.todo)
      key == [org |-> p.org, name |-> p.name, version |-> p.version]
      passed == Front(w.stack) \o <<[top EXCEPT !.todo = Tail(@)]>>
      excluded == [org |-> p.org, name |-> p.name] \in top.excludes
  IN \/ top.todo # <<>> /\ excluded /\ u = [stack |-> passed, acc |-> w.acc]
     \/ /\ top.todo # <<>> /\ ~excluded
        /\ key \notin {w.stack[i].key : i \in 2..Len(w.stack)} /\ OwnedAlike(p, Head(w.stack).doc)
        /\ \E v \in PinnedBy(p) :
             u = [stack |-> Append(passed, Entry(key, v, top.excludes)), acc |-> w.acc]
     \/ /\ top.todo = <<>> /\ Len(w.stack) > 1
        /\ u = [stack |-> Front(w.stack), acc |-> mergeInto(w.acc, top.doc.slots)]

\* The root alone is left, and its parents are done.
Done(w) == Last(w.stack).todo = <<>> /\ Len(w.stack) = 1

Start(doc) == [stack |-> <<Entry(<<>>, doc, {})>>, acc |-> Empty]

\* n steps from document doc.
IsWalk(tr, n, doc) == tr[0] = Start(doc) /\ \A i \in Nat : i < n => Moves(tr[i], tr[i + 1])

\* The reader is on a walk from the root, ...
OnWalk(n, tr) == IsWalk(tr, n, Root) /\ tr[n] = [stack |-> stack, acc |-> acc]

\* ... and a document returned came from a walk that was done.
Returned(a, n, tr) ==
  /\ IsWalk(tr, n, a.doc) /\ Done(tr[n])
  /\ a.slots = mergeInto(tr[n].acc, Last(tr[n].stack).doc.slots)

WalkInv ==
  /\ pc \in Walking /\ since # "delete" => \E n \in Nat : \E tr : OnWalk(n, tr)
  /\ \A a \in answered : \E n \in Nat : \E tr : Returned(a, n, tr)

\* A parent is pinned to one version at most.
LEMMA PinnedOnce ==
  ASSUME CatalogInv, NEW p, NEW v \in PinnedBy(p), NEW x \in PinnedBy(p)
  PROVE  v = x
BY DEF CatalogInv, PinnedBy

\* There is one next step at most, ...
LEMMA OneMove ==
  ASSUME CatalogInv, NEW w, NEW u, NEW x, Moves(w, u), Moves(w, x)
  PROVE  u = x
<1>DEFINE top == Last(w.stack)
          p == Head(top.todo)
<1>1. CASE top.todo = <<>>
  BY <1>1 DEF Moves
<1>2. CASE top.todo # <<>> /\ [org |-> p.org, name |-> p.name] \in top.excludes
  BY <1>2 DEF Moves
<1>3. CASE top.todo # <<>> /\ [org |-> p.org, name |-> p.name] \notin top.excludes
  <2>DEFINE Below(v) ==
       [stack |-> Append(Front(w.stack) \o <<[top EXCEPT !.todo = Tail(@)]>>,
                         Entry([org |-> p.org, name |-> p.name, version |-> p.version], v, top.excludes)),
        acc |-> w.acc]
  <2>1. (\E v \in PinnedBy(p) : u = Below(v)) /\ (\E v \in PinnedBy(p) : x = Below(v))
    BY <1>3 DEF Moves
  <2> HIDE DEF Below
  <2> QED
    BY <2>1, PinnedOnce
<1> QED
  BY <1>1, <1>2, <1>3

\* ... and none where the walk is done.
LEMMA DoneIsLast ==
  ASSUME NEW w, NEW u, Done(w), Moves(w, u)
  PROVE  FALSE
BY DEF Done, Moves

\* A publish leaves every step there is.
LEMMA MovesStay ==
  ASSUME CatalogInv, Publish, NEW w, NEW u, Moves(w, u)
  PROVE  Moves(w, u)'
<1>1. \A p : PinnedBy(p) \subseteq PinnedBy(p)'
  <2> SUFFICES ASSUME NEW p, NEW v \in PinnedBy(p) PROVE v \in PinnedBy(p)'
    OBVIOUS
  <2>1. PICK f \in frames : v.frame = f.id /\ f.org = p.org /\ f.name = p.name
    BY DEF PinnedBy
  <2>2. PICK g \in frames' : Same(f, g)
    BY PublishKeeps
  <2>3. v \in versions' /\ v.version = p.version
    BY PublishKeeps DEF PinnedBy
  <2> QED
    BY <2>1, <2>2, <2>3 DEF PinnedBy, Same
<1>2. \A p, doc : OwnedAlike(p, doc) => OwnedAlike(p, doc)'
  BY PublishKeeps DEF OwnedAlike, Same
<1> QED
  BY <1>1, <1>2 DEF Moves, Entry

\* Two walks from one document are the same as far as both go.
LEMMA WalksAgree ==
  ASSUME CatalogInv, NEW doc, NEW n \in Nat, NEW m \in Nat, NEW tr, NEW ts,
         IsWalk(tr, n, doc), IsWalk(ts, m, doc), n <= m
  PROVE  tr[n] = ts[n]
<1>DEFINE N == {k \in Nat : k <= n => tr[k] = ts[k]}
<1>1. 0 \in N
  BY DEF IsWalk
<1>2. ASSUME NEW k \in N PROVE k + 1 \in N
  <2> SUFFICES ASSUME k + 1 <= n PROVE tr[k + 1] = ts[k + 1]
    OBVIOUS
  <2>1. k \in Nat /\ k < n /\ k < m /\ tr[k] = ts[k]
    OBVIOUS
  <2>2. Moves(tr[k], tr[k + 1]) /\ Moves(ts[k], ts[k + 1])
    BY <2>1 DEF IsWalk
  <2> QED
    BY <2>1, <2>2, OneMove
<1>3. N = Nat
  <2>1. N \in SUBSET Nat
    OBVIOUS
  <2> HIDE DEF N
  <2> QED
    BY <1>1, <1>2, <2>1, SetInduction
<1> QED
  BY <1>3

\* Two that are done are the same.
LEMMA WalksEndAlike ==
  ASSUME CatalogInv, NEW doc, NEW n \in Nat, NEW m \in Nat, NEW tr, NEW ts,
         IsWalk(tr, n, doc), IsWalk(ts, m, doc), Done(tr[n]), Done(ts[m])
  PROVE  tr[n] = ts[m]
<1>1. ~(n < m)
  <2> SUFFICES ASSUME n < m PROVE FALSE
    OBVIOUS
  <2>1. tr[n] = ts[n]
    BY WalksAgree
  <2>2. Moves(ts[n], ts[n + 1])
    BY DEF IsWalk
  <2> QED
    BY <2>1, <2>2, DoneIsLast
<1>2. ~(m < n)
  <2> SUFFICES ASSUME m < n PROVE FALSE
    OBVIOUS
  <2>1. ts[m] = tr[m]
    BY WalksAgree
  <2>2. Moves(tr[m], tr[m + 1])
    BY DEF IsWalk
  <2> QED
    BY <2>1, <2>2, DoneIsLast
<1>3. n = m
  BY <1>1, <1>2
<1> QED
  BY <1>3, WalksAgree

\* One step more.
LEMMA WalkGoesOn ==
  ASSUME NEW doc, NEW n \in Nat, NEW tr, NEW u, IsWalk(tr, n, doc), Moves(tr[n], u)
  PROVE  \E ts : IsWalk(ts, n + 1, doc) /\ ts[n + 1] = u
<1>DEFINE ts == [i \in Nat |-> IF i <= n THEN tr[i] ELSE u]
<1>1. ts[0] = Start(doc)
  BY DEF IsWalk
<1>2. ts[n + 1] = u
  OBVIOUS
<1>3. ASSUME NEW i \in Nat, i < n + 1 PROVE Moves(ts[i], ts[i + 1])
  <2>1. CASE i < n
    <3>1. ts[i] = tr[i] /\ ts[i + 1] = tr[i + 1]
      BY <2>1
    <3>2. Moves(tr[i], tr[i + 1])
      BY <2>1 DEF IsWalk
    <3> HIDE DEF ts
    <3> QED
      BY <3>1, <3>2
  <2>2. CASE i = n
    <3>1. ts[i] = tr[n] /\ ts[i + 1] = u
      BY <2>2
    <3> HIDE DEF ts
    <3> QED
      BY <3>1
  <2> QED
    BY <1>3, <2>1, <2>2
<1> HIDE DEF ts
<1>4. IsWalk(ts, n + 1, doc)
  BY <1>1, <1>3 DEF IsWalk
<1> QED
  BY <1>2, <1>4

\* The root of the walk is a version of a frame of the caller's organization.
RootInv ==
  /\ pc = "version" => \A f \in frame : f.org = call.caller.org
  /\ pc \in Walking /\ since # "delete" =>
       Root \in versions /\ \E f \in frames : f.id = Root.frame /\ f.org = call.caller.org

\* While nothing is deleted, a step of the reader's walk is a step of this one.
LEMMA ReaderMoves ==
  ASSUME IInv, RootInv, pc \in Walking, since # "delete",
         SkipParent \/ FetchParentVersion \/ Merge, pc' = "walk"
  PROVE  Moves([stack |-> stack, acc |-> acc], [stack |-> stack', acc |-> acc'])
<1>DEFINE w == [stack |-> stack, acc |-> acc]
<1>1. w.stack = stack /\ w.acc = acc /\ Last(w.stack) = Top
  BY DEF Top
<1>2. CASE SkipParent
  BY <1>2 DEF SkipParent, Moves, Passed, Top, Parent, Excluded, Keep
<1>3. CASE FetchParentVersion
  <2>1. \E f \in frame : \E v \in RowsOf(f, Pinned(f, Parent)) :
          stack' = Append(Passed, Entry(Key, v, Top.excludes)) /\ UNCHANGED acc
    BY <1>3 DEF FetchParentVersion, Unfetched, Fail, Finish, Goto, Keep
  <2> PICK f \in frame : \E v \in RowsOf(f, Pinned(f, Parent)) :
          stack' = Append(Passed, Entry(Key, v, Top.excludes)) /\ UNCHANGED acc
    BY <2>1
  <2> PICK v \in RowsOf(f, Pinned(f, Parent)) :
          stack' = Append(Passed, Entry(Key, v, Top.excludes)) /\ UNCHANGED acc
    OBVIOUS
  <2>2. ParentInv /\ pc = "parent"
    BY <1>3 DEF IInv, FetchParentVersion
  <2>3. v \in versions /\ v.frame = f.id /\ v.version = Parent.version
    BY DEF RowsOf, VersionsOf, Pinned
  <2>4. \E g \in frames : g.id = f.id /\ g.org = f.org /\ g.name = f.name
    BY <2>2 DEF ParentInv
  <2>5. v \in PinnedBy(Parent)
    BY <2>2, <2>3, <2>4 DEF PinnedBy, ParentInv
  <2>6. Top.todo # <<>> /\ ~Excluded(Parent)
    BY <2>2 DEF ParentInv
  <2>7. Key \notin {stack[i].key : i \in 2..Len(stack)}
    BY <2>2 DEF ParentInv, IInv, Marks, Walking
  <2>8. OwnedAlike(Parent, Root)
    BY <2>2 DEF ParentInv, RootInv, OwnedAlike
  <2> QED
    BY <2>5, <2>6, <2>7, <2>8 DEF Moves, Passed, Top, Parent, Key, Excluded, Root
<1>4. CASE Merge
  BY <1>4 DEF Merge, Moves, Top, Finish, Goto
<1> QED
  BY <1>2, <1>3, <1>4


\* The walk goes on below the same root.
LEMMA RootStays ==
  ASSUME IInv, pc \in Walking, SkipParent \/ FetchParentVersion \/ Merge, pc' = "walk"
  PROVE  Root' = Root
<1>1. /\ Listed(stack) /\ Len(stack) \in Nat /\ Len(stack) > 0 /\ Root = stack[1].doc
  BY TopFacts
<1>2. \A t : Listed(t) /\ Len(t) > 0 /\ t[1].doc = stack[1].doc => Head(t).doc = stack[1].doc
  BY HeadIsFirst
<1>3. Listed(stack') /\ Len(stack') > 0 /\ stack'[1].doc = stack[1].doc
  <2>1. CASE SkipParent
    <3>1. stack' = Passed /\ Top.todo # <<>>
      BY <2>1 DEF SkipParent
    <3>2. Listed(stack') /\ Len(stack') = Len(stack) /\ \A i \in 1..Len(stack) : stack'[i].doc = stack[i].doc
      BY <3>1, PassedFacts
    <3> QED
      BY <1>1, <3>2
  <2>2. CASE FetchParentVersion
    <3>1. \E x : stack' = Append(Passed, x)
      BY <2>2 DEF FetchParentVersion, Unfetched, Fail, Finish, Goto
    <3>2. PICK x : stack' = Append(Passed, x)
      BY <3>1
    <3>3. Top.todo # <<>>
      BY <2>2 DEF FetchParentVersion, IInv, ParentInv
    <3>4. Listed(Passed) /\ Len(Passed) = Len(stack) /\ \A i \in 1..Len(stack) : Passed[i].doc = stack[i].doc
      BY <3>3, PassedFacts
    <3>5. Listed(stack') /\ Len(stack') = Len(stack) + 1 /\ \A i \in 1..Len(stack) : stack'[i] = Passed[i]
      BY <3>2, <3>4, OneAppended
    <3> QED
      BY <1>1, <3>4, <3>5
  <2>3. CASE Merge
    <3>1. Len(stack) > 1 /\ stack' = Front(stack)
      BY <2>3 DEF Merge, Finish, Goto
    <3>2. Listed(stack') /\ Len(stack') = Len(stack) - 1 /\ \A i \in 1..(Len(stack) - 1) : stack'[i] = stack[i]
      BY <1>1, <3>1, LastTaken
    <3> QED
      BY <1>1, <3>1, <3>2
  <2> QED
    BY <2>1, <2>2, <2>3
<1> QED
  BY <1>1, <1>2, <1>3 DEF Root

\* A document is returned where the root is merged.
LEMMA WalkReturns ==
  ASSUME ReaderStep, pc = "walk", pc' = "idle", reply' = "ok"
  PROVE  Top.todo = <<>> /\ Len(stack) = 1 /\ acc' = mergeInto(acc, Top.doc.slots)
<1>1. ~(ListFramesByOrg \/ CheckRead \/ ListRead \/ CheckEdit \/ CheckDelete)
  BY DEF ListFramesByOrg, CheckRead, ListRead, CheckEdit, CheckDelete
<1>2. ~(GetFrame \/ GetFrameVersion \/ ListFrameVersions \/ FetchParentVersion)
  BY DEF GetFrame, GetFrameVersion, ListFrameVersions, FetchParentVersion
<1>3. ~(SkipParent \/ FindCycle \/ FetchParent)
  BY DEF SkipParent, FindCycle, FetchParent, Unfetched, Fail, Finish, Goto
<1>4. Merge
  BY <1>1, <1>2, <1>3 DEF ReaderStep, ReaderCall
<1> QED
  BY <1>4 DEF Merge, Goto

\* Every step keeps the root what it is.
LEMMA RootStep ==
  ASSUME IInv, RootInv, [NextReader]_vars
  PROVE  RootInv'
<1>1. CASE Publish
  <2>1. UNCHANGED local /\ Root' = Root /\ (since # "delete" \/ since' = "delete" \/ pc \notin Walking)
    BY <1>1 DEF Publish, Changed, Root, local, FirstStep, Walking
  <2>2. versions \subseteq versions' /\ \A f \in frames : \E g \in frames' : Same(f, g)
    BY <1>1, PublishKeeps DEF IInv
  <2> QED
    BY <2>1, <2>2 DEF RootInv, Same, local
<1>2. CASE Delete
  BY <1>2 DEF Delete, Changed, FirstStep, Walking, RootInv, local
<1>3. CASE Receive \/ StoreError
  BY <1>3 DEF Receive, StoreError, Fail, Finish, Goto, FirstStep, Walking, RootInv
<1>4. CASE UNCHANGED vars
  BY <1>4 DEF vars, local, catalog, RootInv, Root
<1>5. CASE ReaderStep
  <2>1. UNCHANGED <<catalog, since>> /\ UNCHANGED <<frames, versions, since>>
    BY <1>5 DEF ReaderStep, catalog
  <2>2. CASE GetFrame
    BY <2>2 DEF GetFrame, Fail, Finish, Goto, Keep, Readable, Find, GetFrameBySlugName, Can, RootInv, Walking
  <2>3. CASE GetFrameVersion
    <3> SUFFICES ASSUME pc' \in Walking
        PROVE  pc' # "version" /\ Root' \in versions
               /\ \E f \in frames : f.id = Root'.frame /\ f.org = call'.caller.org
      BY <2>1, <2>3 DEF RootInv, GetFrameVersion, Fail, Finish, Goto, Walking
    <3>1. PICK f \in frame : \E v \in versions : v.frame = f.id /\ stack' = <<Entry(<<>>, v, {})>>
            /\ UNCHANGED call /\ pc' = "walk"
      BY <2>3 DEF GetFrameVersion, RowsOf, VersionsOf, Fail, Finish, Goto, Keep, Walking
    <3>2. PICK v \in versions : v.frame = f.id /\ stack' = <<Entry(<<>>, v, {})>>
            /\ UNCHANGED call /\ pc' = "walk"
      BY <3>1
    <3>3. Root' = v
      BY <3>2 DEF Root, Entry
    <3>4. PICK g \in frames : g.id = v.frame
      BY DEF IInv, CatalogInv
    <3>5. f.org = call.caller.org /\ g.org = f.org
      BY <2>3, <3>2, <3>4 DEF GetFrameVersion, RootInv, IInv, HeldInv, Held
    <3> QED
      BY <3>2, <3>3, <3>4, <3>5
  <2>4. CASE FetchParent
    BY <2>1, <2>4 DEF FetchParent, Unfetched, Fail, Finish, Goto, Keep, Walking, RootInv, Root
  <2>5. CASE SkipParent \/ FetchParentVersion \/ Merge
    <3>1. pc \in Walking /\ pc' # "version" /\ (pc' \in Walking => pc' = "walk" /\ UNCHANGED call)
      BY <2>5 DEF SkipParent, FetchParentVersion, Merge, Unfetched, Fail, Finish, Goto, Keep, Walking
    <3>2. pc' \in Walking => Root' = Root
      BY <2>5, <3>1, RootStays
    <3> QED
      BY <2>1, <3>1, <3>2 DEF RootInv
  <2> QED
    BY <1>5, <2>2, <2>3, <2>4, <2>5
       DEF ReaderStep, ReaderCall, ListFramesByOrg, CheckRead, ListRead, CheckEdit, CheckDelete,
           ListFrameVersions, FindCycle, Fail, Finish, Goto, Walking, RootInv
<1> QED
  BY <1>1, <1>2, <1>3, <1>4, <1>5 DEF NextReader

\* Every step keeps the walk a walk, and what was returned the end of one.
LEMMA WalkStep ==
  ASSUME IInv, RootInv, WalkInv, [NextReader]_vars
  PROVE  WalkInv'
<1>1. CASE Publish
  <2>1. UNCHANGED local /\ UNCHANGED answered /\ Root' = Root
    BY <1>1 DEF Publish, Root, local
  <2>2. \A w, u : Moves(w, u) => Moves(w, u)'
    BY <1>1, MovesStay DEF IInv
  <2>3. \A tr, n, doc : IsWalk(tr, n, doc) => IsWalk(tr, n, doc)'
    BY <2>2 DEF IsWalk, Start, Entry
  <2>4. pc' \in Walking /\ since' # "delete" => pc \in Walking /\ since # "delete"
    BY <1>1, <2>1 DEF Publish, Changed, FirstStep, Walking, local
  <2>5. ASSUME NEW n, NEW tr, OnWalk(n, tr) PROVE OnWalk(n, tr)'
    BY <2>1, <2>3, <2>5 DEF OnWalk, local
  <2>6. ASSUME NEW a, NEW n, NEW tr, Returned(a, n, tr) PROVE Returned(a, n, tr)'
    BY <2>3, <2>6 DEF Returned, Done
  <2> QED
    BY <2>1, <2>4, <2>5, <2>6 DEF WalkInv
<1>2. CASE Delete
  <2>1. answered' = {} /\ (pc' \in Walking => since' = "delete")
    BY <1>2 DEF Delete, Changed, FirstStep, Walking, local
  <2> QED
    BY <2>1 DEF WalkInv
<1>3. ASSUME UNCHANGED catalog
      PROVE  /\ \A tr, n, doc : IsWalk(tr, n, doc)' <=> IsWalk(tr, n, doc)
             /\ \A a, n, tr : Returned(a, n, tr)' <=> Returned(a, n, tr)
  <2>1. \A w, u : Moves(w, u)' <=> Moves(w, u)
    BY <1>3 DEF Moves, PinnedBy, OwnedAlike, Entry, catalog
  <2>2. \A tr, n, doc : IsWalk(tr, n, doc)' <=> IsWalk(tr, n, doc)
    BY <2>1 DEF IsWalk, Start, Entry
  <2> QED
    BY <2>2 DEF Returned, Done
<1>4. CASE Receive \/ (StoreError /\ UNCHANGED <<catalog, since, answered>>)
  <2>1. UNCHANGED catalog /\ UNCHANGED answered /\ pc' \notin Walking
    BY <1>4 DEF Receive, StoreError, Fail, Finish, Goto, FirstStep, Walking
  <2> QED
    BY <1>3, <2>1 DEF WalkInv
<1>5. CASE UNCHANGED vars
  <2>1. UNCHANGED catalog /\ UNCHANGED <<pc, since, answered, stack, acc>>
    BY <1>5 DEF vars, local
  <2>2. \A n, tr : OnWalk(n, tr)' <=> OnWalk(n, tr)
    BY <1>3, <2>1 DEF OnWalk, Root
  <2> QED
    BY <1>3, <2>1, <2>2 DEF WalkInv
<1>6. CASE ReaderStep
  <2>1. UNCHANGED catalog /\ UNCHANGED since /\ Record
    BY <1>6 DEF ReaderStep
  <2>2. IInv' /\ (\A a, n, tr : Returned(a, n, tr)' <=> Returned(a, n, tr))
        /\ (\A tr, n, doc : IsWalk(tr, n, doc)' <=> IsWalk(tr, n, doc))
    BY <1>3, <1>6, <2>1, ReaderKeeps
  <2>3. pc' \in Walking /\ since' # "delete" => \E n \in Nat : \E tr : OnWalk(n, tr)'
    <3> SUFFICES ASSUME pc' \in Walking, since # "delete"
        PROVE  \E n \in Nat : \E tr : OnWalk(n, tr)'
      BY <2>1
    <3>1. CASE GetFrameVersion
      <4>1. PICK v \in versions : stack' = <<Entry(<<>>, v, {})>> /\ UNCHANGED acc
        BY <3>1 DEF GetFrameVersion, RowsOf, VersionsOf, Fail, Finish, Goto, Keep, Walking
      <4>2. acc = Empty
        BY <3>1 DEF GetFrameVersion, IInv, LocalInv
      <4>3. Root' = v
        BY <4>1 DEF Root, Entry
      <4>4. IsWalk([i \in Nat |-> Start(v)], 0, v)
        BY DEF IsWalk
      <4>5. [stack |-> stack', acc |-> acc'] = Start(v)
        BY <4>1, <4>2 DEF Start
      <4> DEFINE tr == [i \in Nat |-> Start(v)]
      <4>6. tr[0] = Start(v)
        OBVIOUS
      <4>7. IsWalk(tr, 0, v)'
        BY <2>2, <4>4
      <4> HIDE DEF tr
      <4> QED
        BY <4>3, <4>5, <4>6, <4>7 DEF OnWalk
    <3>2. CASE FetchParent
      <4>1. pc \in Walking /\ UNCHANGED <<stack, acc>>
        BY <3>2 DEF FetchParent, Unfetched, Fail, Finish, Goto, Keep, Walking
      <4>2. PICK n \in Nat : \E tr : OnWalk(n, tr)
        BY <4>1 DEF WalkInv
      <4>3. PICK tr : OnWalk(n, tr)
        BY <4>2
      <4> QED
        BY <2>2, <4>1, <4>3 DEF OnWalk, Root
    <3>3. CASE SkipParent \/ FetchParentVersion \/ Merge
      <4>1. pc \in Walking /\ pc' = "walk"
        BY <3>3 DEF SkipParent, FetchParentVersion, Merge, Unfetched, Fail, Finish, Goto, Walking
      <4>2. PICK n \in Nat : \E tr : OnWalk(n, tr)
        BY <4>1 DEF WalkInv
      <4>3. PICK tr : OnWalk(n, tr)
        BY <4>2
      <4>4. Moves(tr[n], [stack |-> stack', acc |-> acc'])
        BY <3>3, <4>1, <4>3, ReaderMoves DEF OnWalk
      <4>5. PICK ts : IsWalk(ts, n + 1, Root) /\ ts[n + 1] = [stack |-> stack', acc |-> acc']
        BY <4>3, <4>4, WalkGoesOn DEF OnWalk
      <4>6. Root' = Root
        BY <3>3, <4>1, RootStays
      <4> QED
        BY <2>2, <4>5, <4>6 DEF OnWalk
    <3> QED
      BY <1>6, <3>1, <3>2, <3>3
         DEF ReaderStep, ReaderCall, ListFramesByOrg, CheckRead, ListRead, CheckEdit, CheckDelete, GetFrame,
             ListFrameVersions, FindCycle, Fail, Finish, Goto, Walking
  <2>4. ASSUME NEW a \in answered' PROVE \E n \in Nat : \E tr : Returned(a, n, tr)'
    <3>1. CASE a \in answered
      BY <2>2, <3>1 DEF WalkInv
    <3>2. CASE a \notin answered
      <4>1. /\ pc = "walk" /\ pc' = "idle" /\ reply' = "ok" /\ since # "delete"
            /\ a = [doc |-> Root, slots |-> acc']
        BY <2>1, <2>4, <3>2 DEF Record, Root
      <4>2. Top.todo = <<>> /\ Len(stack) = 1 /\ acc' = mergeInto(acc, Top.doc.slots)
        BY <1>6, <4>1, WalkReturns
      <4>3. PICK n \in Nat : \E tr : OnWalk(n, tr)
        BY <4>1 DEF WalkInv, Walking
      <4>4. PICK tr : OnWalk(n, tr)
        BY <4>3
      <4>5. tr[n].stack = stack /\ tr[n].acc = acc /\ Last(tr[n].stack) = Top
        BY <4>4 DEF OnWalk, Top
      <4>6. Returned(a, n, tr)
        BY <4>1, <4>2, <4>4, <4>5 DEF Returned, OnWalk, Done
      <4> QED
        BY <2>2, <4>6
    <3> QED
      BY <3>1, <3>2
  <2> QED
    BY <2>3, <2>4 DEF WalkInv
<1> QED
  BY <1>1, <1>2, <1>4, <1>5, <1>6 DEF NextReader

\* A version resolves to one document as long as no frame is deleted, however
\* often it is asked for and whatever is published meanwhile.
THEOREM ResolutionIsStable == SpecReader => StableResolution
<1>DEFINE Stable ==
     Resolved /\ reply' = "ok" /\ since # "delete" =>
       \A a \in answered : a.doc = Root => a.slots = acc'
<1>1. IInv /\ WalkInv /\ [NextReader]_vars => [Stable]_vars
  <2> SUFFICES ASSUME IInv, WalkInv, [NextReader]_vars, Resolved, reply' = "ok", since # "delete",
                      NEW a \in answered, a.doc = Root
      PROVE  a.slots = acc'
    OBVIOUS
  <2>1. /\ pc \in Walking /\ Top.todo = <<>> /\ Len(stack) = 1
        /\ acc' = mergeInto(acc, Top.doc.slots)
    BY ResolveEnds DEF Walking
  <2>2. PICK n \in Nat : \E tr : OnWalk(n, tr)
    BY <2>1 DEF WalkInv
  <2>3. PICK tr : OnWalk(n, tr)
    BY <2>2
  <2>4. PICK m \in Nat : \E ts : Returned(a, m, ts)
    BY DEF WalkInv
  <2>5. PICK ts : Returned(a, m, ts)
    BY <2>4
  <2>6. tr[n].stack = stack /\ tr[n].acc = acc /\ Last(tr[n].stack) = Top
    BY <2>3 DEF OnWalk, Top
  <2>7. Done(tr[n])
    BY <2>1, <2>6 DEF Done
  <2>8. tr[n] = ts[m]
    BY <2>3, <2>5, <2>7, WalksEndAlike DEF IInv, OnWalk, Returned
  <2> QED
    BY <2>1, <2>5, <2>6, <2>8 DEF Returned
<1>2. IInv /\ RootInv /\ WalkInv /\ [NextReader]_vars => IInv' /\ RootInv' /\ WalkInv'
  BY StepKeeps, RootStep, WalkStep
<1>3. InitReader => IInv /\ RootInv /\ WalkInv
  BY InitKeeps DEF InitReader, RootInv, WalkInv, Walking
<1> QED
  BY <1>1, <1>2, <1>3, PTL DEF SpecReader, StableResolution

-----------------------------------------------------------------------------
(* How deep the walk goes.                                                 *)

\* What publications pin.
Pins == {KeyOf(x) : x \in UNION {ToSet(p.extends) : p \in Publication}}

\* Every parent is one somebody has pinned.
PinInv ==
  /\ \A v \in versions : \A x \in ToSet(v.extends) : KeyOf(x) \in Pins
  /\ pc \in Walking =>
       /\ \A i \in 1..Len(stack) : \A x \in ToSet(stack[i].todo) : KeyOf(x) \in Pins
       /\ visiting \subseteq Pins

\* Passing a parent leaves parents, and the parent is one.
LEMMA PassedPins ==
  ASSUME IInv, PinInv, pc \in Walking, Top.todo # <<>>
  PROVE  /\ Key \in Pins
         /\ \A i \in 1..Len(Passed) : \A x \in ToSet(Passed[i].todo) : KeyOf(x) \in Pins
<1>DEFINE new == [Top EXCEPT !.todo = Tail(@)]
<1>1. /\ Listed(stack) /\ Len(stack) \in Nat /\ Len(stack) > 0
      /\ Top = stack[Len(stack)] /\ IsEntry(Top)
  BY TopFacts
<1>2. ToSet(Tail(Top.todo)) \subseteq ToSet(Top.todo) /\ Parent \in ToSet(Top.todo)
  BY <1>1, TailListed DEF IsEntry, Parent
<1>3. \A x \in ToSet(Top.todo) : KeyOf(x) \in Pins
  <2>1. Len(stack) \in 1..Len(stack)
    BY <1>1
  <2> QED
    BY <1>1, <2>1 DEF PinInv
<1>4. Key \in Pins
  BY <1>2, <1>3 DEF Key, KeyOf
<1>5. new.todo = Tail(Top.todo)
  <2>1. Top = [key |-> Top.key, doc |-> Top.doc, todo |-> Top.todo, excludes |-> Top.excludes]
    BY <1>1 DEF IsEntry
  <2> QED
    BY <2>1
<1>6. Passed = Front(stack) \o <<new>>
  BY DEF Passed
<1> HIDE DEF new
<1>7. /\ Len(Passed) = Len(stack) /\ Passed[Len(stack)] = new
      /\ \A i \in 1..Len(stack) : i < Len(stack) => Passed[i] = stack[i]
  BY <1>1, <1>6, LastReplaced
<1>8. ASSUME NEW i \in 1..Len(stack), NEW x \in ToSet(Passed[i].todo) PROVE KeyOf(x) \in Pins
  <2>1. CASE i = Len(stack)
    BY <1>2, <1>3, <1>5, <1>7, <2>1
  <2>2. CASE i < Len(stack)
    BY <1>7, <1>8, <2>2 DEF PinInv
  <2> QED
    BY <1>1, <2>1, <2>2
<1> QED
  BY <1>4, <1>7, <1>8

\* What is published, and what is done of it.
LEMMA PinStep ==
  ASSUME IInv, PinInv, [NextReader]_vars
  PROVE  PinInv'
<1>1. CASE Publish
  <2>1. PICK p \in Publication :
           \/ \E id : id \notin HeldIds /\ Create(NewFrame(p, id), Written(p, id))
           \/ \E f \in frames : f.name = p.name /\ Advance(f, Written(p, f.id))
    BY <1>1, Published
  <2>2. \E id : versions' = versions \cup {Written(p, id)}
    BY <2>1 DEF Create, Advance
  <2>3. \A id : Written(p, id).extends = p.extends
    BY DEF Written
  <2>4. \A x \in ToSet(p.extends) : KeyOf(x) \in Pins
    BY DEF Pins
  <2>5. \A v \in versions' : \A x \in ToSet(v.extends) : KeyOf(x) \in Pins
    BY <2>2, <2>3, <2>4 DEF PinInv
  <2>6. UNCHANGED local
    BY <1>1 DEF Publish
  <2> QED
    BY <2>5, <2>6 DEF PinInv, local
<1>2. CASE Delete
  <2>1. versions' \subseteq versions /\ UNCHANGED local
    BY <1>2, DeleteKeepsCatalog DEF IInv, Delete
  <2> QED
    BY <2>1 DEF PinInv, local
<1>3. CASE Receive \/ (StoreError /\ UNCHANGED <<catalog, since, answered>>)
  BY <1>3 DEF Receive, StoreError, Fail, Finish, Goto, FirstStep, PinInv, catalog, Walking
<1>4. CASE UNCHANGED vars
  BY <1>4 DEF vars, local, catalog, PinInv
<1>5. CASE ReaderStep
  <2>1. UNCHANGED versions
    BY <1>5 DEF ReaderStep, catalog
  <2> SUFFICES ASSUME pc' \in Walking
      PROVE  /\ \A i \in 1..Len(stack') : \A x \in ToSet(stack'[i].todo) : KeyOf(x) \in Pins
             /\ visiting' \subseteq Pins
    BY <2>1 DEF PinInv
  <2>2. CASE GetFrameVersion
    <3>1. PICK v \in versions : stack' = <<Entry(<<>>, v, {})>> /\ UNCHANGED visiting
      BY <2>2 DEF GetFrameVersion, RowsOf, VersionsOf, Fail, Finish, Goto, Keep, Walking
    <3>2. visiting = {}
      BY <2>2 DEF GetFrameVersion, IInv, LocalInv, Walking
    <3>3. Entry(<<>>, v, {}).todo = v.extends
      BY DEF Entry
    <3>4. \A i \in 1..Len(stack') : stack'[i].todo = v.extends
      BY <3>1, <3>3
    <3> QED
      BY <3>1, <3>2, <3>4 DEF PinInv
  <2>3. CASE FetchParent
    <3>1. pc \in Walking /\ UNCHANGED <<stack, visiting>>
      BY <2>3 DEF FetchParent, Unfetched, Fail, Finish, Goto, Keep, Walking
    <3> QED
      BY <3>1 DEF PinInv
  <2>4. CASE SkipParent
    <3>1. pc \in Walking /\ Top.todo # <<>> /\ stack' = Passed /\ UNCHANGED visiting
      BY <2>4 DEF SkipParent, Keep, Walking
    <3> QED
      BY <3>1, PassedPins DEF PinInv
  <2>5. CASE FetchParentVersion
    <3>1. PICK v \in versions :
            visiting' = visiting \cup {Key} /\ stack' = Append(Passed, Entry(Key, v, Top.excludes))
      BY <2>5 DEF FetchParentVersion, RowsOf, VersionsOf, Unfetched, Fail, Finish, Goto, Walking
    <3>2. pc \in Walking /\ Top.todo # <<>>
      BY <2>5 DEF FetchParentVersion, IInv, ParentInv, Walking
    <3>3. /\ Listed(Passed) /\ Len(Passed) = Len(stack) /\ Len(stack) \in Nat /\ Key \in Pins
          /\ \A i \in 1..Len(stack) : \A x \in ToSet(Passed[i].todo) : KeyOf(x) \in Pins
      BY <3>2, PassedFacts, PassedPins, TopFacts
    <3>4. Entry(Key, v, Top.excludes).todo = v.extends
      BY DEF Entry
    <3> DEFINE e == Entry(Key, v, Top.excludes)
    <3>5. e.todo = v.extends /\ stack' = Append(Passed, e)
      BY <3>1, <3>4
    <3> HIDE DEF e
    <3>6. /\ Len(stack') = Len(stack) + 1 /\ stack'[Len(stack) + 1] = e
          /\ \A i \in 1..Len(stack) : stack'[i] = Passed[i]
      BY <3>3, <3>5, OneAppended
    <3>7. \A i \in 1..Len(stack') : i \in 1..Len(stack) \/ i = Len(stack) + 1
      BY <3>3, <3>6
    <3>8. \A x \in ToSet(v.extends) : KeyOf(x) \in Pins
      BY DEF PinInv
    <3>9. \A i \in 1..Len(stack') : \A x \in ToSet(stack'[i].todo) : KeyOf(x) \in Pins
      BY <3>3, <3>5, <3>6, <3>7, <3>8
    <3> QED
      BY <3>1, <3>2, <3>3, <3>9 DEF PinInv
  <2>6. CASE Merge
    <3>1. pc \in Walking /\ Len(stack) > 1 /\ stack' = Front(stack) /\ visiting' \subseteq visiting
      BY <2>6 DEF Merge, Leave, Finish, Goto, Walking
    <3>2. /\ Len(stack') = Len(stack) - 1 /\ Len(stack) \in Nat
          /\ \A i \in 1..(Len(stack) - 1) : stack'[i] = stack[i]
      BY <3>1, TopFacts, LastTaken
    <3> QED
      BY <3>1, <3>2 DEF PinInv
  <2> QED
    BY <1>5, <2>2, <2>3, <2>4, <2>5, <2>6
       DEF ReaderStep, ReaderCall, ListFramesByOrg, CheckRead, ListRead, CheckEdit, CheckDelete, GetFrame,
           ListFrameVersions, FindCycle, Fail, Finish, Goto, Walking
<1> QED
  BY <1>1, <1>2, <1>3, <1>4, <1>5 DEF NextReader

\* The walk never goes deeper than there are pinned versions, on any graph, the
\* cyclic ones too, and though the graph changes under it: this bounds the
\* recursion of mergeParents.
THEOREM DepthIsBounded ==
  ASSUME IsFiniteSet(Pins)
  PROVE  SpecReader => [](pc \in Walking => Len(stack) <= Cardinality(Pins) + 1)
<1>1. IInv /\ PinInv => (pc \in Walking => Len(stack) <= Cardinality(Pins) + 1)
  <2> SUFFICES ASSUME IInv, PinInv, pc \in Walking PROVE Len(stack) <= Cardinality(Pins) + 1
    OBVIOUS
  <2>DEFINE f == [i \in 2..Len(stack) |-> stack[i].key]
  <2>1. Len(stack) \in Nat
    BY TopFacts
  <2>2. f \in [2..Len(stack) -> Pins]
    BY DEF IInv, Marks, PinInv
  <2>3. \A i, j \in 2..Len(stack) : f[i] = f[j] => i = j
    BY DEF IInv, Marks
  <2>4. f \in Injection(2..Len(stack), Pins)
    BY <2>2, <2>3 DEF Injection, IsInjective
  <2>5. Cardinality(2..Len(stack)) <= Cardinality(Pins)
    BY <2>4, FS_Injection
  <2>6. Cardinality(2..Len(stack)) = IF 2 > Len(stack) THEN 0 ELSE Len(stack) - 2 + 1
    BY <2>1, FS_Interval
  <2>7. Cardinality(Pins) \in Nat
    BY FS_CardinalityType
  <2> QED
    BY <2>1, <2>5, <2>6, <2>7
<1>2. IInv /\ PinInv /\ [NextReader]_vars => IInv' /\ PinInv'
  BY StepKeeps, PinStep
<1>3. InitReader => IInv /\ PinInv
  BY InitKeeps DEF InitReader, PinInv, Walking
<1> QED
  BY <1>1, <1>2, <1>3, PTL DEF SpecReader

=============================================================================
