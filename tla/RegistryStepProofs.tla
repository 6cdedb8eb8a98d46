------------------------- MODULE RegistryStepProofs -------------------------
(***************************************************************************)
(* More theorems about Registry: what an update carries over from the      *)
(* version it was based on, however requests interleave; and, where one    *)
(* request runs at a time, what the handlers' checks are worth when the    *)
(* transaction runs at last.                                               *)
(***************************************************************************)
EXTENDS RegistryProofs

-----------------------------------------------------------------------------
(* An update that leaves the references out.                               *)

\* Edge e is what a list of references resolves to at e's place in the list.
Follows(e, extends) ==
  /\ e.index < Len(extends)
  /\ e.pinned = extends[e.index + 1].version
  /\ \A p \in frames : p.id = e.parent =>
       p.org = extends[e.index + 1].org /\ p.name = extends[e.index + 1].name

\* The edges of a version are what its document says.
EdgesFollow ==
  \A x \in frame_extends, v \in versions :
    x.frame = v.frame /\ x.version = v.version => Follows(x.edge, v.extends)

\* A version that was read is there as long as its frame is.
RowsHeld == \A r \in Request : \A v \in row[r] : v \in versions \/ v.frame \notin Ids(frames)

\* The edges a publish has resolved are what its document says, ...
ResolvedFollow ==
  \A r \in Request : pc[r] \in Settled =>
    \A e \in edges[r] : Follows(e, Document(r).extends)

\* ... and one that keeps the references of the version it has read has found
\* that version's own edges again, as far as it has come.
KeptFound ==
  \A r \in Request : pc[r] \in Settled /\ call[r].keep =>
    \A x \in frame_extends, v \in row[r] :
      /\ x.frame = v.frame /\ x.version = v.version
      /\ pc[r] = "extend" => x.edge.index < Cardinality(edges[r])
      => x.edge \in edges[r]

KeepInv == EdgesFollow /\ RowsHeld /\ ResolvedFollow /\ KeptFound

\* What a frame is named never changes, and a new frame is nobody's parent:
\* an edge that follows a document goes on to.
LEMMA FollowsKept ==
  ASSUME IInv, NEW r \in Request, RequestStep(r), NEW e, NEW extends, Follows(e, extends),
         isNew[r] => \A f \in frame[r] : e.parent # f.id
  PROVE  Follows(e, extends)'
<1>1. ASSUME NEW p \in frames', p.id = e.parent
      PROVE  p.org = extends[e.index + 1].org /\ p.name = extends[e.index + 1].name
  <2>1. CASE \E g \in frames : g.id = p.id /\ SameFrame(g, p)
    BY <1>1, <2>1 DEF Follows, SameFrame
  <2>2. CASE Committed(r) /\ isNew[r] /\ p = Frame(r)
    BY <1>1, <2>2, CommittedFrame
  <2> QED
    BY <1>1, <2>1, <2>2, RowsStaySame
<1> QED
  BY <1>1 DEF Follows

\* A commit stores a version that was not there.
LEMMA CommittedIsNew ==
  ASSUME IInv, NEW r \in Request, Committed(r), NEW v \in versions
  PROVE  ~(v.frame = Frame(r).id /\ v.version = call[r].version)
<1>1. CASE isNew[r]
  BY <1>1, CommittedHolds, ReferredIds DEF Committed
<1>2. CASE ~isNew[r]
  BY <1>2 DEF Committed, VersionTaken, VersionsOf
<1> QED
  BY <1>1, <1>2

\* The versions and edges a step leaves: those it found, and the ones it commits.
LEMMA RowsAfter ==
  ASSUME NEW r \in Request, RequestStep(r)
  PROVE  /\ \A v \in versions' : v \in versions \/ (Committed(r) /\ v = NewVersion(r))
         /\ \A x \in frame_extends' :
              \/ x \in frame_extends
              \/ /\ Committed(r) /\ x.edge \in edges[r]
                 /\ x.frame = Frame(r).id /\ x.version = call[r].version
<1>1. CASE UNCHANGED tables
  BY <1>1 DEF tables
<1>2. CASE Committed(r)
  <2>1. versions' = versions \cup {NewVersion(r)}
    BY <1>2 DEF Committed, Written, NewVersion
  <2>2. frame_extends' = frame_extends \cup EdgeRows(Frame(r).id, call[r].version, edges[r])
    BY <1>2 DEF Committed, Written
  <2> QED
    BY <1>2, <2>1, <2>2 DEF EdgeRows
<1>3. CASE DeleteFrame(r)
  BY <1>3 DEF DeleteFrame, tables
<1> QED
  BY <1>1, <1>2, <1>3, OnlyTransactionsWrite

\* A frame that is gone does not come back while somebody holds its id.
LEMMA RowsHeldPreserved ==
  ASSUME IInv, RowsHeld, NEW r \in Request, RequestStep(r)
  PROVE  RowsHeld'
<1> SUFFICES ASSUME NEW q \in Request, NEW v \in row'[q]
             PROVE  v \in versions' \/ v.frame \notin Ids(frames')
  BY DEF RowsHeld
<1>1. v \in row[q] \/ (v \in versions /\ UNCHANGED tables)
  BY HeldSources, OthersUnmoved DEF HeldComesFrom, Unmoved, IInv
<1>2. CASE v \in versions /\ UNCHANGED tables
  BY <1>2 DEF tables
<1>3. CASE v \in row[q] /\ v \in versions
  <2>1. CASE UNCHANGED tables
    BY <1>3, <2>1 DEF tables
  <2>2. CASE Committed(r)
    BY <1>3, <2>2 DEF Committed, Written
  <2>3. CASE DeleteFrame(r)
    BY <1>3, <2>3 DEF DeleteFrame, tables, Cascade, Ids
  <2> QED
    BY <2>1, <2>2, <2>3, OnlyTransactionsWrite
<1>4. CASE v \in row[q] /\ v.frame \notin Ids(frames)
  <2>1. ASSUME NEW g \in frames', g.id = v.frame PROVE FALSE
    <3>1. Committed(r) /\ isNew[r] /\ g = Frame(r)
      BY <1>4, <2>1, RowsStaySame DEF Ids
    <3>2. \A w \in row[q] : w.frame # Frame(r).id
      BY <3>1, CommittedFrame DEF IInv, NewIdsAreNew
    <3> QED
      BY <1>4, <2>1, <3>1, <3>2
  <2> QED
    BY <2>1 DEF Ids
<1> QED
  BY <1>1, <1>2, <1>3, <1>4 DEF RowsHeld

\* Stored edges go on to follow their version's document.
LEMMA EdgesFollowPreserved ==
  ASSUME IInv, KeepInv, NEW r \in Request, RequestStep(r)
  PROVE  EdgesFollow'
<1> SUFFICES ASSUME NEW x \in frame_extends', NEW v \in versions',
                    x.frame = v.frame, x.version = v.version
             PROVE  Follows(x.edge, v.extends)'
  BY DEF EdgesFollow
<1>1. CASE x \in frame_extends /\ v \in versions
  <2>1. Follows(x.edge, v.extends)
    BY <1>1 DEF KeepInv, EdgesFollow
  <2>2. isNew[r] => \A f \in frame[r] : x.edge.parent # f.id
    BY <1>1, ReferredIds DEF IInv, NewIdsAreNew
  <2> QED
    BY <2>1, <2>2, FollowsKept
<1>2. CASE x \in frame_extends /\ v \notin versions
  <2>1. Committed(r) /\ v = NewVersion(r)
    BY <1>2, RowsAfter
  <2>2. PICK w \in versions : w.frame = x.frame /\ w.version = x.version
    BY <1>2 DEF IInv, ReferencesResolve, VersionsOf
  <2> QED
    BY <2>1, <2>2, CommittedIsNew DEF NewVersion
<1>3. CASE x \notin frame_extends
  <2>1. /\ Committed(r) /\ x.edge \in edges[r]
        /\ x.frame = Frame(r).id /\ x.version = call[r].version
    BY <1>3, RowsAfter
  <2>2. v = NewVersion(r)
    BY <2>1, RowsAfter, CommittedIsNew
  <2>3. Follows(x.edge, v.extends)
    BY <2>1, <2>2 DEF KeepInv, ResolvedFollow, Committed, Settled, NewVersion
  <2>4. isNew[r] => \A f \in frame[r] : x.edge.parent # f.id
    BY <2>1 DEF IInv, NewIdsAreNew
  <2> QED
    BY <2>3, <2>4, FollowsKept
<1> QED
  BY <1>1, <1>2, <1>3

\* The edge publish resolves next, of the reference it has come to.
NextEdge(r, f) == [parent |-> f.id, pinned |-> Document(r).extends[Cardinality(edges[r]) + 1].version,
                   index |-> Cardinality(edges[r])]

\* How a handler comes to have references to resolve: it has just settled on a
\* frame, or has resolved one more parent, or one more excluded frame.
LEMMA SettlingSteps ==
  ASSUME IInv, NEW r \in Request, RequestStep(r), pc'[r] \in Settled
  PROVE  /\ UNCHANGED tables /\ call'[r] = call[r] /\ row'[r] = row[r]
         /\ \/ /\ pc[r] \in {"find", "can_edit"} /\ pc'[r] = Resolving(r, 0, 0)
               /\ edges[r] = {} /\ edges'[r] = {}
            \/ LET ref == Document(r).extends[Cardinality(edges[r]) + 1] IN
               /\ pc[r] = "extend"
               /\ \E f \in GetFrameBySlugName(frames, OrgOf(ref, Me(r)), ref.name) :
                    edges'[r] = edges[r] \cup {NextEdge(r, f)}
               /\ pc'[r] = Resolving(r, Cardinality(edges[r]) + 1, 0)
            \/ pc[r] = "exclude" /\ edges'[r] = edges[r] /\ pc'[r] # "extend"
<1> USE DEF Goto, Continue
<1>t. TypeOK /\ HandlerOK(r)
  BY DEF IInv, HandlersOK
<1>f. ASSUME NEW code PROVE ~Finish(r, code)
  BY <1>t DEF Finish, TypeOK, Settled
<1>1. FindFrame(r) \/ CheckEdit(r) \/ ResolveExtend(r) \/ ResolveExclude(r)
  <2>1. \/ Receive(r) \/ LookUpFrame(r) \/ CheckRead(r) \/ ReadVersion(r) \/ ReadEdges(r)
        \/ ReadExcludes(r) \/ NameParent(r) \/ CreateFrameVersion(r) \/ CheckDelete(r)
        \/ FrameChildren(r) \/ DeleteFrame(r) \/ StoreError(r)
        => FALSE
    BY <1>f, <1>t DEF TypeOK, Settled, Receive, FirstStep, LookUpFrame, CheckRead, ReadVersion,
       ReadEdges, ReadExcludes, NameParent, CreateFrameVersion, CheckDelete, FrameChildren,
       DeleteFrame, StoreError
  <2> QED
    BY <2>1 DEF RequestStep
<1>2. CASE FindFrame(r)
  <2>1. edges[r] = {} /\ pc[r] = "find"
    BY <1>t, <1>2 DEF FindFrame, HandlerOK
  <2>2. pc'[r] # "can_edit"
    BY DEF Settled
  <2>3. /\ UNCHANGED <<tables, call, row, edges>>
        /\ pc'[r] = Resolving(r, 0, 0)
    BY <1>2, <1>f, <1>t, <2>2 DEF FindFrame, TypeOK
  <2> QED
    BY <2>1, <2>3
<1>3. CASE CheckEdit(r)
  <2>1. edges[r] = {} /\ pc[r] = "can_edit"
    BY <1>t, <1>3 DEF CheckEdit, HandlerOK
  <2>2. /\ UNCHANGED <<tables, call, row, edges>>
        /\ pc'[r] = Resolving(r, 0, 0)
    BY <1>3, <1>f, <1>t DEF CheckEdit, TypeOK
  <2> QED
    BY <2>1, <2>2
<1>4. CASE ResolveExtend(r)
  <2> DEFINE i == Cardinality(edges[r])
             ref == Document(r).extends[i + 1]
             found == Readable(r, OrgOf(ref, Me(r)), ref.name)
  <2>1. PICK f \in found :
          /\ edges' = [edges EXCEPT ![r] = @ \cup {NextEdge(r, f)}]
          /\ Continue(r, Resolving(r, i + 1, 0))
          /\ UNCHANGED <<tables, frame, isNew, row, excludeIDs>>
    BY <1>4, <1>f DEF ResolveExtend, NextEdge
  <2>2. f \in GetFrameBySlugName(frames, OrgOf(ref, Me(r)), ref.name)
    BY DEF Readable
  <2>3. pc[r] = "extend"
    BY <1>4 DEF ResolveExtend
  <2> HIDE DEF i, ref, found
  <2>4. edges'[r] = edges[r] \cup {NextEdge(r, f)} /\ pc'[r] = Resolving(r, i + 1, 0)
    BY <1>t, <2>1 DEF TypeOK
  <2>5. UNCHANGED tables /\ call'[r] = call[r] /\ row'[r] = row[r]
    BY <2>1
  <2> QED
    BY <2>2, <2>3, <2>4, <2>5 DEF i, ref
<1>5. CASE ResolveExclude(r)
  <2>1. pc[r] = "exclude"
    BY <1>5 DEF ResolveExclude
  <2>2. PICK j : pc'[r] = Resolving(r, Len(Document(r).extends), j)
    BY <1>5, <1>f, <1>t DEF ResolveExclude, TypeOK
  <2>3. Len(Document(r).extends) \in Nat
    BY <1>t, <2>1, DocumentType DEF HandlerOK, Settled
  <2>4. pc'[r] # "extend"
    BY <2>2, <2>3 DEF Resolving
  <2>5. UNCHANGED <<tables, call, row, edges>>
    BY <1>5, <1>f DEF ResolveExclude
  <2> QED
    BY <2>1, <2>4, <2>5
<1> QED
  BY <1>1, <1>2, <1>3, <1>4, <1>5

\* A handler with references to resolve has a document that lists them, and its
\* call says whether the document is the one that was read.
LEMMA SettledDocument ==
  ASSUME IInv, NEW r \in Request, pc[r] \in {"find", "can_edit"} \cup Settled
  PROVE  /\ Document(r).extends \in Seq(ExtendRef)
         /\ call[r].keep => row[r] = {Row(r)} /\ Document(r).extends = Row(r).extends
<1>1. TypeOK /\ HandlerOK(r) /\ call[r] \in Call
  BY DEF IInv, HandlersOK, TypeOK
<1>2. call[r].op \in {"publish", "update"} /\ (call[r].op = "update" => row[r] # {})
  BY <1>1 DEF HandlerOK
<1>3. call[r].keep => row[r] # {}
  BY <1>1, <1>2, CallFields
<1> QED
  BY <1>1, <1>2, <1>3, DocumentType, RowHeld DEF Document, HandlerOK

\* The edge resolved next follows the document.
LEMMA NextEdgeFollows ==
  ASSUME IInv, NEW r \in Request, pc[r] = "extend",
         NEW ref, ref = Document(r).extends[Cardinality(edges[r]) + 1],
         NEW f \in GetFrameBySlugName(frames, OrgOf(ref, Me(r)), ref.name)
  PROVE  Follows(NextEdge(r, f), Document(r).extends)
<1> DEFINE i == Cardinality(edges[r])
<1>1. HandlerOK(r) /\ IsFiniteSet(edges[r]) /\ i < Len(Document(r).extends) /\ i \in Nat
  BY FS_CardinalityType DEF IInv, HandlersOK, HandlerOK
<1>2. Document(r).extends \in Seq(ExtendRef)
  BY SettledDocument DEF Settled
<1>3. ref \in ExtendRef
  BY <1>1, <1>2
<1>4. OrgOf(ref, Me(r)) = ref.org
  BY <1>3, RegistryStoreAssumption DEF ExtendRef, OrgOf
<1>5. f \in frames /\ f.org = ref.org /\ f.name = ref.name
  BY <1>4 DEF GetFrameBySlugName
<1>6. \A p \in frames : p.id = f.id => p = f
  BY <1>5 DEF IInv, ReferencesResolve
<1> QED
  BY <1>1, <1>5, <1>6 DEF Follows, NextEdge

\* What a publish has resolved goes on to follow its document.
LEMMA ResolvedFollowPreserved ==
  ASSUME IInv, KeepInv, NEW r \in Request, RequestStep(r)
  PROVE  ResolvedFollow'
<1> SUFFICES ASSUME NEW q \in Request, pc'[q] \in Settled, NEW e \in edges'[q]
             PROVE  Follows(e, Document(q).extends)'
  BY DEF ResolvedFollow
<1>1. ASSUME call'[q] = call[q], row'[q] = row[q], pc[q] \in Settled, e \in edges[q]
      PROVE  Follows(e, Document(q).extends)'
  <2>1. Document(q)' = Document(q)
    BY <1>1, SameDocument
  <2>2. Follows(e, Document(q).extends)
    BY <1>1 DEF KeepInv, ResolvedFollow
  <2>3. isNew[r] => \A f \in frame[r] : e.parent # f.id
    BY <1>1 DEF IInv, NewIdsAreNew
  <2>4. ASSUME NEW extends, extends = Document(q).extends PROVE Follows(e, extends)'
    BY <2>2, <2>3, <2>4, FollowsKept
  <2> QED
    BY <2>1, <2>4 DEF Follows
<1>2. CASE q # r
  BY <1>1, <1>2, OthersUnmoved DEF Unmoved, IInv
<1>3. CASE q = r
  <2>1. CASE edges'[r] = {}
    BY <1>3, <2>1
  <2>2. CASE e \in edges[r] /\ pc[r] \in Settled
    BY <1>1, <1>3, <2>2, SettlingSteps
  <2>3. CASE e \notin edges[r] \/ pc[r] \notin Settled
    <3> DEFINE ref == Document(r).extends[Cardinality(edges[r]) + 1]
    <3>1. CASE edges'[r] # {}
      <4>1. pc[r] = "extend" /\ UNCHANGED tables /\ call'[r] = call[r] /\ row'[r] = row[r]
        BY <1>3, <2>3, <3>1, SettlingSteps DEF Settled
      <4>2. PICK f \in GetFrameBySlugName(frames, OrgOf(ref, Me(r)), ref.name) :
              e = NextEdge(r, f)
        BY <1>3, <2>3, <3>1, <4>1, SettlingSteps DEF Settled
      <4>3. Follows(e, Document(r).extends)
        BY <4>1, <4>2, NextEdgeFollows
      <4>4. Document(r)' = Document(r)
        BY <4>1, SameDocument
      <4> QED
        BY <1>3, <4>1, <4>3, <4>4 DEF Follows, tables
    <3> QED
      BY <2>1, <3>1
  <2> QED
    BY <2>1, <2>2, <2>3
<1> QED
  BY <1>2, <1>3

\* publish goes on with parents as long as there are some.
LEMMA ExtendsFirst ==
  ASSUME NEW r \in Request, NEW i, NEW j, i < Len(Document(r).extends)
  PROVE  Resolving(r, i, j) = "extend"
BY DEF Resolving

\* The edges of the version that was read are found again, whatever is published,
\* deleted and created meanwhile: whoever has just resolved a parent has found
\* the edge that stands at its place, if that edge is there.
LEMMA KeptFoundByMover ==
  ASSUME IInv, KeepInv, NEW r \in Request, RequestStep(r),
         pc'[r] \in Settled, call'[r].keep,
         NEW x \in frame_extends', NEW v \in row'[r], x.frame = v.frame, x.version = v.version,
         pc'[r] = "extend" => x.edge.index < Cardinality(edges'[r])
  PROVE  x.edge \in edges'[r]
<1>1. UNCHANGED tables /\ call'[r] = call[r] /\ row'[r] = row[r]
  BY SettlingSteps
<1>2. x \in frame_extends /\ v \in row[r] /\ call[r].keep
  BY <1>1 DEF tables
<1>3. v \in versions
  <2>1. v.frame \in Ids(frames)
    BY <1>2 DEF IInv, ReferencesResolve, VersionsOf
  <2> QED
    BY <1>2, <2>1 DEF KeepInv, RowsHeld
<1>4. Follows(x.edge, v.extends)
  BY <1>2, <1>3 DEF KeepInv, EdgesFollow
<1>5. x.edge.index \in Nat /\ x.edge = [parent |-> x.edge.parent, pinned |-> x.edge.pinned,
                                        index |-> x.edge.index]
  BY <1>2 DEF IInv, TypeOK, EdgeRow, ParentEdge
<1>6. pc[r] \in {"find", "can_edit"} \cup Settled
  BY SettlingSteps DEF Settled
<1>7. /\ Document(r).extends = v.extends /\ v.extends \in Seq(ExtendRef)
      /\ x.edge.index < Len(v.extends) /\ Len(v.extends) \in Nat
  BY <1>2, <1>4, <1>6, SettledDocument DEF Follows
<1>8. CASE edges'[r] = {} /\ pc'[r] = Resolving(r, 0, 0)
  <2>1. Cardinality(edges'[r]) = 0
    BY <1>8, FS_EmptySet
  <2>2. x.edge.index \in Nat /\ 0 < Len(Document(r).extends)
    BY <1>5, <1>7
  <2>3. x.edge.index < 0
    BY <1>8, <2>1, <2>2, ExtendsFirst
  <2> QED
    BY <2>2, <2>3
<1>9. CASE pc[r] = "exclude" /\ edges'[r] = edges[r]
  BY <1>2, <1>9 DEF KeepInv, KeptFound, Settled
<1>10. CASE pc[r] = "extend" /\ pc'[r] = Resolving(r, Cardinality(edges[r]) + 1, 0)
  <2> DEFINE i == Cardinality(edges[r])
             ref == Document(r).extends[i + 1]
  <2>1. PICK f \in GetFrameBySlugName(frames, OrgOf(ref, Me(r)), ref.name) :
          edges'[r] = edges[r] \cup {NextEdge(r, f)}
    BY <1>10, SettlingSteps
  <2>2. i \in Nat /\ IsFiniteSet(edges[r])
    BY <1>10, FS_CardinalityType DEF IInv, HandlersOK, HandlerOK
  <2>3. Cardinality(edges'[r]) <= i + 1 /\ Cardinality(edges'[r]) \in Nat
    <3>1. Cardinality(edges'[r]) = Cardinality(edges[r] \cup {NextEdge(r, f)})
      BY <2>1
    <3>2. Cardinality(edges[r] \cup {NextEdge(r, f)}) \in {i, i + 1}
      BY <2>2, FS_AddElement
    <3> HIDE DEF i
    <3> QED
      BY <2>2, <3>1, <3>2
  <2>4. x.edge.index <= i
    <3>1. x.edge.index \in Nat /\ x.edge.index < Len(Document(r).extends)
         /\ Len(Document(r).extends) \in Nat
      BY <1>5, <1>7
    <3>2. CASE i + 1 < Len(Document(r).extends)
      BY <1>10, <2>2, <2>3, <3>1, <3>2, ExtendsFirst
    <3>3. CASE ~(i + 1 < Len(Document(r).extends))
      BY <2>2, <3>1, <3>3
    <3> QED
      BY <3>2, <3>3
  <2>5. CASE x.edge.index < i
    BY <1>2, <1>10, <2>1, <2>5 DEF KeepInv, KeptFound, Settled
  <2>6. CASE x.edge.index = i
    <3>1. PICK p \in frames : p.id = x.edge.parent
      BY <1>2 DEF IInv, ReferencesResolve, Ids
    <3>2. p.org = ref.org /\ p.name = ref.name /\ x.edge.pinned = ref.version
      BY <1>4, <1>7, <2>6, <3>1 DEF Follows
    <3>3. ref \in ExtendRef
      BY <1>7, <2>2, <2>6
    <3>4. OrgOf(ref, Me(r)) = ref.org
      BY <3>3, RegistryStoreAssumption DEF ExtendRef, OrgOf
    <3>5. f = p
      BY <3>1, <3>2, <3>4 DEF GetFrameBySlugName, IInv, ReferencesResolve
    <3>6. x.edge = NextEdge(r, f)
      BY <1>5, <2>6, <3>1, <3>2, <3>5 DEF NextEdge
    <3> QED
      BY <2>1, <3>6
  <2>7. x.edge.index \in Nat
    BY <1>5
  <2> HIDE DEF i, ref
  <2>8. x.edge.index < i \/ x.edge.index = i
    BY <2>2, <2>4, <2>7
  <2> QED
    BY <2>5, <2>6, <2>8
<1> QED
  BY <1>8, <1>9, <1>10, SettlingSteps

\* ... and nobody else's step takes that from it: the edges of a published
\* version are none but those it was published with.
LEMMA KeptFoundPreserved ==
  ASSUME IInv, KeepInv, NEW r \in Request, RequestStep(r)
  PROVE  KeptFound'
<1> SUFFICES ASSUME NEW q \in Request, pc'[q] \in Settled, call'[q].keep,
                    NEW x \in frame_extends', NEW v \in row'[q],
                    x.frame = v.frame, x.version = v.version,
                    pc'[q] = "extend" => x.edge.index < Cardinality(edges'[q])
             PROVE  x.edge \in edges'[q]
  BY DEF KeptFound
<1>1. CASE q = r
  BY <1>1, KeptFoundByMover
<1>2. CASE q # r
  <2>1. Unmoved(q)
    BY <1>2, OthersUnmoved DEF IInv
  <2>2. v \in row[q]
    BY <2>1 DEF Unmoved
  <2>3. x \in frame_extends
    <3>1. ASSUME Committed(r), x.frame = Frame(r).id, x.version = call[r].version
          PROVE  FALSE
      <4>1. v \notin versions
        BY <3>1, CommittedIsNew
      <4>2. v.frame \notin Ids(frames)
        BY <2>2, <4>1 DEF KeepInv, RowsHeld
      <4>3. isNew[r] /\ frame[r] = {Frame(r)}
        BY <3>1, <4>2, CommittedFrame DEF Ids
      <4> QED
        BY <2>2, <3>1, <4>3 DEF IInv, NewIdsAreNew
    <3> QED
      BY <3>1, RowsAfter
  <2> QED
    BY <2>1, <2>2, <2>3 DEF KeepInv, KeptFound, Unmoved
<1> QED
  BY <1>1, <1>2

\* Every step keeps the invariant of what is kept.
LEMMA NextKeepInv == IInv /\ KeepInv /\ [Next]_vars => KeepInv'
<1>1. ASSUME IInv, KeepInv, NEW r \in Request, RequestStep(r) PROVE KeepInv'
  BY <1>1, EdgesFollowPreserved, RowsHeldPreserved, ResolvedFollowPreserved, KeptFoundPreserved
     DEF KeepInv
<1>2. ASSUME KeepInv, UNCHANGED vars PROVE KeepInv'
  BY <1>2 DEF KeepInv, vars, tables, EdgesFollow, RowsHeld, ResolvedFollow, KeptFound, Follows,
     Document, Row, Ids
<1> QED
  BY <1>1, <1>2 DEF Next

-----------------------------------------------------------------------------
(* Replies.                                                                *)

\* A request that runs has not been answered.
Unanswered == \A r \in Request : pc[r] # "idle" => reply[r] = "none"

\* Every step keeps it so.
LEMMA NextUnanswered == IInv /\ Unanswered /\ [Next]_vars => Unanswered'
<1>1. ASSUME IInv, Unanswered, NEW r \in Request, RequestStep(r) PROVE Unanswered'
  <2> SUFFICES ASSUME NEW q \in Request, pc'[q] # "idle" PROVE reply'[q] = "none"
    BY DEF Unanswered
  <2>1. CASE q # r
    BY <1>1, <2>1, OthersUnmoved DEF Unmoved, Unanswered, IInv
  <2>2. CASE q = r
    <3>t. TypeOK
      BY <1>1 DEF IInv
    <3>1. ASSUME NEW code PROVE ~Finish(r, code)
      BY <2>2, <3>t DEF Finish, Goto, TypeOK
    <3>2. CASE Receive(r)
      BY <2>2, <3>1, <3>2, <3>t DEF Receive, TypeOK
    <3>3. CASE ~Receive(r)
      BY <1>1, <2>2, <3>1, <3>3, <3>t DEF Unanswered, TypeOK, RequestStep, Continue, LookUpFrame,
         CheckRead, ReadVersion, ReadEdges, ReadExcludes, NameParent, FindFrame, CheckEdit,
         ResolveExtend, ResolveExclude, CreateFrameVersion, CheckDelete, FrameChildren,
         DeleteFrame, StoreError
    <3> QED
      BY <3>2, <3>3
  <2> QED
    BY <2>1, <2>2
<1>2. ASSUME Unanswered, UNCHANGED vars PROVE Unanswered'
  BY <1>2 DEF Unanswered, vars
<1> QED
  BY <1>1, <1>2 DEF Next

\* The reply to a request that runs is given when it is, and not before.
THEOREM AnsweredOnce == Spec => []Unanswered
<1>1. Init => Unanswered
  BY DEF Init, Unanswered
<1> QED
  BY <1>1, Inductive, NextUnanswered, PTL DEF Spec

\* A publish answers "ok" in the step that commits.
LEMMA OkMeansCommitted ==
  ASSUME IInv, Unanswered, NEW r \in Request, RequestStep(r),
         NEW q \in Request, pc[q] = "write", reply'[q] = "ok"
  PROVE  q = r /\ Committed(r)
<1>1. q = r
  BY OthersUnmoved DEF IInv, Unmoved, Unanswered
<1>2. TypeOK
  BY DEF IInv
<1>3. CASE CreateFrameVersion(r)
  BY <1>1, <1>2, <1>3 DEF CreateFrameVersion, Committed, Finish, TypeOK
<1>4. CASE StoreError(r)
  BY <1>1, <1>2, <1>4 DEF StoreError, Finish, TypeOK
<1> QED
  BY <1>1, <1>3, <1>4 DEF RequestStep, Receive, LookUpFrame, CheckRead, ReadVersion, ReadEdges,
     ReadExcludes, NameParent, FindFrame, CheckEdit, ResolveExtend, ResolveExclude,
     CheckDelete, FrameChildren, DeleteFrame

\* An update that leaves the references out keeps every parent the version it
\* read still has when it is stored, however publishes and deletes interleave:
\* names are resolved again, to the same frames (applyTo, resolveEdges).
THEOREM UpdatesKeepParents == Spec => UpdateKeepsParents
<1> DEFINE A == \A r \in Request :
                  pc[r] = "write" /\ reply'[r] = "ok" /\ call[r].op = "update" /\ call[r].keep
                    => \A e \in EdgesOf(frame_extends, Row(r).frame, Row(r).version) :
                         e \in EdgesOf(frame_extends', Frame(r).id, call[r].version)
<1>1. Init => KeepInv
  BY DEF Init, KeepInv, EdgesFollow, RowsHeld, ResolvedFollow, KeptFound, Settled
<1>2. ASSUME IInv, KeepInv, Unanswered, NEW r \in Request, RequestStep(r), NEW q \in Request,
             pc[q] = "write", reply'[q] = "ok", call[q].op = "update", call[q].keep,
             NEW e \in EdgesOf(frame_extends, Row(q).frame, Row(q).version)
      PROVE  e \in EdgesOf(frame_extends', Frame(q).id, call[q].version)
  <2>1. Committed(q)
    BY <1>2, OkMeansCommitted
  <2>2. PICK x \in frame_extends : x.frame = Row(q).frame /\ x.version = Row(q).version /\ x.edge = e
    BY <1>2 DEF EdgesOf
  <2>3. row[q] = {Row(q)}
    BY <1>2, SettledDocument DEF Settled
  <2>4. e \in edges[q]
    BY <1>2, <2>2, <2>3 DEF KeepInv, KeptFound, Settled
  <2> DEFINE y == [frame |-> Frame(q).id, version |-> call[q].version, edge |-> e]
  <2>5. y \in frame_extends'
    BY <2>1, <2>4 DEF Committed, Written, EdgeRows
  <2> QED
    BY <2>5 DEF EdgesOf
<1>3. IInv /\ KeepInv /\ Unanswered /\ [Next]_vars => [A]_vars
  BY <1>2 DEF Next
<1> QED
  BY <1>1, <1>3, Inductive, AnsweredOnce, NextKeepInv, PTL DEF Spec, UpdateKeepsParents

-----------------------------------------------------------------------------
(* One request at a time.                                                  *)

\* No two requests run at once.
OneAtATime == \A p, q \in Request : p = q

\* The frame a handler has read is the row that is there, until publish changes
\* its copy; an update has read it under the name it is to publish to.
FrameAsRead(r) ==
  /\ pc[r] \in {"can_read", "version", "edges", "excludes", "can_edit",
                "can_delete", "children", "delete"} => frame[r] \subseteq frames
  /\ pc[r] \in {"can_read", "version"} /\ call[r].op = "update" =>
       \A f \in frame[r] : f.org = Me(r).org /\ f.name = call[r].name

\* The version an update has read is the latest of the frame it publishes to.
BasedOnLatest(r) ==
  call[r].op = "update" /\ pc[r] \in {"edges", "excludes", "find", "can_edit"} \cup Settled =>
    \E f \in frames :
      /\ f.org = Me(r).org /\ f.name = call[r].name
      /\ \A v \in row[r] : v.frame = f.id /\ v.version = f.latest
      /\ pc[r] \in {"can_edit"} \cup Settled => \A g \in frame[r] : g.id = f.id

\* What CheckEdit and FrameChildren have found is still so.
ChecksStand(r) ==
  /\ pc[r] \in Settled /\ ~isNew[r] =>
       \E f \in frames : /\ f.id = Frame(r).id
                         /\ ~MovedOn(f, call[r]) /\ ~GoesBack(f, call[r])
  /\ pc[r] = "delete" => ~Blocked(r)

SerialInv == \A r \in Request : FrameAsRead(r) /\ BasedOnLatest(r) /\ ChecksStand(r)

OwnRead(r) == FrameAsRead(r) /\ BasedOnLatest(r) /\ ChecksStand(r)

\* A handler that returns has nothing to keep true.
LEMMA FinishOwnRead ==
  ASSUME TypeOK, NEW r \in Request, NEW code, Finish(r, code)
  PROVE  OwnRead(r)'
<1>1. pc'[r] = "idle"
  BY DEF Finish, Goto, TypeOK
<1> QED
  BY <1>1 DEF OwnRead, FrameAsRead, BasedOnLatest, ChecksStand, Settled

\* The steps of reading, when no one else writes.
LEMMA ReadOwnRead ==
  ASSUME IInv, NEW r \in Request, OwnRead(r),
         \/ Receive(r) \/ LookUpFrame(r) \/ CheckRead(r) \/ ReadVersion(r) \/ ReadEdges(r)
         \/ ReadExcludes(r) \/ NameParent(r) \/ CheckDelete(r) \/ FrameChildren(r)
  PROVE  OwnRead(r)'
<1> USE DEF Continue, Goto
<1>t. TypeOK /\ HandlerOK(r) /\ ReferencesResolve
  BY DEF IInv, HandlersOK
<1>f. ASSUME NEW code, Finish(r, code) PROVE OwnRead(r)'
  BY <1>f, <1>t, FinishOwnRead
<1>1. CASE Receive(r)
  <2>1. ASSUME NEW c \in Call, Goto(r, FirstStep(c)), call' = [call EXCEPT ![r] = c]
        PROVE  OwnRead(r)'
    <3>1. pc'[r] \in {"get", "find"} /\ (pc'[r] = "find" => call'[r].op # "update")
      BY <2>1, <1>t DEF FirstStep, TypeOK
    <3> QED
      BY <3>1 DEF OwnRead, FrameAsRead, BasedOnLatest, ChecksStand, Settled
  <2> QED
    BY <1>1, <1>f, <2>1 DEF Receive
<1>2. CASE LookUpFrame(r)
  <2> DEFINE org == IF call[r].op = "update" THEN Me(r).org ELSE call[r].org
             found == GetFrameBySlugName(frames, org, call[r].name)
  <2>1. ASSUME frame' = [frame EXCEPT ![r] = found], UNCHANGED tables,
               Continue(r, IF call[r].op = "delete" THEN "can_delete" ELSE "can_read")
        PROVE  OwnRead(r)'
    <3>1. frame'[r] = found /\ call'[r] = call[r] /\ pc'[r] \in {"can_delete", "can_read"}
      BY <2>1, <1>t DEF TypeOK
    <3>2. FrameAsRead(r)'
      BY <2>1, <3>1 DEF FrameAsRead, GetFrameBySlugName, Me, tables
    <3> QED
      BY <3>1, <3>2 DEF OwnRead, BasedOnLatest, ChecksStand, Settled
  <2> QED
    BY <1>2, <1>f, <2>1 DEF LookUpFrame
<1>3. CASE CheckRead(r)
  <2>1. ASSUME Continue(r, "version"), UNCHANGED <<tables, frame, row>> PROVE OwnRead(r)'
    <3>1. pc'[r] = "version" /\ pc[r] = "can_read"
      BY <1>3, <2>1, <1>t DEF CheckRead, TypeOK
    <3> QED
      BY <2>1, <3>1 DEF OwnRead, FrameAsRead, BasedOnLatest, ChecksStand, Settled, Me, tables
  <2> QED
    BY <1>3, <1>f, <2>1 DEF CheckRead
<1>4. CASE ReadVersion(r)
  <2> DEFINE found == {v \in VersionsOf(versions, Frame(r).id) : v.version = Wanted(r)}
  <2>1. ASSUME row' = [row EXCEPT ![r] = found], Continue(r, "edges"), UNCHANGED <<tables, frame>>
        PROVE  OwnRead(r)'
    <3>1. pc'[r] = "edges" /\ pc[r] = "version" /\ row'[r] = found /\ call'[r] = call[r]
      BY <1>4, <2>1, <1>t DEF ReadVersion, TypeOK
    <3>2. frame[r] = {Frame(r)} /\ frame[r] \subseteq frames
      BY <3>1, <1>t, FrameHeld DEF HandlerOK, OwnRead, FrameAsRead
    <3>3. FrameAsRead(r)' /\ ChecksStand(r)'
      BY <2>1, <3>1, <3>2 DEF FrameAsRead, ChecksStand, Settled, tables
    <3>4. ASSUME call[r].op = "update"
          PROVE  /\ Frame(r) \in frames /\ Frame(r).org = Me(r).org /\ Frame(r).name = call[r].name
                 /\ \A v \in row'[r] : v.frame = Frame(r).id /\ v.version = Frame(r).latest
      BY <3>1, <3>2, <3>4 DEF OwnRead, FrameAsRead, VersionsOf, Wanted
    <3>5. BasedOnLatest(r)'
      BY <2>1, <3>1, <3>4 DEF BasedOnLatest, Settled, tables, Me
    <3> QED
      BY <3>3, <3>5 DEF OwnRead
  <2> QED
    BY <1>4, <1>f, <2>1 DEF ReadVersion
<1>5. CASE ReadEdges(r)
  <2>1. pc'[r] = "excludes" /\ pc[r] = "edges" /\ UNCHANGED <<tables, frame, row, call>>
    BY <1>5, <1>t DEF ReadEdges, TypeOK
  <2> QED
    BY <2>1 DEF OwnRead, FrameAsRead, BasedOnLatest, ChecksStand, Settled, Me, tables
<1>6. CASE ReadExcludes(r)
  <2>1. ASSUME call[r].op = "get", Continue(r, "parents") PROVE OwnRead(r)'
    <3>1. pc'[r] = "parents"
      BY <2>1, <1>t DEF TypeOK
    <3> QED
      BY <3>1 DEF OwnRead, FrameAsRead, BasedOnLatest, ChecksStand, Settled
  <2>2. ASSUME Continue(r, "find"), UNCHANGED <<tables, row>> PROVE OwnRead(r)'
    <3>1. pc'[r] = "find" /\ pc[r] = "excludes"
      BY <1>6, <2>2, <1>t DEF ReadExcludes, TypeOK
    <3> QED
      BY <2>2, <3>1 DEF OwnRead, FrameAsRead, BasedOnLatest, ChecksStand, Settled, Me, tables
  <2> QED
    BY <1>6, <1>f, <2>1, <2>2 DEF ReadExcludes
<1>7. CASE NameParent(r)
  <2>1. ASSUME Continue(r, "parents") PROVE OwnRead(r)'
    <3>1. pc'[r] = "parents"
      BY <2>1, <1>t DEF TypeOK
    <3> QED
      BY <3>1 DEF OwnRead, FrameAsRead, BasedOnLatest, ChecksStand, Settled
  <2> QED
    BY <1>7, <1>f, <2>1 DEF NameParent
<1>8. CASE CheckDelete(r)
  <2>1. ASSUME Continue(r, "children"), UNCHANGED <<tables, frame>> PROVE OwnRead(r)'
    <3>1. pc'[r] = "children" /\ pc[r] = "can_delete"
      BY <1>8, <2>1, <1>t DEF CheckDelete, TypeOK
    <3> QED
      BY <2>1, <3>1 DEF OwnRead, FrameAsRead, BasedOnLatest, ChecksStand, Settled, tables
  <2> QED
    BY <1>8, <1>f, <2>1 DEF CheckDelete
<1>9. CASE FrameChildren(r)
  <2>1. ASSUME ~Blocked(r), Continue(r, "delete"), UNCHANGED <<tables, frame>> PROVE OwnRead(r)'
    <3>1. pc'[r] = "delete" /\ pc[r] = "children"
      BY <1>9, <2>1, <1>t DEF FrameChildren, TypeOK
    <3>2. ~Blocked(r)'
      BY <2>1 DEF Blocked, Frame, tables
    <3> QED
      BY <2>1, <3>1, <3>2 DEF OwnRead, FrameAsRead, BasedOnLatest, ChecksStand, Settled, tables
  <2> QED
    BY <1>9, <1>f, <2>1 DEF FrameChildren
<1> QED
  BY <1>1, <1>2, <1>3, <1>4, <1>5, <1>6, <1>7, <1>8, <1>9

\* The steps of publish and the transactions, when no one else writes.
LEMMA WriteOwnRead ==
  ASSUME IInv, NEW r \in Request, OwnRead(r),
         \/ FindFrame(r) \/ CheckEdit(r) \/ ResolveExtend(r) \/ ResolveExclude(r)
         \/ CreateFrameVersion(r) \/ DeleteFrame(r) \/ StoreError(r)
  PROVE  OwnRead(r)'
<1> USE DEF Continue, Goto
<1>t. TypeOK /\ HandlerOK(r) /\ ReferencesResolve /\ call[r] \in Call
  BY DEF IInv, HandlersOK, TypeOK
<1>f. ASSUME NEW code, Finish(r, code) PROVE OwnRead(r)'
  BY <1>f, <1>t, FinishOwnRead
<1>1. CASE FindFrame(r)
  <2> DEFINE c == call[r]
             found == GetFrameBySlugName(frames, Me(r).org, c.name)
  <2>0. pc[r] = "find"
    BY <1>1 DEF FindFrame
  <2>1. ASSUME c.intent # "update", isNew' = [isNew EXCEPT ![r] = TRUE],
               Continue(r, Resolving(r, 0, 0))
        PROVE  OwnRead(r)'
    <3>1. call'[r].op # "update"
      BY <2>1, <1>t, RegistryAssumption
    <3>2. pc'[r] \in Settled /\ isNew'[r]
      BY <2>1, <1>t, ResolvingStep DEF TypeOK
    <3> QED
      BY <3>1, <3>2 DEF OwnRead, FrameAsRead, BasedOnLatest, ChecksStand, Settled
  <2>2. ASSUME found # {}, frame' = [frame EXCEPT ![r] = found], Continue(r, "can_edit"),
               UNCHANGED <<tables, row>>
        PROVE  OwnRead(r)'
    <3>1. pc'[r] = "can_edit" /\ frame'[r] = found /\ UNCHANGED <<tables, row, call>>
      BY <2>2, <1>t DEF TypeOK
    <3>2. found \subseteq frames /\ \A f, g \in found : f = g
      BY <1>t, LookupIsUnique
    <3>3. FrameAsRead(r)' /\ ChecksStand(r)'
      BY <3>1, <3>2 DEF FrameAsRead, ChecksStand, Settled, tables
    <3>4. ASSUME c.op = "update"
          PROVE  \E f \in frames :
                   /\ f.org = Me(r).org /\ f.name = c.name
                   /\ \A v \in row[r] : v.frame = f.id /\ v.version = f.latest
                   /\ \A g \in found : g.id = f.id
      <4>1. PICK f \in frames : /\ f.org = Me(r).org /\ f.name = c.name
                                /\ \A v \in row[r] : v.frame = f.id /\ v.version = f.latest
        BY <2>0, <3>4 DEF OwnRead, BasedOnLatest
      <4>2. f \in found
        BY <4>1 DEF GetFrameBySlugName
      <4> QED
        BY <3>2, <4>1, <4>2
    <3> HIDE DEF found
    <3>5. BasedOnLatest(r)'
      BY <3>1, <3>4 DEF BasedOnLatest, Settled, tables, Me
    <3> QED
      BY <3>3, <3>5 DEF OwnRead
  <2> QED
    BY <1>1, <1>f, <2>1, <2>2 DEF FindFrame
<1>2. CASE CheckEdit(r)
  <2> DEFINE f == Frame(r)
             g == [f EXCEPT !.latest = call[r].version]
  <2>0. pc[r] = "can_edit"
    BY <1>2 DEF CheckEdit
  <2>1. ASSUME ~MovedOn(f, call[r]), ~GoesBack(f, call[r]), frame' = [frame EXCEPT ![r] = {g}],
               Continue(r, Resolving(r, 0, 0)), UNCHANGED <<tables, row>>
        PROVE  OwnRead(r)'
    <3>1. frame[r] = {f} /\ f \in frames /\ f \in FrameRow
      BY <2>0, <1>t, FrameHeld DEF HandlerOK, OwnRead, FrameAsRead
    <3>2. g.id = f.id
      BY <3>1 DEF FrameRow
    <3>3. pc'[r] \in Settled /\ frame'[r] = {g} /\ UNCHANGED <<tables, row, call>>
      BY <2>1, <1>t, ResolvingStep DEF TypeOK
    <3> HIDE DEF g
    <3>4. Frame(r)' = g
      BY <3>3 DEF Frame
    <3>5. ChecksStand(r)'
      <4>1. f \in frames' /\ f.id = Frame(r)'.id /\ ~MovedOn(f, call'[r]) /\ ~GoesBack(f, call'[r])
        BY <2>1, <3>1, <3>2, <3>3, <3>4 DEF tables
      <4> QED
        BY <3>3, <4>1 DEF ChecksStand, Settled
    <3>6. FrameAsRead(r)'
      BY <3>3 DEF FrameAsRead, Settled
    <3>7. BasedOnLatest(r)'
      BY <2>0, <3>1, <3>2, <3>3 DEF OwnRead, BasedOnLatest, tables, Me
    <3> QED
      BY <3>5, <3>6, <3>7 DEF OwnRead
  <2> QED
    BY <1>2, <1>f, <2>1 DEF CheckEdit
<1>3. CASE ResolveExtend(r) \/ ResolveExclude(r)
  <2>1. ASSUME NEW i, NEW j, Continue(r, Resolving(r, i, j)), UNCHANGED <<tables, frame, isNew, row>>
        PROVE  OwnRead(r)'
    <3>1. pc[r] \in Settled /\ pc'[r] \in Settled
      BY <1>3, <2>1, <1>t, ResolvingStep DEF ResolveExtend, ResolveExclude, TypeOK, Settled
    <3>2. Frame(r)' = Frame(r)
      BY <2>1 DEF Frame
    <3> QED
      BY <2>1, <3>1, <3>2 DEF OwnRead, FrameAsRead, BasedOnLatest, ChecksStand, Settled, Me, tables
  <2> QED
    BY <1>3, <1>f, <2>1 DEF ResolveExtend, ResolveExclude
<1>4. CASE CreateFrameVersion(r) \/ DeleteFrame(r) \/ StoreError(r)
  BY <1>4, <1>f DEF CreateFrameVersion, DeleteFrame, StoreError
<1> QED
  BY <1>1, <1>2, <1>3, <1>4

\* Every step keeps what the only request that runs has established.
LEMMA NextSerialInv ==
  ASSUME OneAtATime
  PROVE  IInv /\ SerialInv /\ [Next]_vars => SerialInv'
<1>1. ASSUME IInv, SerialInv, NEW r \in Request, RequestStep(r) PROVE SerialInv'
  <2>1. OwnRead(r)'
    BY <1>1, ReadOwnRead, WriteOwnRead DEF SerialInv, OwnRead, RequestStep
  <2> QED
    BY <2>1 DEF SerialInv, OwnRead, OneAtATime
<1>2. ASSUME SerialInv, UNCHANGED vars PROVE SerialInv'
  BY <1>2 DEF SerialInv, vars, tables, FrameAsRead, BasedOnLatest, ChecksStand, Blocked, Frame, Me
<1> QED
  BY <1>1, <1>2 DEF Next

\* While one request runs at a time, what it has read is so when it writes.
LEMMA ReadStands == ASSUME OneAtATime PROVE Spec => []SerialInv
<1>1. Init => SerialInv
  BY DEF Init, SerialInv, FrameAsRead, BasedOnLatest, ChecksStand, Settled
<1> QED
  BY <1>1, Inductive, NextSerialInv, PTL DEF Spec

\* When one request runs at a time, an update is stored only on the version the
\* client based it on, and was merged into that version's document (the
\* base_version check of publish).
THEOREM UpdatesAreBased == ASSUME OneAtATime PROVE Spec => BaseVersionHonoured
<1> DEFINE A == \A r \in Request :
                  pc[r] = "write" /\ reply'[r] = "ok" /\ call[r].op = "update"
                    => /\ \E f \in frames : f.id = Frame(r).id /\ f.latest = call[r].base
                       /\ Row(r).frame = Frame(r).id /\ Row(r).version = call[r].base
<1>1. ASSUME IInv, SerialInv, NEW r \in Request, pc[r] = "write", call[r].op = "update"
      PROVE  /\ \E f \in frames : f.id = Frame(r).id /\ f.latest = call[r].base
             /\ Row(r).frame = Frame(r).id /\ Row(r).version = call[r].base
  <2>1. HandlerOK(r) /\ TypeOK /\ call[r] \in Call
    BY <1>1 DEF IInv, HandlersOK, TypeOK
  <2>2. frame[r] = {Frame(r)} /\ row[r] = {Row(r)}
    BY <1>1, <2>1, FrameHeld, RowHeld DEF HandlerOK, Settled
  <2>3. PICK f \in frames : f.id = Frame(r).id /\ Row(r).frame = f.id /\ Row(r).version = f.latest
    BY <1>1, <2>2 DEF SerialInv, BasedOnLatest, Settled
  <2>4. ~isNew[r]
    <3>1. f.id \in Ids(frames)
      BY DEF Ids
    <3> QED
      BY <1>1, <2>2, <2>3, <3>1 DEF IInv, NewIdsAreNew
  <2>5. PICK g \in frames : g.id = Frame(r).id /\ ~MovedOn(g, call[r])
    BY <1>1, <2>4 DEF SerialInv, ChecksStand, Settled
  <2>6. g = f
    BY <1>1, <2>3, <2>5 DEF IInv, ReferencesResolve
  <2>7. f.latest = call[r].base
    BY <1>1, <2>1, <2>5, <2>6, RegistryAssumption DEF MovedOn
  <2> QED
    BY <2>3, <2>7
<1>2. IInv /\ SerialInv /\ [Next]_vars => [A]_vars
  BY <1>1
<1> QED
  BY <1>2, Inductive, ReadStands, PTL DEF Spec, BaseVersionHonoured

\* When one request runs at a time, latest_version never moves back: a publish
\* of an older version is refused (the monotonic check of publish).
THEOREM LatestAdvances == ASSUME OneAtATime PROVE Spec => LatestMovesForward
<1> DEFINE A == \A f \in frames, g \in frames' : f.id = g.id => ~Older(g.latest, f.latest)
<1>1. ASSUME IInv, NEW f \in frames PROVE ~Older(f.latest, f.latest)
  BY <1>1, RegistryStoreAssumption DEF IInv, TypeOK, FrameRow, Older
<1>2. ASSUME IInv, SerialInv, NEW r \in Request, RequestStep(r),
             NEW f \in frames, NEW g \in frames', f.id = g.id
      PROVE  ~Older(g.latest, f.latest)
  <2>1. CASE g \in frames
    BY <1>1, <1>2, <2>1 DEF IInv, ReferencesResolve
  <2>2. CASE Committed(r) /\ g = Frame(r)
    <3>1. pc[r] = "write" /\ frame[r] = {g} /\ g.latest = call[r].version
      BY <1>2, <2>2, CommittedHolds DEF Committed
    <3>2. ~isNew[r]
      <4>1. g.id \in Ids(frames)
        BY <1>2 DEF Ids
      <4> QED
        BY <1>2, <3>1, <4>1 DEF IInv, NewIdsAreNew
    <3>3. PICK h \in frames : h.id = g.id /\ ~GoesBack(h, call[r])
      BY <1>2, <2>2, <3>1, <3>2 DEF SerialInv, ChecksStand, Settled
    <3>4. h = f
      BY <1>2, <3>3 DEF IInv, ReferencesResolve
    <3> QED
      BY <3>1, <3>3, <3>4 DEF GoesBack
  <2>3. g \in frames \/ (Committed(r) /\ g = Frame(r))
    BY <1>2, FramesAfter
  <2> QED
    BY <2>1, <2>2, <2>3
<1>3. IInv /\ SerialInv /\ [Next]_vars => [A]_vars
  BY <1>2 DEF Next
<1> QED
  BY <1>3, Inductive, ReadStands, PTL DEF Spec, LatestMovesForward

\* When one request runs at a time, no frame that has children is deleted unless
\* the client forces it (DeleteFrame's check for children).
THEOREM DeletesBlock == ASSUME OneAtATime PROVE Spec => DeleteBlocksOnChildren
<1> DEFINE A == \A r \in Request :
                  pc[r] = "delete" /\ reply'[r] = "ok" /\ ~call[r].force
                    => Children(frame_extends, Frame(r).id) = {}
<1>1. ASSUME SerialInv, NEW r \in Request, pc[r] = "delete", ~call[r].force
      PROVE  Children(frame_extends, Frame(r).id) = {}
  BY <1>1 DEF SerialInv, ChecksStand, Blocked
<1>2. SerialInv /\ [Next]_vars => [A]_vars
  BY <1>1
<1> QED
  BY <1>2, ReadStands, PTL DEF Spec, DeleteBlocksOnChildren

=============================================================================
