--------------------------- MODULE RegistryProofs ---------------------------
(***************************************************************************)
(* Theorems about Registry, for every set of organizations, subjects,      *)
(* names, versions, references and requests.                               *)
(***************************************************************************)
EXTENDS Registry, FiniteSetTheorems, TLAPS

-----------------------------------------------------------------------------
(* The inductive invariant.                                                *)

\* publish has settled on a frame and has its references still to resolve or
\* the transaction still to run.
Settled == {"extend", "exclude", "write"}

\* What a handler has established at each repository call.
HandlerOK(r) ==
  /\ pc[r] \in {"can_read", "version", "can_edit", "can_delete", "children", "delete"} \cup Settled
       => frame[r] # {}
  /\ pc[r] \in {"idle", "get", "can_read", "version"} => row[r] = {}
  /\ pc[r] \in {"edges", "excludes"} => row[r] # {}
  /\ pc[r] \in {"idle", "get", "can_read", "version", "find", "can_edit"} => edges[r] = {}
  /\ pc[r] \in {"find", "can_edit"} \cup Settled =>
       /\ call[r].op \in {"publish", "update"}
       /\ call[r].op = "update" => row[r] # {}
  /\ pc[r] = "extend" => /\ IsFiniteSet(edges[r])
                         /\ Cardinality(edges[r]) < Len(Document(r).extends)
  /\ pc[r] \in Settled => \A f \in frame[r] : f.latest = call[r].version
  /\ isNew[r] => pc[r] \in Settled

HandlersOK == \A r \in Request : HandlerOK(r)

SameFrame(f, g) == f.org = g.org /\ f.name = g.name /\ f.owner = g.owner

\* An id stays with one frame as long as somebody holds it: what a handler has
\* read of a frame but for its latest version is still so, or the frame is gone.
HeldFramesAgree ==
  \A r \in Request : \A f \in frame[r], g \in frames : f.id = g.id => SameFrame(f, g)

\* The id of a frame that is not yet written is nobody else's.
NewIdsAreNew ==
  \A r \in Request : isNew[r] =>
    \A f \in frame[r] :
      /\ f.id \notin Ids(frames)
      /\ \A q \in Request : /\ q # r => \A g \in frame[q] : g.id # f.id
                            /\ \A v \in row[q] : v.frame # f.id
                            /\ \A e \in edges[q] : e.parent # f.id

\* What a handler holds is its caller's to use: a frame past its permission
\* check, a version it has read, and the parents it has resolved.
HeldByRight(r) ==
  /\ pc[r] \in {"version", "can_edit"} => \A f \in frame[r] : f.org = Me(r).org
  /\ pc[r] \in {"children", "delete"} \cup Settled => \A f \in frame[r] : Controls(Me(r), f)
  /\ \A v \in row[r], f \in frames : f.id = v.frame => f.org = Me(r).org
  /\ pc[r] \in Settled =>
       \A e \in edges[r], p \in frames : p.id = e.parent => p.org = Me(r).org

\* No inheritance edge crosses organizations.
EdgesStayInOrg ==
  \A e \in frame_extends, f, p \in frames :
    f.id = e.frame /\ p.id = e.edge.parent => f.org = p.org

RightsInv == (\A r \in Request : HeldByRight(r)) /\ EdgesStayInOrg

IInv == TypeOK /\ HandlersOK /\ HeldFramesAgree /\ NewIdsAreNew /\ ReferencesResolve

-----------------------------------------------------------------------------
(* What a handler holds.                                                   *)

LocalTypeOK ==
  /\ pc \in [Request -> Step]
  /\ call \in [Request -> Call]
  /\ frame \in [Request -> SUBSET FrameRow]
  /\ isNew \in [Request -> BOOLEAN]
  /\ row \in [Request -> SUBSET VersionRow]
  /\ edges \in [Request -> SUBSET ParentEdge]
  /\ excludeIDs \in [Request -> Seq(FrameId)]
  /\ \A r \in Request : (\A f, g \in frame[r] : f = g) /\ (\A v, w \in row[r] : v = w)
  /\ reply \in [Request -> Reply]

\* A handler that has looked up a frame holds one.
LEMMA FrameHeld ==
  ASSUME TypeOK, NEW r \in Request, frame[r] # {}
  PROVE  Frame(r) \in FrameRow /\ frame[r] = {Frame(r)}
BY DEF TypeOK, Frame

\* A handler that has read a version holds one.
LEMMA RowHeld ==
  ASSUME TypeOK, NEW r \in Request, row[r] # {}
  PROVE  Row(r) \in VersionRow /\ row[r] = {Row(r)}
BY DEF TypeOK, Row

\* The parts of a call have the types the handlers expect.
LEMMA CallFields ==
  ASSUME NEW c \in Call
  PROVE  /\ c.caller.org \in Org /\ c.caller.sub \in Sub
         /\ c.op \in {"get", "publish", "update", "delete"}
         /\ c.name \in Name
         /\ c.op \in {"publish", "update"} => c.version \in Version
         /\ c.op # "update" /\ c.op # "get" /\ c.op # "delete" => ~c.keep
         /\ c.extends \in Seq(ExtendRef) /\ c.excludes \in Seq(ExcludeRef)
BY RegistryAssumption DEF CallType, Caller

\* A publish or an update that has read its document has one.
LEMMA DocumentType ==
  ASSUME TypeOK, NEW r \in Request, call[r].op \in {"publish", "update"},
         call[r].op = "update" => row[r] # {}
  PROVE  Document(r).extends \in Seq(ExtendRef) /\ Document(r).excludes \in Seq(ExcludeRef)
<1>1. call[r] \in Call
  BY DEF TypeOK
<1>2. call[r].keep => row[r] # {}
  BY <1>1, CallFields
<1>3. CASE call[r].keep
  BY <1>2, <1>3, RowHeld DEF Document, VersionRow
<1>4. CASE ~call[r].keep
  BY <1>1, <1>4, CallFields DEF Document
<1> QED
  BY <1>3, <1>4

\* A name belongs to one frame: a lookup finds at most one, of the name it asks for.
LEMMA LookupIsUnique ==
  ASSUME TypeOK, ReferencesResolve, NEW org, NEW name
  PROVE  /\ GetFrameBySlugName(frames, org, name) \subseteq frames
         /\ GetFrameBySlugName(frames, org, name) \subseteq FrameRow
         /\ \A f, g \in GetFrameBySlugName(frames, org, name) : f = g
BY DEF TypeOK, ReferencesResolve, GetFrameBySlugName

\* The local variables of one handler are what they were.
Unmoved(q) ==
  /\ pc'[q] = pc[q] /\ call'[q] = call[q] /\ frame'[q] = frame[q] /\ isNew'[q] = isNew[q]
  /\ row'[q] = row[q] /\ edges'[q] = edges[q] /\ excludeIDs'[q] = excludeIDs[q]
  /\ reply'[q] = reply[q]

\* A handler's step leaves the local variables of the others alone.
LEMMA OthersUnmoved ==
  ASSUME TypeOK, NEW r \in Request, RequestStep(r), NEW q \in Request, q # r
  PROVE  Unmoved(q)
<1> USE DEF Unmoved, Goto, Continue, TypeOK
<1>f. ASSUME NEW code, Finish(r, code) PROVE Unmoved(q)
  BY <1>f DEF Finish
<1>1. CASE Receive(r)
  BY <1>1, <1>f DEF Receive
<1>2. CASE LookUpFrame(r)
  BY <1>2, <1>f DEF LookUpFrame
<1>3. CASE CheckRead(r)
  BY <1>3, <1>f DEF CheckRead
<1>4. CASE ReadVersion(r)
  BY <1>4, <1>f DEF ReadVersion
<1>5. CASE ReadEdges(r)
  BY <1>5, <1>f DEF ReadEdges
<1>6. CASE ReadExcludes(r)
  BY <1>6, <1>f DEF ReadExcludes
<1>7. CASE NameParent(r)
  BY <1>7, <1>f DEF NameParent
<1>8. CASE FindFrame(r)
  BY <1>8, <1>f DEF FindFrame
<1>9. CASE CheckEdit(r)
  BY <1>9, <1>f DEF CheckEdit
<1>10. CASE ResolveExtend(r)
  BY <1>10, <1>f DEF ResolveExtend
<1>11. CASE ResolveExclude(r)
  BY <1>11, <1>f DEF ResolveExclude
<1>12. CASE CreateFrameVersion(r)
  BY <1>12, <1>f DEF CreateFrameVersion
<1>13. CASE CheckDelete(r)
  BY <1>13, <1>f DEF CheckDelete
<1>14. CASE FrameChildren(r)
  BY <1>14, <1>f DEF FrameChildren
<1>15. CASE DeleteFrame(r)
  BY <1>15, <1>f DEF DeleteFrame
<1>16. CASE StoreError(r)
  BY <1>16, <1>f DEF StoreError
<1> QED
  BY <1>1, <1>2, <1>3, <1>4, <1>5, <1>6, <1>7, <1>8, <1>9, <1>10, <1>11, <1>12, <1>13,
     <1>14, <1>15, <1>16 DEF RequestStep

-----------------------------------------------------------------------------
(* Every step leaves well-formed local variables, and each handler with    *)
(* what its next repository call needs.                                    *)

\* The filler value is a call.
LEMMA AnyCallType == AnyCall \in Call
BY RegistryAssumption DEF AnyCall

\* A handler that returns holds nothing.
LEMMA FinishLocals ==
  ASSUME TypeOK, NEW r \in Request, NEW code \in Reply, Finish(r, code)
  PROVE  LocalTypeOK' /\ HandlerOK(r)'
<1>1. LocalTypeOK'
  BY AnyCallType DEF TypeOK, LocalTypeOK, Finish, Goto, Step
<1>2. HandlerOK(r)'
  BY DEF TypeOK, HandlerOK, Finish, Goto, Settled
<1> QED
  BY <1>1, <1>2

\* How the steps of reading leave the handler that takes them.
LEMMA ReadLocals ==
  ASSUME IInv, NEW r \in Request,
         \/ Receive(r) \/ LookUpFrame(r) \/ CheckRead(r) \/ ReadVersion(r) \/ ReadEdges(r)
         \/ ReadExcludes(r) \/ NameParent(r)
  PROVE  LocalTypeOK' /\ HandlerOK(r)'
<1> USE DEF IInv, Continue, Goto
<1>f. ASSUME NEW code \in Reply, Finish(r, code) PROVE LocalTypeOK' /\ HandlerOK(r)'
  BY <1>f, FinishLocals
<1>h. HandlerOK(r)
  BY DEF HandlersOK
<1>1. CASE Receive(r)
  <2>1. ASSUME NEW c \in Call, c.op # "publish" \/ CanPublish(c.caller), Goto(r, FirstStep(c)),
               call' = [call EXCEPT ![r] = c], reply' = [reply EXCEPT ![r] = "none"],
               UNCHANGED <<frame, isNew, row, edges, excludeIDs>>
        PROVE  LocalTypeOK' /\ HandlerOK(r)'
    <3>1. FirstStep(c) \in {"get", "find"} /\ (FirstStep(c) = "find" => c.op = "publish")
      BY DEF FirstStep
    <3>2. LocalTypeOK'
      BY <2>1, <3>1 DEF TypeOK, LocalTypeOK, Step, Reply
    <3>3. HandlerOK(r)'
      BY <1>h, <1>1, <2>1, <3>1 DEF TypeOK, Receive, HandlerOK, Settled
    <3> QED
      BY <3>2, <3>3
  <2> QED
    BY <1>1, <1>f, <2>1 DEF Receive, Reply
<1>2. CASE LookUpFrame(r)
  <2>1. ASSUME NEW org, NEW found, found = GetFrameBySlugName(frames, org, call[r].name), found # {},
               frame' = [frame EXCEPT ![r] = found],
               Continue(r, IF call[r].op = "delete" THEN "can_delete" ELSE "can_read"),
               UNCHANGED <<isNew, row, edges, excludeIDs>>
        PROVE  LocalTypeOK' /\ HandlerOK(r)'
    <3>1. found \in SUBSET FrameRow /\ \A f, g \in found : f = g
      BY <2>1, LookupIsUnique
    <3>2. LocalTypeOK'
      BY <2>1, <3>1 DEF TypeOK, LocalTypeOK, Step
    <3>3. HandlerOK(r)'
      BY <1>h, <1>2, <2>1 DEF TypeOK, LookUpFrame, HandlerOK, Settled
    <3> QED
      BY <3>2, <3>3
  <2> QED
    BY <1>2, <1>f, <2>1 DEF LookUpFrame, Reply
<1>3. CASE CheckRead(r)
  <2>1. ASSUME Continue(r, "version"), UNCHANGED <<frame, isNew, row, edges, excludeIDs>>
        PROVE  LocalTypeOK' /\ HandlerOK(r)'
    BY <1>h, <1>3, <2>1 DEF TypeOK, LocalTypeOK, Step, CheckRead, HandlerOK, Settled
  <2> QED
    BY <1>3, <1>f, <2>1 DEF CheckRead, Reply
<1>4. CASE ReadVersion(r)
  <2>1. ASSUME NEW found, found = {v \in VersionsOf(versions, Frame(r).id) : v.version = Wanted(r)},
               found # {}, row' = [row EXCEPT ![r] = found], Continue(r, "edges"),
               UNCHANGED <<frame, isNew, edges, excludeIDs>>
        PROVE  LocalTypeOK' /\ HandlerOK(r)'
    <3>1. found \in SUBSET VersionRow /\ \A v, w \in found : v = w
      BY <2>1 DEF TypeOK, ReferencesResolve, VersionsOf
    <3>2. LocalTypeOK'
      BY <2>1, <3>1 DEF TypeOK, LocalTypeOK, Step
    <3>3. HandlerOK(r)'
      BY <1>h, <1>4, <2>1 DEF TypeOK, ReadVersion, HandlerOK, Settled
    <3> QED
      BY <3>2, <3>3
  <2> QED
    BY <1>4, <1>f, <2>1 DEF ReadVersion, Reply
<1>5. CASE ReadEdges(r)
  <2>1. EdgesOf(frame_extends, Row(r).frame, Row(r).version) \in SUBSET ParentEdge
    BY DEF TypeOK, EdgesOf, EdgeRow
  <2>2. LocalTypeOK'
    BY <1>5, <2>1 DEF TypeOK, LocalTypeOK, Step, ReadEdges
  <2>3. HandlerOK(r)'
    BY <1>h, <1>5 DEF TypeOK, ReadEdges, HandlerOK, Settled
  <2> QED
    BY <2>2, <2>3
<1>6. CASE ReadExcludes(r)
  <2>1. ASSUME call[r].op = "get", Continue(r, "parents"),
               UNCHANGED <<frame, isNew, row, edges, excludeIDs>>
        PROVE  LocalTypeOK' /\ HandlerOK(r)'
    BY <1>h, <1>6, <2>1 DEF TypeOK, LocalTypeOK, Step, ReadExcludes, HandlerOK, Settled
  <2>2. ASSUME call[r].op = "update", Continue(r, "find"), frame' = [frame EXCEPT ![r] = {}],
               edges' = [edges EXCEPT ![r] = {}], UNCHANGED <<isNew, row, excludeIDs>>
        PROVE  LocalTypeOK' /\ HandlerOK(r)'
    <3>1. LocalTypeOK'
      BY <2>2 DEF TypeOK, LocalTypeOK, Step
    <3>2. HandlerOK(r)'
      BY <1>h, <1>6, <2>2 DEF TypeOK, ReadExcludes, HandlerOK, Settled
    <3> QED
      BY <3>1, <3>2
  <2> QED
    BY <1>6, <1>f, <2>1, <2>2 DEF ReadExcludes, Reply
<1>7. CASE NameParent(r)
  <2>1. ASSUME NEW e \in edges[r], edges' = [edges EXCEPT ![r] = @ \ {e}], Continue(r, "parents"),
               UNCHANGED <<frame, isNew, row, excludeIDs>>
        PROVE  LocalTypeOK' /\ HandlerOK(r)'
    <3>1. LocalTypeOK'
      BY <2>1 DEF TypeOK, LocalTypeOK, Step
    <3>2. HandlerOK(r)'
      BY <1>h, <1>7, <2>1 DEF TypeOK, NameParent, HandlerOK, Settled
    <3> QED
      BY <3>1, <3>2
  <2> QED
    BY <1>7, <1>f, <2>1 DEF NameParent, Reply
<1> QED
  BY <1>1, <1>2, <1>3, <1>4, <1>5, <1>6, <1>7

\* publish resolves parents while there are some.
LEMMA ResolvingStep ==
  ASSUME NEW r \in Request, NEW i, NEW j
  PROVE  /\ Resolving(r, i, j) \in Settled
         /\ Resolving(r, i, j) = "extend" => i < Len(Document(r).extends)
BY DEF Resolving, Settled

\* The document is what it was as long as the call and the version read are.
LEMMA SameDocument ==
  ASSUME NEW r \in Request, call'[r] = call[r], row'[r] = row[r]
  PROVE  Document(r)' = Document(r)
BY DEF Document, Row

\* No row of frames and no handler has this id.
Unheld(id) ==
  /\ id \notin Ids(frames)
  /\ \A q \in Request : /\ \A g \in frame[q] : g.id # id
                        /\ \A v \in row[q] : v.frame # id
                        /\ \A e \in edges[q] : e.parent # id

\* A new id is nobody's.
LEMMA FreshIdIsFresh ==
  ASSUME FreshIds # {}, NEW id, id = CHOOSE i \in FreshIds : TRUE
  PROVE  id \in FrameId /\ Unheld(id)
<1>1. id \in FreshIds
  OBVIOUS
<1>2. id \in FrameId /\ id \notin Mentioned(frames, frame_excludes) /\ id \notin HeldIds
  BY <1>1 DEF FreshIds
<1>3. id \notin Ids(frames)
  BY <1>2 DEF Mentioned
<1>4. ASSUME NEW q \in Request
      PROVE  /\ \A g \in frame[q] : g.id # id
             /\ \A v \in row[q] : v.frame # id
             /\ \A e \in edges[q] : e.parent # id
  <2>1. \A i \in {f.id : f \in frame[q]} \cup {v.frame : v \in row[q]}
                 \cup {e.parent : e \in edges[q]}
                 \cup {excludeIDs[q][i] : i \in DOMAIN excludeIDs[q]} : i # id
    BY <1>2 DEF HeldIds
  <2> QED
    BY <2>1
<1> QED
  BY <1>2, <1>3, <1>4 DEF Unheld

\* How the steps of publish and delete leave the handler that takes them.
LEMMA WriteLocals ==
  ASSUME IInv, NEW r \in Request,
         \/ FindFrame(r) \/ CheckEdit(r) \/ ResolveExtend(r) \/ ResolveExclude(r)
         \/ CreateFrameVersion(r) \/ CheckDelete(r) \/ FrameChildren(r) \/ DeleteFrame(r)
         \/ StoreError(r)
  PROVE  LocalTypeOK' /\ HandlerOK(r)'
<1> USE DEF IInv, Continue, Goto
<1>f. ASSUME NEW code \in Reply, Finish(r, code) PROVE LocalTypeOK' /\ HandlerOK(r)'
  BY <1>f, FinishLocals
<1>h. HandlerOK(r) /\ call[r] \in Call
  BY DEF HandlersOK, TypeOK
<1>n. Settled \subseteq Step
  BY DEF Settled, Step
<1>1. CASE FindFrame(r)
  <2> DEFINE c == call[r]
             found == GetFrameBySlugName(frames, Me(r).org, c.name)
             id == CHOOSE i \in FreshIds : TRUE
             new == [id |-> id, org |-> Me(r).org, name |-> c.name, owner |-> Me(r).sub,
                     latest |-> c.version]
             next == Resolving(r, 0, 0)
  <2>0. c.op \in {"publish", "update"} /\ edges[r] = {} /\ (c.op = "update" => row[r] # {})
    BY <1>1, <1>h DEF FindFrame, HandlerOK
  <2>1. ASSUME FreshIds # {}, frame' = [frame EXCEPT ![r] = {new}],
               isNew' = [isNew EXCEPT ![r] = TRUE], Continue(r, next),
               UNCHANGED <<row, edges, excludeIDs>>
        PROVE  LocalTypeOK' /\ HandlerOK(r)'
    <3>1. new \in FrameRow /\ new.latest = c.version
      <4>1. id \in FrameId
        BY <2>1, FreshIdIsFresh
      <4>2. Me(r).org \in Org /\ Me(r).sub \in Sub /\ c.name \in Name /\ c.version \in Version
        BY <1>h, <2>0, CallFields DEF Me
      <4> QED
        BY <4>1, <4>2 DEF FrameRow
    <3>2. next \in Settled /\ (next = "extend" => 0 < Len(Document(r).extends))
      BY ResolvingStep
    <3> HIDE DEF next, new, id, found
    <3>3. LocalTypeOK'
      BY <2>1, <3>1, <3>2, <1>n DEF TypeOK, LocalTypeOK
    <3>4. Document(r)' = Document(r) /\ pc'[r] = next /\ frame'[r] = {new}
      BY <2>1, SameDocument DEF TypeOK
    <3>5. HandlerOK(r)'
      BY <2>0, <2>1, <3>1, <3>2, <3>4, FS_EmptySet DEF HandlerOK, Settled, TypeOK
    <3> QED
      BY <3>3, <3>5
  <2>2. ASSUME found # {}, frame' = [frame EXCEPT ![r] = found], Continue(r, "can_edit"),
               UNCHANGED <<isNew, row, edges, excludeIDs>>
        PROVE  LocalTypeOK' /\ HandlerOK(r)'
    <3>1. found \in SUBSET FrameRow /\ \A f, g \in found : f = g
      BY LookupIsUnique
    <3> HIDE DEF found
    <3>2. LocalTypeOK'
      BY <2>2, <3>1 DEF TypeOK, LocalTypeOK, Step
    <3>3. HandlerOK(r)'
      BY <1>h, <1>1, <2>0, <2>2 DEF TypeOK, FindFrame, HandlerOK, Settled
    <3> QED
      BY <3>2, <3>3
  <2> QED
    BY <1>1, <1>f, <2>1, <2>2 DEF FindFrame, Reply
<1>2. CASE CheckEdit(r)
  <2> DEFINE f == Frame(r)
             g == [f EXCEPT !.latest = call[r].version]
             next == Resolving(r, 0, 0)
  <2>0. /\ call[r].op \in {"publish", "update"} /\ edges[r] = {} /\ frame[r] # {}
        /\ call[r].op = "update" => row[r] # {}
    BY <1>2, <1>h DEF CheckEdit, HandlerOK
  <2>1. ASSUME frame' = [frame EXCEPT ![r] = {g}], Continue(r, next),
               UNCHANGED <<isNew, row, edges, excludeIDs>>
        PROVE  LocalTypeOK' /\ HandlerOK(r)'
    <3>1. g \in FrameRow /\ g.latest = call[r].version
      BY <1>h, <2>0, FrameHeld, CallFields DEF FrameRow
    <3>2. next \in Settled /\ (next = "extend" => 0 < Len(Document(r).extends))
      BY ResolvingStep
    <3> HIDE DEF next, g
    <3>3. LocalTypeOK'
      BY <2>1, <3>1, <3>2, <1>n DEF TypeOK, LocalTypeOK
    <3>4. Document(r)' = Document(r) /\ pc'[r] = next /\ frame'[r] = {g}
      BY <2>1, SameDocument DEF TypeOK
    <3>5. HandlerOK(r)'
      BY <2>0, <2>1, <3>1, <3>2, <3>4, FS_EmptySet DEF HandlerOK, Settled, TypeOK
    <3> QED
      BY <3>3, <3>5
  <2> QED
    BY <1>2, <1>f, <2>1 DEF CheckEdit, Reply
<1>3. CASE ResolveExtend(r)
  <2> DEFINE i == Cardinality(edges[r])
             ref == Document(r).extends[i + 1]
             next == Resolving(r, i + 1, 0)
  <2>0. /\ IsFiniteSet(edges[r]) /\ i < Len(Document(r).extends) /\ frame[r] # {}
        /\ call[r].op \in {"publish", "update"} /\ (call[r].op = "update" => row[r] # {})
        /\ \A f \in frame[r] : f.latest = call[r].version
    BY <1>3, <1>h DEF ResolveExtend, HandlerOK, Settled
  <2>1. ASSUME NEW f \in frames, NEW e, e = [parent |-> f.id, pinned |-> ref.version, index |-> i],
               edges' = [edges EXCEPT ![r] = @ \cup {e}], Continue(r, next),
               UNCHANGED <<frame, isNew, row, excludeIDs>>
        PROVE  LocalTypeOK' /\ HandlerOK(r)'
    <3>0. i \in Nat
      BY <2>0, FS_CardinalityType
    <3>1. ref \in ExtendRef
      BY <2>0, <3>0, DocumentType
    <3>2. e \in ParentEdge
      BY <2>1, <3>0, <3>1 DEF TypeOK, FrameRow, ExtendRef, ParentEdge
    <3>3. next \in Settled /\ (next = "extend" => i + 1 < Len(Document(r).extends))
      BY ResolvingStep
    <3>4. /\ IsFiniteSet(edges[r] \cup {e}) /\ Cardinality(edges[r] \cup {e}) \in Nat
          /\ Cardinality(edges[r] \cup {e}) <= i + 1
      <4>1. IsFiniteSet(edges[r] \cup {e})
        BY <2>0, FS_AddElement
      <4>2. Cardinality(edges[r] \cup {e}) = IF e \in edges[r] THEN i ELSE i + 1
        BY <2>0, FS_AddElement
      <4> QED
        BY <3>0, <4>1, <4>2
    <3>5. Document(r)' = Document(r)
      BY <2>1, SameDocument
    <3>6. Len(Document(r).extends) \in Nat
      BY <2>0, DocumentType
    <3> HIDE DEF next, i
    <3>7. LocalTypeOK'
      BY <2>1, <3>2, <3>3, <1>n DEF TypeOK, LocalTypeOK
    <3>8. pc'[r] = next /\ edges'[r] = edges[r] \cup {e}
      BY <2>1 DEF TypeOK
    <3>9. HandlerOK(r)'
      BY <2>0, <2>1, <3>0, <3>3, <3>4, <3>5, <3>6, <3>8 DEF HandlerOK, Settled, TypeOK
    <3> QED
      BY <3>7, <3>9
  <2>2. ASSUME NEW f \in Readable(r, OrgOf(ref, Me(r)), ref.name) PROVE f \in frames
    BY <2>2 DEF Readable, GetFrameBySlugName
  <2> QED
    BY <1>3, <1>f, <2>1, <2>2 DEF ResolveExtend, Reply
<1>4. CASE ResolveExclude(r)
  <2> DEFINE next == Resolving(r, Len(Document(r).extends), Len(excludeIDs[r]) + 1)
  <2>0. /\ frame[r] # {}
        /\ call[r].op \in {"publish", "update"} /\ (call[r].op = "update" => row[r] # {})
        /\ \A f \in frame[r] : f.latest = call[r].version
    BY <1>4, <1>h DEF ResolveExclude, HandlerOK, Settled
  <2>1. ASSUME NEW f \in frames, excludeIDs' = [excludeIDs EXCEPT ![r] = Append(@, f.id)],
               Continue(r, next), UNCHANGED <<frame, isNew, row, edges>>
        PROVE  LocalTypeOK' /\ HandlerOK(r)'
    <3>1. Len(Document(r).extends) \in Nat
      BY <2>0, DocumentType
    <3>2. next \in Settled /\ next # "extend"
      BY <3>1, ResolvingStep
    <3> HIDE DEF next
    <3>3. LocalTypeOK'
      BY <2>1, <3>2, <1>n DEF TypeOK, LocalTypeOK, FrameRow
    <3>4. HandlerOK(r)'
      BY <2>0, <2>1, <3>2 DEF HandlerOK, Settled, TypeOK
    <3> QED
      BY <3>3, <3>4
  <2>2. ASSUME NEW org, NEW name, NEW f \in Readable(r, org, name) PROVE f \in frames
    BY <2>2 DEF Readable, GetFrameBySlugName
  <2> QED
    BY <1>4, <1>f, <2>1, <2>2 DEF ResolveExclude, Reply
<1>5. CASE CreateFrameVersion(r)
  BY <1>5, <1>f DEF CreateFrameVersion, Reply
<1>6. CASE CheckDelete(r)
  <2>1. ASSUME Continue(r, "children"), UNCHANGED <<frame, isNew, row, edges, excludeIDs>>
        PROVE  LocalTypeOK' /\ HandlerOK(r)'
    BY <1>h, <1>6, <2>1 DEF TypeOK, LocalTypeOK, Step, CheckDelete, HandlerOK, Settled
  <2> QED
    BY <1>6, <1>f, <2>1 DEF CheckDelete, Reply
<1>7. CASE FrameChildren(r)
  <2>1. ASSUME Continue(r, "delete"), UNCHANGED <<frame, isNew, row, edges, excludeIDs>>
        PROVE  LocalTypeOK' /\ HandlerOK(r)'
    BY <1>h, <1>7, <2>1 DEF TypeOK, LocalTypeOK, Step, FrameChildren, HandlerOK, Settled
  <2> QED
    BY <1>7, <1>f, <2>1 DEF FrameChildren, Reply
<1>8. CASE DeleteFrame(r)
  BY <1>8, <1>f DEF DeleteFrame, Reply
<1>9. CASE StoreError(r)
  BY <1>9, <1>f DEF StoreError, Reply
<1> QED
  BY <1>1, <1>2, <1>3, <1>4, <1>5, <1>6, <1>7, <1>8, <1>9

\* Every step leaves well-formed local variables and every handler with what
\* its next call needs.
LEMMA LocalsPreserved ==
  ASSUME IInv, NEW r \in Request, RequestStep(r)
  PROVE  LocalTypeOK' /\ HandlersOK'
<1>1. LocalTypeOK' /\ HandlerOK(r)'
  BY ReadLocals, WriteLocals DEF RequestStep
<1>2. ASSUME NEW q \in Request, q # r PROVE HandlerOK(q)'
  <2>1. Unmoved(q)
    BY <1>2, OthersUnmoved DEF IInv
  <2>2. HandlerOK(q)
    BY DEF IInv, HandlersOK
  <2>3. Document(q)' = Document(q)
    BY <2>1, SameDocument DEF Unmoved
  <2> QED
    BY <2>1, <2>2, <2>3 DEF Unmoved, HandlerOK
<1> QED
  BY <1>1, <1>2 DEF HandlersOK

-----------------------------------------------------------------------------
(* The tables.                                                             *)

TableTypeOK ==
  /\ frames \subseteq FrameRow /\ versions \subseteq VersionRow
  /\ frame_extends \subseteq EdgeRow /\ frame_excludes \subseteq ExcludeRow

\* The transaction of CreateFrameVersion gets as far as its COMMIT.
Committed(r) ==
  LET f == Frame(r) IN
  /\ pc[r] = "write"
  /\ IF isNew[r] THEN ~NameTaken(frames, f) ELSE ~VersionTaken(versions, f.id, call[r].version)
  /\ isNew[r] \/ ~FrameGone(frames, f.id)
  /\ ~BadEdges(frames, edges[r]) /\ ~BadExcludes(excludeIDs[r])
  /\ Written(r)

\* The version row a publish stores.
NewVersion(r) ==
  [frame |-> Frame(r).id, version |-> call[r].version, by |-> Me(r).sub,
   extends |-> Document(r).extends, excludes |-> Document(r).excludes]

\* A publish leaves the tables as they were or commits.
LEMMA CreateCommits ==
  ASSUME NEW r \in Request, CreateFrameVersion(r)
  PROVE  UNCHANGED tables \/ Committed(r)
BY DEF CreateFrameVersion, Committed, RolledBack

\* What the publish that commits has in hand.
LEMMA CommittedHolds ==
  ASSUME IInv, NEW r \in Request, pc[r] = "write"
  PROVE  /\ Frame(r) \in FrameRow /\ frame[r] = {Frame(r)}
         /\ Frame(r).latest = call[r].version
         /\ NewVersion(r) \in VersionRow
         /\ edges[r] \in SUBSET ParentEdge
         /\ isNew[r] => Frame(r).id \notin Ids(frames)
<1>1. HandlerOK(r) /\ call[r] \in Call /\ TypeOK
  BY DEF IInv, HandlersOK, TypeOK
<1>2. frame[r] # {} /\ \A f \in frame[r] : f.latest = call[r].version
  BY <1>1 DEF HandlerOK, Settled
<1>3. Frame(r) \in FrameRow /\ frame[r] = {Frame(r)}
  BY <1>1, <1>2, FrameHeld
<1>4. call[r].op \in {"publish", "update"} /\ (call[r].op = "update" => row[r] # {})
  BY <1>1 DEF HandlerOK, Settled
<1>5. NewVersion(r) \in VersionRow
  <2>1. Document(r).extends \in Seq(ExtendRef) /\ Document(r).excludes \in Seq(ExcludeRef)
    BY <1>1, <1>4, DocumentType
  <2>2. Me(r).sub \in Sub /\ call[r].version \in Version
    BY <1>1, <1>4, CallFields DEF Me
  <2>3. Frame(r).id \in FrameId
    BY <1>3 DEF FrameRow
  <2> QED
    BY <2>1, <2>2, <2>3 DEF NewVersion, VersionRow
<1>6. isNew[r] => Frame(r).id \notin Ids(frames)
  BY <1>3 DEF IInv, NewIdsAreNew
<1>7. edges[r] \in SUBSET ParentEdge
  BY <1>1 DEF TypeOK
<1> QED
  BY <1>2, <1>3, <1>5, <1>6, <1>7

\* The rows of frames after a commit: the frame as the handler holds it, in
\* place of the row it had, and nobody else's id or name.
LEMMA SavedFrames ==
  ASSUME IInv, NEW r \in Request, Committed(r)
  PROVE  /\ frames' \in SUBSET FrameRow
         /\ Frame(r) \in frames'
         /\ \A g \in frames' : g = Frame(r) \/ (g \in frames /\ g.id # Frame(r).id)
         /\ \A g \in frames : g \in frames' \/ g.id = Frame(r).id
         /\ \A g \in frames : g.id # Frame(r).id =>
              ~(g.org = Frame(r).org /\ g.name = Frame(r).name)
<1> DEFINE f == Frame(r)
<1>1. f \in FrameRow /\ frame[r] = {f} /\ (isNew[r] => f.id \notin Ids(frames))
  BY CommittedHolds DEF Committed
<1>2. frames' = IF isNew[r] THEN frames \cup {f} ELSE {IF g.id = f.id THEN f ELSE g : g \in frames}
  BY <1>1 DEF Committed, Written, Saved
<1>3. frames \in SUBSET FrameRow
  BY DEF IInv, TypeOK
<1>4. CASE isNew[r]
  <2>1. ~NameTaken(frames, f)
    BY <1>4 DEF Committed
  <2>2. \A g \in frames : ~(g.org = f.org /\ g.name = f.name)
    BY <2>1 DEF NameTaken, GetFrameBySlugName
  <2>3. \A g \in frames : g.id # f.id
    BY <1>1, <1>4 DEF Ids
  <2> HIDE DEF f
  <2>4. frames' = frames \cup {f}
    BY <1>2, <1>4
  <2> QED
    BY <1>1, <1>3, <2>2, <2>3, <2>4 DEF f
<1>5. CASE ~isNew[r]
  <2>1. PICK g0 \in frames : g0.id = f.id
    BY <1>5 DEF Committed, FrameGone, Ids
  <2>2. g0.org = f.org /\ g0.name = f.name
    BY <1>1, <2>1 DEF IInv, HeldFramesAgree, SameFrame
  <2>3. \A g \in frames : g.id # f.id => ~(g.org = f.org /\ g.name = f.name)
    BY <2>1, <2>2 DEF IInv, ReferencesResolve
  <2> HIDE DEF f
  <2>4. frames' = {IF g.id = f.id THEN f ELSE g : g \in frames}
    BY <1>2, <1>5
  <2> QED
    BY <1>1, <1>3, <2>1, <2>3, <2>4 DEF f
<1> QED
  BY <1>4, <1>5

\* A commit keeps the references whole.
LEMMA CommitKeepsReferences ==
  ASSUME IInv, NEW r \in Request, Committed(r)
  PROVE  TableTypeOK' /\ ReferencesResolve'
<1> DEFINE f == Frame(r)
           n == NewVersion(r)
<1>1. /\ f \in FrameRow /\ f.latest = call[r].version /\ n \in VersionRow
      /\ edges[r] \in SUBSET ParentEdge /\ (isNew[r] => f.id \notin Ids(frames))
  BY CommittedHolds DEF Committed
<1>2. n.frame = f.id /\ n.version = call[r].version
  BY DEF NewVersion
<1>3. versions' = versions \cup {n}
  BY DEF Committed, Written, NewVersion
<1>4. /\ frame_extends' = frame_extends \cup EdgeRows(f.id, call[r].version, edges[r])
      /\ frame_excludes' = frame_excludes \cup ExcludeRows(f.id, call[r].version, excludeIDs[r])
  BY DEF Committed, Written
<1>5. /\ frames' \in SUBSET FrameRow
      /\ f \in frames'
      /\ \A g \in frames' : g = f \/ (g \in frames /\ g.id # f.id)
      /\ \A g \in frames : g \in frames' \/ g.id = f.id
      /\ \A g \in frames : g.id # f.id => ~(g.org = f.org /\ g.name = f.name)
  BY SavedFrames
<1>6. TypeOK /\ ReferencesResolve
  BY DEF IInv
<1>7. Ids(frames) \subseteq Ids(frames') /\ f.id \in Ids(frames')
  BY <1>5 DEF Ids
<1>8. call[r].version \in Version /\ f.id \in FrameId /\ excludeIDs[r] \in Seq(FrameId)
  BY <1>1, <1>6 DEF FrameRow, TypeOK
<1>9. TableTypeOK'
  <2>1. EdgeRows(f.id, call[r].version, edges[r]) \subseteq EdgeRow
    BY <1>1, <1>8 DEF EdgeRows, EdgeRow
  <2>2. ExcludeRows(f.id, call[r].version, excludeIDs[r]) \subseteq ExcludeRow
    BY <1>8 DEF ExcludeRows, ExcludeRow
  <2> QED
    BY <1>1, <1>3, <1>4, <1>5, <1>6, <2>1, <2>2 DEF TypeOK, TableTypeOK
<1>10. \A v \in versions : v.frame = f.id => v.version # call[r].version
  <2>1. CASE isNew[r]
    BY <1>1, <1>6, <2>1 DEF ReferencesResolve
  <2>2. CASE ~isNew[r]
    BY <2>2 DEF Committed, VersionTaken, VersionsOf
  <2> QED
    BY <2>1, <2>2
<1>11. \A e \in EdgeRows(f.id, call[r].version, edges[r]) :
         e.frame = f.id /\ e.version = call[r].version /\ e.edge.parent \in Ids(frames)
  <2>1. \A e \in edges[r] : e.parent \in Ids(frames)
    BY DEF Committed, BadEdges, FrameGone
  <2> QED
    BY <2>1 DEF EdgeRows
<1> HIDE DEF f, n
<1>12. \A g, h \in frames' : g.id = h.id \/ (g.org = h.org /\ g.name = h.name) => g = h
  BY <1>5, <1>6 DEF ReferencesResolve
<1>13. \A g \in frames' : \E v \in VersionsOf(versions', g.id) : v.version = g.latest
  BY <1>1, <1>2, <1>3, <1>5, <1>6 DEF ReferencesResolve, VersionsOf
<1>14. \A v \in versions' : v.frame \in Ids(frames')
  BY <1>2, <1>3, <1>6, <1>7 DEF ReferencesResolve
<1>15. \A v, w \in versions' : v.frame = w.frame /\ v.version = w.version => v = w
  BY <1>2, <1>3, <1>6, <1>10 DEF ReferencesResolve
<1>16. \A e \in frame_extends' :
         /\ \E v \in VersionsOf(versions', e.frame) : v.version = e.version
         /\ e.edge.parent \in Ids(frames')
  BY <1>2, <1>3, <1>4, <1>6, <1>7, <1>11 DEF ReferencesResolve, VersionsOf
<1> QED
  BY <1>9, <1>12, <1>13, <1>14, <1>15, <1>16 DEF ReferencesResolve, VersionsOf, Ids

\* A delete takes the frame with everything that refers to it.
LEMMA DeleteKeepsReferences ==
  ASSUME IInv, NEW r \in Request, DeleteFrame(r)
  PROVE  TableTypeOK' /\ ReferencesResolve'
<1> DEFINE id == Frame(r).id
<1>1. CASE UNCHANGED tables
  BY <1>1 DEF tables, IInv, TypeOK, TableTypeOK, ReferencesResolve, VersionsOf, Ids
<1>2. CASE /\ frames' = {f \in frames : f.id # id}
           /\ versions' = {v \in versions : v.frame \notin Cascade(id)}
           /\ frame_extends' = {e \in frame_extends : e.frame # id /\ e.edge.parent # id}
           /\ frame_excludes' = {x \in frame_excludes : x.frame # id}
  <2> HIDE DEF id
  <2>1. versions' = {v \in versions : v.frame # id}
    BY <1>2 DEF Cascade
  <2>2. TableTypeOK'
    BY <1>2, <2>1 DEF IInv, TypeOK, TableTypeOK
  <2>3. \A i : i \in Ids(frames') <=> i \in Ids(frames) /\ i # id
    BY <1>2 DEF Ids
  <2>4. \A i : i # id => VersionsOf(versions', i) = VersionsOf(versions, i)
    BY <2>1 DEF VersionsOf
  <2>5. ReferencesResolve
    BY DEF IInv
  <2>6. /\ \A f, g \in frames' : f.id = g.id \/ (f.org = g.org /\ f.name = g.name) => f = g
        /\ \A f \in frames' : \E v \in VersionsOf(versions', f.id) : v.version = f.latest
        /\ \A v \in versions' : v.frame \in Ids(frames')
        /\ \A v, w \in versions' : v.frame = w.frame /\ v.version = w.version => v = w
    BY <1>2, <2>1, <2>3, <2>4, <2>5 DEF ReferencesResolve
  <2>7. \A e \in frame_extends' :
          /\ \E v \in VersionsOf(versions', e.frame) : v.version = e.version
          /\ e.edge.parent \in Ids(frames')
    BY <1>2, <2>3, <2>4, <2>5 DEF ReferencesResolve
  <2> QED
    BY <2>2, <2>6, <2>7 DEF ReferencesResolve, VersionsOf, Ids
<1> QED
  BY <1>1, <1>2 DEF DeleteFrame

\* Only the two transactions change the tables.
LEMMA OnlyTransactionsWrite ==
  ASSUME NEW r \in Request, RequestStep(r)
  PROVE  UNCHANGED tables \/ Committed(r) \/ DeleteFrame(r)
BY CreateCommits DEF RequestStep, Receive, LookUpFrame, CheckRead, ReadVersion, ReadEdges,
   ReadExcludes, NameParent, FindFrame, CheckEdit, ResolveExtend, ResolveExclude,
   CheckDelete, FrameChildren, StoreError

\* Every step keeps the references whole.
LEMMA TablesPreserved ==
  ASSUME IInv, NEW r \in Request, RequestStep(r)
  PROVE  TableTypeOK' /\ ReferencesResolve'
<1>1. CASE UNCHANGED tables
  BY <1>1 DEF tables, IInv, TypeOK, TableTypeOK, ReferencesResolve, VersionsOf, Ids
<1> QED
  BY <1>1, OnlyTransactionsWrite, CommitKeepsReferences, DeleteKeepsReferences

-----------------------------------------------------------------------------
(* Ids.                                                                    *)

\* Where what a handler holds after its step comes from: it held it before, or
\* has just read it from tables that the step leaves alone, or made up its id.
HeldComesFrom(r) ==
  /\ \A f \in frame'[r] :
       \/ \E h \in frame[r] : f.id = h.id /\ SameFrame(f, h)
       \/ f \in frames /\ UNCHANGED tables
       \/ Unheld(f.id) /\ UNCHANGED tables
  /\ isNew'[r] => /\ UNCHANGED tables
                  /\ \A f \in frame'[r] : f \in frame[r] \/ Unheld(f.id)
                  /\ isNew[r] \/ \A f \in frame'[r] : Unheld(f.id)
  /\ \A v \in row'[r] : v \in row[r] \/ (v \in versions /\ UNCHANGED tables)
  /\ \A e \in edges'[r] : e \in edges[r] \/ (e.parent \in Ids(frames) /\ UNCHANGED tables)

\* A handler whose frame, version and parents are as before, or gone.
LEMMA HeldKept ==
  ASSUME TypeOK, NEW r \in Request,
         \/ \E code : Finish(r, code)
         \/ UNCHANGED <<frame, isNew, row>> /\ edges'[r] \subseteq edges[r] /\ UNCHANGED tables
  PROVE  HeldComesFrom(r)
<1>1. CASE \E code : Finish(r, code)
  <2>1. frame'[r] = {} /\ isNew'[r] = FALSE /\ row'[r] = {} /\ edges'[r] = {}
    BY <1>1 DEF Finish, TypeOK
  <2> QED
    BY <2>1 DEF HeldComesFrom
<1>2. CASE UNCHANGED <<frame, isNew, row>> /\ edges'[r] \subseteq edges[r] /\ UNCHANGED tables
  BY <1>2 DEF HeldComesFrom, SameFrame
<1> QED
  BY <1>1, <1>2

\* Every step takes what it holds from somewhere.
LEMMA HeldSources ==
  ASSUME IInv, NEW r \in Request, RequestStep(r)
  PROVE  HeldComesFrom(r)
<1>t. TypeOK /\ HandlerOK(r) /\ ReferencesResolve
  BY DEF IInv, HandlersOK
<1>1. CASE Receive(r)
  BY <1>1, <1>t, HeldKept DEF Receive
<1>2. CASE LookUpFrame(r)
  <2>1. ASSUME NEW org, frame' = [frame EXCEPT ![r] = GetFrameBySlugName(frames, org, call[r].name)],
               UNCHANGED <<isNew, row, edges, excludeIDs>>, UNCHANGED tables
        PROVE  HeldComesFrom(r)
    <3>1. frame'[r] \subseteq frames
      BY <1>t, <2>1, LookupIsUnique DEF TypeOK
    <3>2. ~isNew[r]
      BY <1>t, <1>2 DEF HandlerOK, LookUpFrame, Settled
    <3> QED
      BY <2>1, <3>1, <3>2 DEF HeldComesFrom
  <2> QED
    BY <1>2, <1>t, <2>1, HeldKept DEF LookUpFrame
<1>3. CASE CheckRead(r)
  BY <1>3, <1>t, HeldKept DEF CheckRead
<1>4. CASE ReadVersion(r)
  <2>1. ASSUME NEW found, found \subseteq versions, row' = [row EXCEPT ![r] = found],
               UNCHANGED <<frame, isNew, edges, excludeIDs>>, UNCHANGED tables
        PROVE  HeldComesFrom(r)
    BY <1>t, <2>1 DEF HeldComesFrom, SameFrame, TypeOK
  <2> QED
    BY <1>4, <1>t, <2>1, HeldKept DEF ReadVersion, VersionsOf
<1>5. CASE ReadEdges(r)
  <2>1. \A e \in edges'[r] : e.parent \in Ids(frames)
    BY <1>5, <1>t DEF ReadEdges, EdgesOf, ReferencesResolve, TypeOK
  <2>2. UNCHANGED <<frame, isNew, row>> /\ UNCHANGED tables
    BY <1>5 DEF ReadEdges, tables
  <2>3. ~isNew[r]
    BY <1>t, <1>5 DEF HandlerOK, ReadEdges, Settled
  <2> QED
    BY <2>1, <2>2, <2>3 DEF HeldComesFrom, SameFrame
<1>6. CASE ReadExcludes(r)
  <2>1. ASSUME frame' = [frame EXCEPT ![r] = {}], edges' = [edges EXCEPT ![r] = {}],
               UNCHANGED <<isNew, row, excludeIDs>>, UNCHANGED tables
        PROVE  HeldComesFrom(r)
    <3>1. frame'[r] = {} /\ edges'[r] = {}
      BY <1>t, <2>1 DEF TypeOK
    <3>2. ~isNew[r]
      BY <1>t, <1>6 DEF HandlerOK, ReadExcludes, Settled
    <3> QED
      BY <2>1, <3>1, <3>2 DEF HeldComesFrom
  <2> QED
    BY <1>6, <1>t, <2>1, HeldKept DEF ReadExcludes
<1>7. CASE NameParent(r)
  <2>1. ASSUME NEW e, edges' = [edges EXCEPT ![r] = @ \ {e}],
               UNCHANGED <<frame, isNew, row, excludeIDs>>, UNCHANGED tables
        PROVE  HeldComesFrom(r)
    BY <1>t, <2>1, HeldKept DEF TypeOK
  <2> QED
    BY <1>7, <1>t, <2>1, HeldKept DEF NameParent
<1>8. CASE FindFrame(r)
  <2> DEFINE id == CHOOSE i \in FreshIds : TRUE
             new == [id |-> id, org |-> Me(r).org, name |-> call[r].name, owner |-> Me(r).sub,
                     latest |-> call[r].version]
  <2>1. ASSUME FreshIds # {}, frame' = [frame EXCEPT ![r] = {new}],
               isNew' = [isNew EXCEPT ![r] = TRUE],
               UNCHANGED <<row, edges, excludeIDs>>, UNCHANGED tables
        PROVE  HeldComesFrom(r)
    <3>1. Unheld(id)
      BY <2>1, FreshIdIsFresh
    <3>2. frame'[r] = {new}
      BY <1>t, <2>1 DEF TypeOK
    <3>3. new.id = id
      OBVIOUS
    <3> HIDE DEF new, id
    <3> QED
      BY <2>1, <3>1, <3>2, <3>3 DEF HeldComesFrom
  <2>2. ASSUME NEW org, frame' = [frame EXCEPT ![r] = GetFrameBySlugName(frames, org, call[r].name)],
               UNCHANGED <<isNew, row, edges, excludeIDs>>, UNCHANGED tables
        PROVE  HeldComesFrom(r)
    <3>1. frame'[r] \subseteq frames
      BY <1>t, <2>2, LookupIsUnique DEF TypeOK
    <3>2. ~isNew[r]
      BY <1>t, <1>8 DEF HandlerOK, FindFrame, Settled
    <3> QED
      BY <2>2, <3>1, <3>2 DEF HeldComesFrom
  <2> QED
    BY <1>8, <1>t, <2>1, <2>2, HeldKept DEF FindFrame
<1>9. CASE CheckEdit(r)
  <2> DEFINE g == [Frame(r) EXCEPT !.latest = call[r].version]
  <2>1. ASSUME frame' = [frame EXCEPT ![r] = {g}],
               UNCHANGED <<isNew, row, edges, excludeIDs>>, UNCHANGED tables
        PROVE  HeldComesFrom(r)
    <3>1. frame[r] = {Frame(r)} /\ Frame(r) \in FrameRow
      BY <1>t, <1>9, FrameHeld DEF HandlerOK, CheckEdit
    <3>2. g.id = Frame(r).id /\ SameFrame(g, Frame(r))
      BY <3>1 DEF FrameRow, SameFrame
    <3>3. frame'[r] = {g}
      BY <1>t, <2>1 DEF TypeOK
    <3>4. ~isNew[r]
      BY <1>t, <1>9 DEF HandlerOK, CheckEdit, Settled
    <3> HIDE DEF g
    <3> QED
      BY <2>1, <3>1, <3>2, <3>3, <3>4 DEF HeldComesFrom
  <2> QED
    BY <1>9, <1>t, <2>1, HeldKept DEF CheckEdit
<1>10. CASE ResolveExtend(r)
  <2>1. UNCHANGED tables
    BY <1>10 DEF ResolveExtend
  <2> DEFINE ref == Document(r).extends[Cardinality(edges[r]) + 1]
  <2>2. CASE \/ \E code : Finish(r, code)
             \/ /\ UNCHANGED <<frame, isNew, row, excludeIDs>>
                /\ \E f \in Readable(r, OrgOf(ref, Me(r)), ref.name) :
                     edges' = [edges EXCEPT ![r] = @ \cup
                       {[parent |-> f.id, pinned |-> ref.version, index |-> Cardinality(edges[r])]}]
    <3>1. ASSUME NEW f \in Readable(r, OrgOf(ref, Me(r)), ref.name), NEW e, e.parent = f.id,
                 edges' = [edges EXCEPT ![r] = @ \cup {e}],
                 UNCHANGED <<frame, isNew, row, excludeIDs>>
          PROVE  HeldComesFrom(r)
      <4>1. f \in frames
        BY <3>1 DEF Readable, GetFrameBySlugName
      <4>2. \A d \in edges'[r] : d \in edges[r] \/ d.parent \in Ids(frames)
        BY <1>t, <3>1, <4>1 DEF TypeOK, Ids
      <4>3. ~isNew[r] \/ \A g \in frame'[r] : g \in frame[r]
        BY <3>1
      <4> QED
        BY <2>1, <3>1, <4>2, <4>3 DEF HeldComesFrom, SameFrame
    <3>2. CASE \E code : Finish(r, code)
      BY <1>t, <3>2, HeldKept
    <3>3. ASSUME UNCHANGED <<frame, isNew, row, excludeIDs>>,
                 NEW f \in Readable(r, OrgOf(ref, Me(r)), ref.name), NEW e,
                 e = [parent |-> f.id, pinned |-> ref.version, index |-> Cardinality(edges[r])],
                 edges' = [edges EXCEPT ![r] = @ \cup {e}]
          PROVE  HeldComesFrom(r)
      <4>1. e.parent = f.id
        BY <3>3
      <4> QED
        BY <3>1, <3>3, <4>1
    <3> HIDE DEF ref
    <3> QED
      BY <2>2, <3>2, <3>3
  <2> QED
    BY <1>10, <2>2 DEF ResolveExtend
<1>11. CASE ResolveExclude(r)
  BY <1>11, <1>t, HeldKept DEF ResolveExclude
<1>12. CASE CreateFrameVersion(r)
  BY <1>12, <1>t, HeldKept DEF CreateFrameVersion
<1>13. CASE CheckDelete(r)
  BY <1>13, <1>t, HeldKept DEF CheckDelete
<1>14. CASE FrameChildren(r)
  BY <1>14, <1>t, HeldKept DEF FrameChildren
<1>15. CASE DeleteFrame(r)
  BY <1>15, <1>t, HeldKept DEF DeleteFrame
<1>16. CASE StoreError(r)
  BY <1>16, <1>t, HeldKept DEF StoreError
<1> QED
  BY <1>1, <1>2, <1>3, <1>4, <1>5, <1>6, <1>7, <1>8, <1>9, <1>10, <1>11, <1>12, <1>13,
     <1>14, <1>15, <1>16 DEF RequestStep

\* The rows a step leaves in frames: those it found, and the one it commits.
LEMMA FramesAfter ==
  ASSUME IInv, NEW r \in Request, RequestStep(r)
  PROVE  \A g \in frames' : g \in frames \/ (Committed(r) /\ g = Frame(r))
<1>1. CASE UNCHANGED tables
  BY <1>1 DEF tables
<1>2. CASE Committed(r)
  BY <1>2, SavedFrames
<1>3. CASE DeleteFrame(r)
  BY <1>3 DEF DeleteFrame, tables
<1> QED
  BY <1>1, <1>2, <1>3, OnlyTransactionsWrite

\* A version that is held has its frame, and an edge its parent.
LEMMA ReferredIds ==
  ASSUME IInv
  PROVE  /\ \A v \in versions : v.frame \in Ids(frames)
         /\ \A e \in frame_extends : e.edge.parent \in Ids(frames)
BY DEF IInv, ReferencesResolve

\* Whoever commits has a frame of its own making, or one whose row is there.
LEMMA CommittedFrame ==
  ASSUME IInv, NEW r \in Request, Committed(r)
  PROVE  /\ frame[r] = {Frame(r)}
         /\ isNew[r] \/ \E g \in frames : g.id = Frame(r).id /\ SameFrame(g, Frame(r))
<1>1. frame[r] = {Frame(r)}
  BY CommittedHolds DEF Committed
<1>2. CASE ~isNew[r]
  <2>1. PICK g \in frames : g.id = Frame(r).id
    BY <1>2 DEF Committed, FrameGone, Ids
  <2> QED
    BY <1>1, <2>1 DEF IInv, HeldFramesAgree, SameFrame
<1> QED
  BY <1>1, <1>2

\* Every step keeps what is held of a frame true of its row.
LEMMA HeldFramesPreserved ==
  ASSUME IInv, NEW r \in Request, RequestStep(r)
  PROVE  HeldFramesAgree'
<1> SUFFICES ASSUME NEW q \in Request, NEW f \in frame'[q], NEW g \in frames', f.id = g.id
             PROVE  SameFrame(f, g)
  BY DEF HeldFramesAgree, SameFrame
<1>1. HeldFramesAgree /\ NewIdsAreNew /\ TypeOK /\ ReferencesResolve
  BY DEF IInv
<1>2. HeldComesFrom(r)
  BY HeldSources
<1>3. \* What was held agrees with a row that was there.
      ASSUME NEW p \in Request, NEW h \in frame[p], f.id = h.id, SameFrame(f, h), g \in frames
      PROVE  SameFrame(f, g)
  BY <1>1, <1>3 DEF HeldFramesAgree, SameFrame
<1>4. \* ... and with the one that is committed.
      ASSUME NEW p \in Request, NEW h \in frame[p], f.id = h.id, SameFrame(f, h),
             Committed(r), g = Frame(r)
      PROVE  SameFrame(f, g)
  <2>1. frame[r] = {g}
    BY <1>4, CommittedFrame
  <2>2. CASE p = r
    BY <1>4, <2>1, <2>2
  <2>3. CASE p # r /\ isNew[r]
    BY <1>1, <1>4, <2>1, <2>3 DEF NewIdsAreNew
  <2>4. CASE ~isNew[r]
    <3>1. PICK g0 \in frames : g0.id = g.id /\ SameFrame(g0, g)
      BY <1>4, <2>4, CommittedFrame
    <3>2. SameFrame(h, g0)
      BY <1>1, <1>4, <3>1 DEF HeldFramesAgree
    <3> QED
      BY <1>4, <3>1, <3>2 DEF SameFrame
  <2> QED
    BY <2>2, <2>3, <2>4
<1>5. g \in frames \/ (Committed(r) /\ g = Frame(r))
  BY FramesAfter
<1>6. CASE q # r
  <2>1. f \in frame[q]
    BY <1>6, <1>1, OthersUnmoved DEF Unmoved
  <2> QED
    BY <1>3, <1>4, <1>5, <2>1 DEF SameFrame
<1>7. CASE q = r
  <2>1. CASE \E h \in frame[r] : f.id = h.id /\ SameFrame(f, h)
    BY <1>3, <1>4, <1>5, <2>1
  <2>2. CASE f \in frames /\ UNCHANGED tables
    BY <1>1, <2>2 DEF tables, ReferencesResolve, SameFrame
  <2>3. CASE Unheld(f.id) /\ UNCHANGED tables
    BY <2>3 DEF tables, Unheld, Ids
  <2> QED
    BY <1>2, <1>7, <2>1, <2>2, <2>3 DEF HeldComesFrom
<1> QED
  BY <1>6, <1>7

\* Every step keeps new ids new.
LEMMA NewIdsPreserved ==
  ASSUME IInv, NEW r \in Request, RequestStep(r)
  PROVE  NewIdsAreNew'
<1> SUFFICES ASSUME NEW p \in Request, isNew'[p], NEW f \in frame'[p], NEW q \in Request
             PROVE  /\ f.id \notin Ids(frames')
                    /\ q # p => \A g \in frame'[q] : g.id # f.id
                    /\ \A v \in row'[q] : v.frame # f.id
                    /\ \A e \in edges'[q] : e.parent # f.id
  BY DEF NewIdsAreNew, Ids
<1>1. NewIdsAreNew /\ TypeOK
  BY DEF IInv
<1>2. HeldComesFrom(r)
  BY HeldSources
<1>3. ASSUME NEW o \in Request, o # r PROVE Unmoved(o)
  BY <1>1, <1>3, OthersUnmoved
<1>4. \* f's id was in no row, and in no other handler.
      /\ f.id \notin Ids(frames)
      /\ \A o \in Request : /\ o # p => \A g \in frame[o] : g.id # f.id
                            /\ \A v \in row[o] : v.frame # f.id
                            /\ \A e \in edges[o] : e.parent # f.id
  <2>1. CASE p # r
    BY <1>1, <1>3, <2>1 DEF Unmoved, NewIdsAreNew
  <2>2. CASE p = r /\ Unheld(f.id)
    BY <2>2 DEF Unheld
  <2>3. CASE p = r /\ ~Unheld(f.id)
    <3>1. isNew[r] /\ f \in frame[r]
      BY <1>2, <2>3 DEF HeldComesFrom
    <3> QED
      BY <1>1, <2>3, <3>1 DEF NewIdsAreNew
  <2> QED
    BY <2>1, <2>2, <2>3
<1>5. f.id \notin Ids(frames')
  <2>1. CASE p = r
    <3>1. UNCHANGED tables
      BY <1>2, <2>1 DEF HeldComesFrom
    <3> QED
      BY <1>4, <3>1 DEF tables, Ids
  <2>2. CASE p # r
    <3>1. \A g \in frames' : g \in frames \/ g \in frame[r]
      BY FramesAfter, CommittedFrame
    <3> QED
      BY <1>4, <2>2, <3>1 DEF Ids
  <2> QED
    BY <2>1, <2>2
<1>6. CASE q # r
  BY <1>3, <1>4, <1>5, <1>6 DEF Unmoved
<1>7. CASE q = r
  <2>1. q # p => \A g \in frame'[q] : g.id # f.id
    <3>1. SUFFICES ASSUME p # r, NEW g \in frame'[r] PROVE g.id # f.id
      BY <1>7
    <3>2. CASE \E h \in frame[r] : g.id = h.id
      BY <1>4, <3>1, <3>2
    <3>3. CASE g \in frames
      BY <1>4, <3>3 DEF Ids
    <3>4. CASE Unheld(g.id)
      <4>1. f \in frame[p]
        BY <1>3, <3>1 DEF Unmoved
      <4> QED
        BY <3>4, <4>1 DEF Unheld
    <3> QED
      BY <1>2, <3>2, <3>3, <3>4 DEF HeldComesFrom
  <2>2. \A v \in row'[q] : v.frame # f.id
    BY <1>2, <1>4, <1>7, ReferredIds DEF HeldComesFrom
  <2>3. \A e \in edges'[q] : e.parent # f.id
    BY <1>2, <1>4, <1>7 DEF HeldComesFrom
  <2> QED
    BY <1>5, <2>1, <2>2, <2>3
<1> QED
  BY <1>6, <1>7

-----------------------------------------------------------------------------
(* The theorems.                                                           *)

\* With no rows and no requests the invariant holds.
LEMMA InitIInv == Init => IInv
<1> SUFFICES ASSUME Init PROVE IInv
  OBVIOUS
<1>1. TypeOK
  BY AnyCallType DEF Init, TypeOK, Step, Reply
<1>2. HandlersOK
  BY DEF Init, HandlersOK, HandlerOK, Settled
<1>3. HeldFramesAgree /\ NewIdsAreNew /\ ReferencesResolve
  BY DEF Init, HeldFramesAgree, NewIdsAreNew, ReferencesResolve
<1> QED
  BY <1>1, <1>2, <1>3 DEF IInv

\* Every step preserves the inductive invariant.
LEMMA NextIInv == IInv /\ [Next]_vars => IInv'
<1>1. ASSUME IInv, NEW r \in Request, RequestStep(r) PROVE IInv'
  <2>1. LocalTypeOK' /\ HandlersOK'
    BY <1>1, LocalsPreserved
  <2>2. TableTypeOK' /\ ReferencesResolve'
    BY <1>1, TablesPreserved
  <2>3. HeldFramesAgree' /\ NewIdsAreNew'
    BY <1>1, HeldFramesPreserved, NewIdsPreserved
  <2>4. TypeOK'
    BY <2>1, <2>2 DEF TypeOK, LocalTypeOK, TableTypeOK
  <2> QED
    BY <2>1, <2>2, <2>3, <2>4 DEF IInv
<1>2. ASSUME IInv, UNCHANGED vars PROVE IInv'
  <2>1. TypeOK'
    BY <1>2 DEF IInv, TypeOK, vars, tables
  <2>2. HandlersOK'
    BY <1>2 DEF IInv, HandlersOK, HandlerOK, Document, Row, vars, tables
  <2>3. HeldFramesAgree' /\ NewIdsAreNew' /\ ReferencesResolve'
    BY <1>2 DEF IInv, HeldFramesAgree, SameFrame, NewIdsAreNew, ReferencesResolve, Ids,
                VersionsOf, vars, tables
  <2> QED
    BY <2>1, <2>2, <2>3 DEF IInv
<1> QED
  BY <1>1, <1>2 DEF Next

\* The inductive invariant holds throughout: what a handler has established at
\* each repository call, and that ids are held by one frame at a time.
THEOREM Inductive == Spec => []IInv
BY InitIInv, NextIInv, PTL DEF Spec

\* However many requests interleave, and whatever they fail at, every row and
\* local variable is well formed, names and ids are unique, the latest version
\* of a frame has been published, and no version or edge dangles.
THEOREM References == Spec => [](TypeOK /\ ReferencesResolve)
<1>1. IInv => TypeOK /\ ReferencesResolve
  BY DEF IInv
<1> QED
  BY <1>1, Inductive, PTL

-----------------------------------------------------------------------------
(* Organizations and owners.                                               *)

\* A row of frames keeps its organization, name and owner; the others are new.
LEMMA RowsStaySame ==
  ASSUME IInv, NEW r \in Request, RequestStep(r), NEW g \in frames'
  PROVE  \/ \E g0 \in frames : g0.id = g.id /\ SameFrame(g0, g)
         \/ Committed(r) /\ isNew[r] /\ g = Frame(r)
<1>1. CASE g \in frames
  BY <1>1 DEF SameFrame
<1>2. CASE Committed(r) /\ g = Frame(r)
  BY <1>2, CommittedFrame
<1> QED
  BY <1>1, <1>2, FramesAfter

\* What rbac.Can allows, by the row as the handler holds it.
LEMMA CanMeansControls ==
  ASSUME IInv, NEW r \in Request, NEW f \in frame[r], NEW perm, Can(Me(r), f, perm)
  PROVE  f.org = Me(r).org /\ (perm # "read" => Controls(Me(r), f))
<1>1. f.org = Me(r).org
  BY DEF Can
<1>2. ASSUME perm # "read", Me(r).role # "admin" PROVE f.owner = Me(r).sub
  <2>1. PICK g \in frames : g.id = f.id /\ g.owner = Me(r).sub
    BY <1>2 DEF Can, Granted
  <2> QED
    BY <2>1 DEF IInv, HeldFramesAgree, SameFrame
<1> QED
  BY <1>1, <1>2 DEF Controls

\* A handler that returns holds nothing that is not its own.
LEMMA FinishRights ==
  ASSUME TypeOK, NEW r \in Request, NEW code, Finish(r, code)
  PROVE  HeldByRight(r)'
<1>1. pc'[r] = "idle" /\ frame'[r] = {} /\ row'[r] = {} /\ edges'[r] = {}
  BY DEF Finish, Goto, TypeOK
<1> QED
  BY <1>1 DEF HeldByRight, Settled

\* A step of a handler leaves it with what is its own.
LEMMA RightsOfMover ==
  ASSUME IInv, RightsInv, NEW r \in Request, RequestStep(r)
  PROVE  HeldByRight(r)'
<1> USE DEF Continue, Goto
<1>t. TypeOK /\ HandlerOK(r) /\ HeldByRight(r) /\ ReferencesResolve /\ HeldFramesAgree
  BY DEF IInv, HandlersOK, RightsInv
<1>f. ASSUME NEW code, Finish(r, code) PROVE HeldByRight(r)'
  BY <1>f, <1>t, FinishRights
<1>k. ASSUME NEW step, Continue(r, step) PROVE Me(r)' = Me(r) /\ pc'[r] = step
  BY <1>k, <1>t DEF Me, TypeOK
<1>u. ASSUME UNCHANGED tables PROVE frames' = frames
  BY <1>u DEF tables
<1>1. CASE Receive(r)
  <2>1. ASSUME NEW c, Goto(r, FirstStep(c)), UNCHANGED <<frame, isNew, row, edges, excludeIDs>>
        PROVE  HeldByRight(r)'
    <3>1. row[r] = {} /\ edges[r] = {}
      BY <1>1, <1>t DEF Receive, HandlerOK
    <3>2. pc'[r] \in {"get", "find"}
      BY <2>1, <1>t DEF FirstStep, TypeOK
    <3> QED
      BY <2>1, <3>1, <3>2 DEF HeldByRight, Settled
  <2> QED
    BY <1>1, <1>f, <2>1 DEF Receive
<1>2. CASE LookUpFrame(r)
  <2>1. ASSUME NEW step \in {"can_read", "can_delete"}, Continue(r, step),
               UNCHANGED <<isNew, row, edges, excludeIDs>>, UNCHANGED tables
        PROVE  HeldByRight(r)'
    BY <1>k, <1>t, <1>u, <2>1 DEF HeldByRight, Settled
  <2> QED
    BY <1>2, <1>f, <2>1 DEF LookUpFrame
<1>3. CASE CheckRead(r)
  <2>1. ASSUME Can(Me(r), Frame(r), "read"), Continue(r, "version"),
               UNCHANGED <<frame, isNew, row, edges, excludeIDs>>, UNCHANGED tables
        PROVE  HeldByRight(r)'
    <3>1. frame[r] = {Frame(r)}
      BY <1>3, <1>t, FrameHeld DEF CheckRead, HandlerOK
    <3>2. Frame(r).org = Me(r).org
      BY <2>1, <3>1, CanMeansControls
    <3> QED
      BY <1>k, <1>t, <1>u, <2>1, <3>1, <3>2 DEF HeldByRight, Settled
  <2> QED
    BY <1>3, <1>f, <2>1 DEF CheckRead
<1>4. CASE ReadVersion(r)
  <2>1. ASSUME NEW found, \A v \in found : v.frame = Frame(r).id,
               row' = [row EXCEPT ![r] = found], Continue(r, "edges"),
               UNCHANGED <<frame, isNew, edges, excludeIDs>>, UNCHANGED tables
        PROVE  HeldByRight(r)'
    <3>1. frame[r] = {Frame(r)}
      BY <1>4, <1>t, FrameHeld DEF ReadVersion, HandlerOK
    <3>2. Frame(r).org = Me(r).org
      BY <1>4, <1>t, <3>1 DEF ReadVersion, HeldByRight
    <3>3. \A v \in found, f \in frames : f.id = v.frame => f.org = Me(r).org
      BY <1>t, <2>1, <3>1, <3>2 DEF HeldFramesAgree, SameFrame
    <3>4. row'[r] = found
      BY <1>t, <2>1 DEF TypeOK
    <3> QED
      BY <1>k, <1>u, <2>1, <3>3, <3>4 DEF HeldByRight, Settled
  <2> QED
    BY <1>4, <1>f, <2>1 DEF ReadVersion, VersionsOf
<1>5. CASE ReadEdges(r)
  <2>1. Me(r)' = Me(r) /\ pc'[r] = "excludes" /\ frames' = frames /\ row' = row
    BY <1>5, <1>k DEF ReadEdges, tables
  <2> QED
    BY <1>t, <2>1 DEF HeldByRight, Settled
<1>6. CASE ReadExcludes(r)
  <2>1. ASSUME NEW step \in {"parents", "find"}, Continue(r, step), row' = row, UNCHANGED tables
        PROVE  HeldByRight(r)'
    BY <1>k, <1>t, <1>u, <2>1 DEF HeldByRight, Settled
  <2> QED
    BY <1>6, <1>f, <2>1 DEF ReadExcludes
<1>7. CASE NameParent(r)
  <2>1. ASSUME Continue(r, "parents"), row' = row, UNCHANGED tables
        PROVE  HeldByRight(r)'
    BY <1>k, <1>t, <1>u, <2>1 DEF HeldByRight, Settled
  <2> QED
    BY <1>7, <1>f, <2>1 DEF NameParent
<1>8. CASE FindFrame(r)
  <2>0. edges[r] = {}
    BY <1>8, <1>t DEF FindFrame, HandlerOK
  <2>1. ASSUME NEW new, new.org = Me(r).org, new.owner = Me(r).sub,
               frame' = [frame EXCEPT ![r] = {new}], Continue(r, Resolving(r, 0, 0)),
               UNCHANGED <<row, edges, excludeIDs>>, UNCHANGED tables
        PROVE  HeldByRight(r)'
    <3>1. Controls(Me(r), new) /\ frame'[r] = {new}
      BY <1>t, <2>1 DEF Controls, TypeOK
    <3>2. Resolving(r, 0, 0) \in Settled
      BY ResolvingStep
    <3> QED
      BY <1>k, <1>t, <1>u, <2>0, <2>1, <3>1, <3>2 DEF HeldByRight, Settled, Controls
  <2>2. ASSUME NEW name, frame' = [frame EXCEPT ![r] = GetFrameBySlugName(frames, Me(r).org, name)],
               Continue(r, "can_edit"), UNCHANGED <<isNew, row, edges, excludeIDs>>, UNCHANGED tables
        PROVE  HeldByRight(r)'
    <3>1. \A f \in frame'[r] : f.org = Me(r).org
      BY <1>t, <2>2 DEF TypeOK, GetFrameBySlugName
    <3> QED
      BY <1>k, <1>t, <1>u, <2>2, <3>1 DEF HeldByRight, Settled
  <2>3. ASSUME NEW id, frame' = [frame EXCEPT ![r] = {[id |-> id, org |-> Me(r).org,
                   name |-> call[r].name, owner |-> Me(r).sub, latest |-> call[r].version]}],
               Continue(r, Resolving(r, 0, 0)), UNCHANGED <<row, edges, excludeIDs>>,
               UNCHANGED tables
        PROVE  HeldByRight(r)'
    <3> DEFINE new == [id |-> id, org |-> Me(r).org, name |-> call[r].name,
                       owner |-> Me(r).sub, latest |-> call[r].version]
    <3>1. new.org = Me(r).org /\ new.owner = Me(r).sub
      OBVIOUS
    <3>2. frame' = [frame EXCEPT ![r] = {new}]
      BY <2>3
    <3> HIDE DEF new
    <3> QED
      BY <2>1, <2>3, <3>1, <3>2
  <2> QED
    BY <1>8, <1>f, <2>2, <2>3 DEF FindFrame
<1>9. CASE CheckEdit(r)
  <2> DEFINE f == Frame(r)
             g == [f EXCEPT !.latest = call[r].version]
  <2>1. ASSUME Can(Me(r), f, "edit"), frame' = [frame EXCEPT ![r] = {g}],
               Continue(r, Resolving(r, 0, 0)), UNCHANGED <<isNew, row, edges, excludeIDs>>,
               UNCHANGED tables
        PROVE  HeldByRight(r)'
    <3>1. f \in FrameRow /\ frame[r] = {f} /\ edges[r] = {}
      BY <1>9, <1>t, FrameHeld DEF CheckEdit, HandlerOK
    <3>2. Controls(Me(r), f)
      BY <2>1, <3>1, CanMeansControls
    <3>3. Controls(Me(r), g)
      BY <3>1, <3>2 DEF Controls, FrameRow
    <3>4. frame'[r] = {g}
      BY <1>t, <2>1 DEF TypeOK
    <3>5. Resolving(r, 0, 0) \in Settled
      BY ResolvingStep
    <3> HIDE DEF f, g
    <3> QED
      BY <1>k, <1>t, <1>u, <2>1, <3>1, <3>3, <3>4, <3>5 DEF HeldByRight, Settled, Controls
  <2> QED
    BY <1>9, <1>f, <2>1 DEF CheckEdit
<1>10. CASE ResolveExtend(r)
  <2> DEFINE ref == Document(r).extends[Cardinality(edges[r]) + 1]
             next == Resolving(r, Cardinality(edges[r]) + 1, 0)
  <2>0. pc[r] \in Settled
    BY <1>10 DEF ResolveExtend, Settled
  <2>1. ASSUME NEW f \in Readable(r, OrgOf(ref, Me(r)), ref.name), NEW e, e.parent = f.id,
               edges' = [edges EXCEPT ![r] = @ \cup {e}], Continue(r, next),
               UNCHANGED <<frame, isNew, row, excludeIDs>>, UNCHANGED tables
        PROVE  HeldByRight(r)'
    <3>1. f \in frames /\ f.org = Me(r).org
      BY <2>1 DEF Readable, GetFrameBySlugName, Can
    <3>2. \A p \in frames : p.id = e.parent => p.org = Me(r).org
      BY <1>t, <2>1, <3>1 DEF ReferencesResolve
    <3>3. edges'[r] = edges[r] \cup {e}
      BY <1>t, <2>1 DEF TypeOK
    <3>4. next \in Settled
      BY ResolvingStep
    <3> HIDE DEF next
    <3> QED
      BY <1>k, <1>t, <1>u, <2>0, <2>1, <3>2, <3>3, <3>4 DEF HeldByRight, Settled, Controls
  <2>2. ASSUME NEW f \in Readable(r, OrgOf(ref, Me(r)), ref.name), NEW e,
               e = [parent |-> f.id, pinned |-> ref.version, index |-> Cardinality(edges[r])],
               edges' = [edges EXCEPT ![r] = @ \cup {e}], Continue(r, next),
               UNCHANGED <<frame, isNew, row, excludeIDs>>, UNCHANGED tables
        PROVE  HeldByRight(r)'
    <3>1. e.parent = f.id
      BY <2>2
    <3> QED
      BY <2>1, <2>2, <3>1
  <2> HIDE DEF next
  <2> QED
    BY <1>10, <1>f, <2>2 DEF ResolveExtend, next
<1>11. CASE ResolveExclude(r)
  <2>0. pc[r] \in Settled
    BY <1>11 DEF ResolveExclude, Settled
  <2>1. ASSUME NEW step \in Settled, Continue(r, step),
               UNCHANGED <<frame, isNew, row, edges>>, UNCHANGED tables
        PROVE  HeldByRight(r)'
    BY <1>k, <1>t, <1>u, <2>0, <2>1 DEF HeldByRight, Settled, Controls
  <2> QED
    BY <1>11, <1>f, <2>1, ResolvingStep DEF ResolveExclude
<1>12. CASE CreateFrameVersion(r) \/ DeleteFrame(r) \/ StoreError(r)
  BY <1>12, <1>f DEF CreateFrameVersion, DeleteFrame, StoreError
<1>13. CASE CheckDelete(r)
  <2>1. ASSUME Can(Me(r), Frame(r), "delete"), Continue(r, "children"),
               UNCHANGED <<frame, isNew, row, edges, excludeIDs>>, UNCHANGED tables
        PROVE  HeldByRight(r)'
    <3>1. frame[r] = {Frame(r)}
      BY <1>13, <1>t, FrameHeld DEF CheckDelete, HandlerOK
    <3>2. Controls(Me(r), Frame(r))
      BY <2>1, <3>1, CanMeansControls
    <3> QED
      BY <1>k, <1>t, <1>u, <2>1, <3>1, <3>2 DEF HeldByRight, Settled, Controls
  <2> QED
    BY <1>13, <1>f, <2>1 DEF CheckDelete
<1>14. CASE FrameChildren(r)
  <2>1. ASSUME Continue(r, "delete"), UNCHANGED <<frame, isNew, row, edges, excludeIDs>>,
               UNCHANGED tables
        PROVE  HeldByRight(r)'
    BY <1>14, <1>k, <1>t, <1>u, <2>1 DEF FrameChildren, HeldByRight, Settled, Controls
  <2> QED
    BY <1>14, <1>f, <2>1 DEF FrameChildren
<1> QED
  BY <1>1, <1>2, <1>3, <1>4, <1>5, <1>6, <1>7, <1>8, <1>9, <1>10, <1>11, <1>12, <1>13,
     <1>14 DEF RequestStep

\* The other handlers keep what is theirs: a row that changes under them keeps
\* its organization, and a new one has an id they do not hold.
LEMMA RightsOfOthers ==
  ASSUME IInv, RightsInv, NEW r \in Request, RequestStep(r), NEW q \in Request, q # r
  PROVE  HeldByRight(q)'
<1>1. Unmoved(q) /\ HeldByRight(q)
  BY OthersUnmoved DEF IInv, RightsInv
<1>2. \A g \in frames' : \/ \E g0 \in frames : g0.id = g.id /\ g0.org = g.org
                         \/ /\ \A v \in row[q] : v.frame # g.id
                            /\ \A e \in edges[q] : e.parent # g.id
  <2>1. SUFFICES ASSUME NEW g \in frames', Committed(r), isNew[r], g = Frame(r)
                 PROVE  /\ \A v \in row[q] : v.frame # g.id
                        /\ \A e \in edges[q] : e.parent # g.id
    BY RowsStaySame DEF SameFrame
  <2>2. g \in frame[r]
    BY <2>1, CommittedFrame
  <2> QED
    BY <2>1, <2>2 DEF IInv, NewIdsAreNew
<1>3. Me(q)' = Me(q)
  BY <1>1 DEF Unmoved, Me
<1>4. /\ \A v \in row[q], f \in frames' : f.id = v.frame => f.org = Me(q).org
      /\ pc[q] \in Settled =>
           \A e \in edges[q], p \in frames' : p.id = e.parent => p.org = Me(q).org
  BY <1>1, <1>2 DEF HeldByRight
<1> QED
  BY <1>1, <1>3, <1>4 DEF HeldByRight, Unmoved, Controls

\* Edges that are there have both their frames.
LEMMA EdgeEnds ==
  ASSUME IInv, NEW e \in frame_extends
  PROVE  e.frame \in Ids(frames) /\ e.edge.parent \in Ids(frames)
BY DEF IInv, ReferencesResolve, VersionsOf

\* No step lets an edge cross organizations.
LEMMA EdgesPreserved ==
  ASSUME IInv, RightsInv, NEW r \in Request, RequestStep(r)
  PROVE  EdgesStayInOrg'
<1> SUFFICES ASSUME NEW e \in frame_extends', NEW f \in frames', NEW p \in frames',
                    f.id = e.frame, p.id = e.edge.parent
             PROVE  f.org = p.org
  BY DEF EdgesStayInOrg
<1>1. EdgesStayInOrg /\ HeldByRight(r)
  BY DEF RightsInv
<1>2. \A g \in frames' : \/ \E g0 \in frames : g0.id = g.id /\ g0.org = g.org
                         \/ g.id \notin Ids(frames) /\ Committed(r) /\ g = Frame(r)
  <2>1. Committed(r) /\ isNew[r] => Frame(r).id \notin Ids(frames)
    BY CommittedHolds DEF Committed
  <2> QED
    BY <2>1, RowsStaySame DEF SameFrame
<1>3. CASE e \in frame_extends
  <2>1. f.id \in Ids(frames) /\ p.id \in Ids(frames)
    BY <1>3, EdgeEnds
  <2>2. PICK f0 \in frames : f0.id = f.id /\ f0.org = f.org
    BY <1>2, <2>1
  <2>3. PICK p0 \in frames : p0.id = p.id /\ p0.org = p.org
    BY <1>2, <2>1
  <2> QED
    BY <1>1, <1>3, <2>2, <2>3 DEF EdgesStayInOrg
<1>4. CASE e \notin frame_extends
  <2>1. Committed(r)
    BY <1>4, OnlyTransactionsWrite DEF tables, DeleteFrame
  <2>2. e.frame = Frame(r).id /\ e.edge \in edges[r]
    BY <1>4, <2>1 DEF Committed, Written, EdgeRows
  <2>3. pc[r] \in Settled /\ frame[r] = {Frame(r)}
    BY <2>1, CommittedFrame DEF Committed, Settled
  <2>4. Frame(r).org = Me(r).org
    BY <1>1, <2>3 DEF HeldByRight, Controls
  <2>5. f.org = Me(r).org
    BY <2>1, <2>2, <2>4, SavedFrames
  <2>6. e.edge.parent \in Ids(frames)
    BY <2>1, <2>2 DEF Committed, BadEdges, FrameGone
  <2>7. PICK p0 \in frames : p0.id = p.id /\ p0.org = p.org
    BY <1>2, <2>6
  <2>8. p0.org = Me(r).org
    BY <1>1, <2>2, <2>3, <2>7 DEF HeldByRight
  <2> QED
    BY <2>5, <2>7, <2>8
<1> QED
  BY <1>3, <1>4

\* Every step preserves what a handler holds by right.
LEMMA NextRights == IInv /\ RightsInv /\ [Next]_vars => RightsInv'
<1>1. ASSUME IInv, RightsInv, NEW r \in Request, RequestStep(r) PROVE RightsInv'
  <2>1. \A q \in Request : HeldByRight(q)'
    BY <1>1, RightsOfMover, RightsOfOthers
  <2>2. EdgesStayInOrg'
    BY <1>1, EdgesPreserved
  <2> QED
    BY <2>1, <2>2 DEF RightsInv
<1>2. ASSUME RightsInv, UNCHANGED vars PROVE RightsInv'
  BY <1>2 DEF RightsInv, HeldByRight, EdgesStayInOrg, Controls, Me, vars, tables
<1> QED
  BY <1>1, <1>2 DEF Next

\* Whatever a handler is about to write or delete is its caller's to write or
\* delete, and what it has read is of its caller's organization (rbac.Can).
THEOREM Rights == Spec => []RightsInv
<1>1. Init => RightsInv
  BY DEF Init, RightsInv, HeldByRight, EdgesStayInOrg, Settled
<1> QED
  BY <1>1, NextRights, Inductive, PTL DEF Spec

\* Organizations stay apart: no edge crosses them and no handler holds a
\* version of another's frame, whatever is deleted and created again meanwhile.
THEOREM Isolation == Spec => []OrgsAreIsolated
<1>1. RightsInv => OrgsAreIsolated
  BY DEF RightsInv, HeldByRight, EdgesStayInOrg, OrgsAreIsolated
<1> QED
  BY <1>1, Rights, PTL

-----------------------------------------------------------------------------
(* Action properties.                                                      *)

\* A version, its edges and its excludes stay until a frame they belong to or
\* lead to is deleted.
THEOREM Immutability == Spec => PublishedIsImmutable
<1> DEFINE A == /\ \A v \in versions : v \in versions' \/ v.frame \notin Ids(frames')
                /\ \A x \in frame_excludes : x \in frame_excludes' \/ x.frame \notin Ids(frames')
                /\ \A e \in frame_extends : \/ e \in frame_extends'
                                            \/ e.frame \notin Ids(frames')
                                            \/ e.edge.parent \notin Ids(frames')
<1>1. [Next]_vars => [A]_vars
  <2>1. ASSUME NEW r \in Request, RequestStep(r) PROVE A
    <3>1. CASE UNCHANGED tables
      BY <3>1 DEF tables
    <3>2. CASE Committed(r)
      BY <3>2 DEF Committed, Written
    <3>3. CASE DeleteFrame(r)
      BY <3>1, <3>3 DEF DeleteFrame, Cascade, Ids
    <3> QED
      BY <2>1, <3>1, <3>2, <3>3, OnlyTransactionsWrite
  <2> QED
    BY <2>1 DEF Next
<1> QED
  BY <1>1, PTL DEF Spec, PublishedIsImmutable

\* Only an owner or an admin of its organization gives a frame a version or
\* deletes it.
THEOREM Ownership == Spec => OwnersWrite
<1> DEFINE A == /\ \A v \in versions' \ versions : \A f \in frames :
                     f.id = v.frame => \E r \in Request : pc[r] = "write" /\ Controls(Me(r), f)
                /\ \A f \in frames : f.id \notin Ids(frames') =>
                     \E r \in Request : pc[r] = "delete" /\ Controls(Me(r), f)
<1>1. IInv /\ RightsInv /\ [Next]_vars => [A]_vars
  <2>1. ASSUME IInv, RightsInv, NEW r \in Request, RequestStep(r) PROVE A
    <3>h. HeldByRight(r) /\ HeldFramesAgree /\ TypeOK /\ HandlerOK(r)
      BY <2>1 DEF IInv, RightsInv, HandlersOK
    <3>c. \* Whoever controls the frame it holds controls the row.
          ASSUME frame[r] = {Frame(r)}, pc[r] \in {"write", "delete"},
                 NEW f \in frames, f.id = Frame(r).id
          PROVE  Controls(Me(r), f)
      <4>1. Controls(Me(r), Frame(r))
        BY <3>c, <3>h DEF HeldByRight, Settled
      <4>2. SameFrame(Frame(r), f)
        BY <3>c, <3>h DEF HeldFramesAgree
      <4> QED
        BY <4>1, <4>2 DEF Controls, SameFrame
    <3>1. CASE UNCHANGED tables
      BY <3>1 DEF tables, Ids
    <3>2. CASE Committed(r)
      <4>1. frame[r] = {Frame(r)} /\ pc[r] = "write"
        BY <2>1, <3>2, CommittedFrame DEF Committed
      <4>2. \A v \in versions' \ versions : v.frame = Frame(r).id
        BY <3>2 DEF Committed, Written
      <4>3. \A f \in frames : f.id \in Ids(frames')
        BY <2>1, <3>2, SavedFrames DEF Ids
      <4> QED
        BY <3>c, <4>1, <4>2, <4>3
    <3>3. CASE DeleteFrame(r)
      <4>1. frame[r] = {Frame(r)} /\ pc[r] = "delete"
        BY <3>3, <3>h, FrameHeld DEF DeleteFrame, HandlerOK
      <4>2. versions' \subseteq versions
        BY <3>3 DEF DeleteFrame, tables
      <4>3. \A f \in frames : f.id \notin Ids(frames') => f.id = Frame(r).id
        BY <3>3 DEF DeleteFrame, tables, Ids
      <4> QED
        BY <3>c, <4>1, <4>2, <4>3
    <3> QED
      BY <2>1, <3>1, <3>2, <3>3, OnlyTransactionsWrite
  <2> QED
    BY <2>1 DEF Next
<1> QED
  BY <1>1, Inductive, Rights, PTL DEF Spec, OwnersWrite

\* A publish that does not succeed leaves every table as it was.
THEOREM FailureIsClean == Spec => FailedPublishWritesNothing
<1> DEFINE A == \A r \in Request :
                  pc[r] = "write" /\ reply'[r] # "ok" /\ reply'[r] # reply[r] => UNCHANGED tables
<1>1. IInv /\ [Next]_vars => [A]_vars
  <2>1. ASSUME IInv, NEW r \in Request, RequestStep(r), NEW q \in Request,
               pc[q] = "write", reply'[q] # "ok", reply'[q] # reply[q]
        PROVE  UNCHANGED tables
    <3>1. q = r
      BY <2>1, OthersUnmoved DEF IInv, Unmoved
    <3>2. CASE CreateFrameVersion(r)
      <4>1. ASSUME Finish(r, "ok") PROVE reply'[r] = "ok"
        BY <2>1, <4>1 DEF Finish, IInv, TypeOK
      <4> QED
        BY <2>1, <3>1, <3>2, <4>1 DEF CreateFrameVersion, RolledBack
    <3>3. CASE ~CreateFrameVersion(r) /\ ~DeleteFrame(r)
      BY <2>1, <3>3 DEF RequestStep, Receive, LookUpFrame, CheckRead, ReadVersion, ReadEdges,
         ReadExcludes, NameParent, FindFrame, CheckEdit, ResolveExtend, ResolveExclude,
         CheckDelete, FrameChildren, StoreError
    <3>4. ~DeleteFrame(r)
      BY <2>1, <3>1 DEF DeleteFrame
    <3> QED
      BY <3>2, <3>3, <3>4
  <2> QED
    BY <2>1 DEF Next
<1> QED
  BY <1>1, Inductive, PTL DEF Spec, FailedPublishWritesNothing

-----------------------------------------------------------------------------
(* Refinement.                                                             *)

\* A frame that is not there yet belongs to who publishes it.
NewFramesAreMine == \A r \in Request : isNew[r] => \A f \in frame[r] : f.owner = Me(r).sub

\* Every step keeps new frames their publisher's.
LEMMA NewFramesPreserved == IInv /\ NewFramesAreMine /\ [Next]_vars => NewFramesAreMine'
<1>1. ASSUME IInv, NewFramesAreMine, NEW r \in Request, RequestStep(r), NEW q \in Request,
             isNew'[q], NEW f \in frame'[q]
      PROVE  f.owner = call'[q].caller.sub
  <2>1. TypeOK /\ HandlersOK
    BY <1>1 DEF IInv
  <2>2. CASE q # r
    BY <1>1, <2>1, <2>2, OthersUnmoved DEF Unmoved, NewFramesAreMine, Me
  <2>3. CASE q = r /\ FindFrame(r)
    <3>1. ~isNew[r]
      BY <2>1, <2>3 DEF FindFrame, HandlersOK, HandlerOK, Settled
    <3> QED
      BY <1>1, <2>1, <2>3, <3>1 DEF FindFrame, Finish, Continue, Goto, Me, TypeOK
  <2>4. CASE q = r /\ (Receive(r) \/ LookUpFrame(r) \/ CheckRead(r) \/ ReadExcludes(r) \/ CheckEdit(r))
    <3>1. ~isNew[r]
      BY <2>1, <2>4 DEF Receive, LookUpFrame, CheckRead, ReadExcludes, CheckEdit,
                        HandlersOK, HandlerOK, Settled
    <3> QED
      BY <1>1, <2>1, <2>4, <3>1 DEF Receive, LookUpFrame, CheckRead, ReadExcludes, CheckEdit,
                                    Finish, Continue, Goto, TypeOK
  <2>5. CASE q = r /\ (ReadVersion(r) \/ ReadEdges(r) \/ NameParent(r) \/ ResolveExtend(r)
                       \/ ResolveExclude(r) \/ CreateFrameVersion(r) \/ CheckDelete(r)
                       \/ FrameChildren(r) \/ DeleteFrame(r) \/ StoreError(r))
    <3>1. isNew' = isNew /\ frame' = frame /\ call' = call
      BY <1>1, <2>1, <2>5 DEF ReadVersion, ReadEdges, NameParent, ResolveExtend, ResolveExclude,
         CreateFrameVersion, CheckDelete, FrameChildren, DeleteFrame, StoreError,
         Finish, Continue, Goto, TypeOK
    <3> QED
      BY <1>1, <2>5, <3>1 DEF NewFramesAreMine, Me
  <2> QED
    BY <1>1, <2>2, <2>3, <2>4, <2>5 DEF RequestStep
<1>2. ASSUME NewFramesAreMine, UNCHANGED vars PROVE NewFramesAreMine'
  BY <1>2 DEF NewFramesAreMine, Me, vars
<1> QED
  BY <1>1, <1>2 DEF Next, NewFramesAreMine, Me

\* The commit of a new frame is a creation in the catalog.
LEMMA CommitCreates ==
  ASSUME IInv, NewFramesAreMine, NEW r \in Request, Committed(r), isNew[r]
  PROVE  C!Next
<1> DEFINE f == Frame(r)
           n == NewVersion(r)
<1>1. /\ frame[r] = {f} /\ f.latest = call[r].version /\ f.id \notin Ids(frames)
      /\ ~NameTaken(frames, f)
  BY CommittedHolds DEF Committed
<1>2. n.frame = f.id /\ n.version = f.latest /\ n.by = f.owner
  BY <1>1 DEF NewVersion, NewFramesAreMine
<1>3. frames' = frames \cup {f} /\ versions' = versions \cup {n}
  BY <1>1 DEF Committed, Written, Saved, NewVersion
<1>4. VersionsOf(versions, f.id) = {}
  BY <1>1, ReferredIds DEF VersionsOf
<1> HIDE DEF f, n
<1>5. C!Create(f, n)
  BY <1>1, <1>2, <1>3, <1>4 DEF C!Create, C!FrameGone, C!Ids, Ids,
     VersionsOf, C!VersionsOf, NameTaken, C!NameTaken, GetFrameBySlugName, C!GetFrameBySlugName
<1> QED
  BY <1>3, <1>5 DEF C!Next

\* The commit of an update is an advance in the catalog, of the frame's row as
\* it is now.
LEMMA CommitAdvances ==
  ASSUME IInv, NEW r \in Request, Committed(r), ~isNew[r]
  PROVE  C!Next
<1> DEFINE f == Frame(r)
           n == NewVersion(r)
<1>1. /\ f \in FrameRow /\ frame[r] = {f} /\ f.latest = call[r].version
      /\ ~VersionTaken(versions, f.id, f.latest)
  BY CommittedHolds DEF Committed
<1>2. n.frame = f.id /\ n.version = f.latest
  BY <1>1 DEF NewVersion
<1>3. versions' = versions \cup {n}
  BY DEF Committed, Written, NewVersion
<1>4. frames' = {IF h.id = f.id THEN f ELSE h : h \in frames}
  BY DEF Committed, Written, Saved
<1>5. PICK g \in frames : g.id = f.id /\ SameFrame(g, f)
  BY CommittedFrame
<1>6. g \in FrameRow /\ \A h \in frames : h.id = g.id => h = g
  BY DEF IInv, TypeOK, ReferencesResolve
<1> HIDE DEF f, n
<1>7. f = [g EXCEPT !.latest = n.version]
  BY <1>1, <1>2, <1>5, <1>6 DEF FrameRow, SameFrame
<1>8. frames' = (frames \ {g}) \cup {f}
  BY <1>4, <1>5, <1>6
<1>9. C!Advance(g, n)
  BY <1>1, <1>2, <1>3, <1>5, <1>7, <1>8 DEF C!Advance,
     VersionTaken, C!VersionTaken, VersionsOf, C!VersionsOf
<1> QED
  BY <1>3, <1>9 DEF C!Next

\* A delete is a removal, or changes nothing.
LEMMA DeleteRemoves ==
  ASSUME IInv, NEW r \in Request, DeleteFrame(r)
  PROVE  [C!Next]_C!catalog
<1> DEFINE id == Frame(r).id
<1>1. CASE UNCHANGED tables
  BY <1>1 DEF tables, C!catalog
<1>2. CASE /\ ~FrameGone(frames, id)
           /\ frames' = {f \in frames : f.id # id}
           /\ versions' = {v \in versions : v.frame \notin Cascade(id)}
  <2> HIDE DEF id
  <2>1. PICK g \in frames : g.id = id
    BY <1>2 DEF FrameGone, Ids
  <2>2. \A h \in frames : h.id = id => h = g
    BY <2>1 DEF IInv, ReferencesResolve
  <2>3. C!Withdraw(g)
    BY <1>2, <2>1, <2>2 DEF C!Withdraw, Cascade, C!VersionsOf
  <2> QED
    BY <2>1, <2>3 DEF C!Next
<1> QED
  BY <1>1, <1>2 DEF DeleteFrame

\* Every step of every handler is a step of the catalog or none of its business.
LEMMA NextRefines == IInv /\ NewFramesAreMine /\ [Next]_vars => [C!Next]_C!catalog
<1>1. ASSUME IInv, NewFramesAreMine, NEW r \in Request, RequestStep(r)
      PROVE  [C!Next]_C!catalog
  <2>1. CASE UNCHANGED tables
    BY <2>1 DEF tables, C!catalog
  <2>2. CASE Committed(r)
    BY <1>1, <2>2, CommitCreates, CommitAdvances
  <2>3. CASE DeleteFrame(r)
    BY <1>1, <2>3, DeleteRemoves
  <2> QED
    BY <1>1, <2>1, <2>2, <2>3, OnlyTransactionsWrite
<1>2. ASSUME UNCHANGED vars PROVE [C!Next]_C!catalog
  BY <1>2 DEF vars, tables, C!catalog
<1> QED
  BY <1>1, <1>2 DEF Next

\* However the steps of requests interleave, what clients see of frames and
\* versions changes as if every request ran alone.
THEOREM Refinement == Spec => ImplementsCatalog
<1>1. Init => C!Init
  BY DEF Init, C!Init
<1>2. Init => NewFramesAreMine
  BY DEF Init, NewFramesAreMine
<1> QED
  BY <1>1, <1>2, Inductive, NewFramesPreserved, NextRefines, PTL DEF Spec, ImplementsCatalog, C!Spec

=============================================================================
