------------------------------ MODULE Registry ------------------------------
(***************************************************************************)
(* Publishing, updating, reading and deleting frames: Service.publish with *)
(* its callers PublishFrame and the MCP tools create_frame and             *)
(* update_frame, GetFrame and DeleteFrame (backend/internal/frames,        *)
(* backend/internal/mcp/write.go).                                         *)
(*                                                                         *)
(* A request is a process that makes one repository call per action.  Its  *)
(* caller is resolved when it arrives (see Membership.tla) and keeps that  *)
(* role to the end, whatever happens to the membership meanwhile.          *)
(***************************************************************************)
EXTENDS RegistryStore

CONSTANTS
  Request,  \* handlers running at once
  Call      \* requests clients may send, with their resolved callers

VARIABLES
  frames,         \* the rows of frames
  versions,       \* the rows of frame_versions
  frame_extends,  \* the rows of frame_extends
  frame_excludes, \* the rows of frame_excludes
  pc,             \* the next repository call of each request
  call,           \* what the client asked for
  frame,          \* the frame a handler works on, as a set of at most one
  isNew,          \* publish: the frame was not there when it was looked up
  row,            \* the version row a handler has read, as a set of at most one
  edges,          \* the parents read or resolved so far
  excludeIDs,     \* the excluded frames resolved so far
  reply           \* how the last request of each process ended

tables == <<frames, versions, frame_extends, frame_excludes>>
vars == <<tables, pc, call, frame, isNew, row, edges, excludeIDs, reply>>

Caller == [sub : Sub, org : Org, role : {"viewer", "publisher", "admin"}]

\* get: GetFrame; publish: PublishFrame and create_frame; update: update_frame.
\* An update that keeps takes its references from the document it read.
CallType == [op : {"get", "publish", "update", "delete"}, caller : Caller,
             org : Org, name : Name, version : Version \cup {NoVersion},
             intent : {"upsert", "create", "update"}, base : Version \cup {NoVersion},
             extends : Seq(ExtendRef), excludes : Seq(ExcludeRef),
             keep : BOOLEAN, force : BOOLEAN]

ASSUME RegistryAssumption ==
  /\ Call \subseteq CallType /\ Call # {}
  /\ \A c \in Call : /\ c.op \in {"publish", "update"} => c.version # NoVersion
                     /\ c.op = "update" => c.intent = "update" /\ c.base # NoVersion
                     /\ c.op = "publish" => c.base = NoVersion /\ ~c.keep

Step == {"idle", "get", "can_read", "version", "edges", "excludes", "parents",
         "find", "can_edit", "extend", "exclude", "write",
         "can_delete", "children", "delete"}

Reply == {"none", "ok", "not_found", "already_exists", "permission_denied",
          "failed_precondition", "invalid_argument", "internal", "store_error"}

\* Every row of the tables and every local variable of a handler is well formed;
\* a lookup gives a handler one frame and one version.
TypeOK ==
  /\ frames \subseteq FrameRow /\ versions \subseteq VersionRow
  /\ frame_extends \subseteq EdgeRow /\ frame_excludes \subseteq ExcludeRow
  /\ pc \in [Request -> Step]
  /\ call \in [Request -> Call]
  /\ frame \in [Request -> SUBSET FrameRow]
  /\ isNew \in [Request -> BOOLEAN]
  /\ row \in [Request -> SUBSET VersionRow]
  /\ edges \in [Request -> SUBSET ParentEdge]
  /\ excludeIDs \in [Request -> Seq(FrameId)]
  /\ \A r \in Request : (\A f, g \in frame[r] : f = g) /\ (\A v, w \in row[r] : v = w)
  /\ reply \in [Request -> Reply]

-----------------------------------------------------------------------------
(* Steps every handler is made of.                                         *)

Goto(r, step) == pc' = [pc EXCEPT ![r] = step]

\* The value of call[r] while no client is waiting; it means nothing.
AnyCall == CHOOSE c \in Call : TRUE

\* The handler returns: the request's local variables are gone.
Finish(r, code) ==
  /\ Goto(r, "idle")
  /\ call' = [call EXCEPT ![r] = AnyCall]
  /\ frame' = [frame EXCEPT ![r] = {}]
  /\ isNew' = [isNew EXCEPT ![r] = FALSE]
  /\ row' = [row EXCEPT ![r] = {}]
  /\ edges' = [edges EXCEPT ![r] = {}]
  /\ excludeIDs' = [excludeIDs EXCEPT ![r] = <<>>]
  /\ reply' = [reply EXCEPT ![r] = code]

\* The handler goes on; the variables it may set are the caller's to give.
Continue(r, step) == Goto(r, step) /\ UNCHANGED <<call, reply>>

Frame(r) == CHOOSE f \in frame[r] : TRUE
Row(r) == CHOOSE v \in row[r] : TRUE
Me(r) == call[r].caller

CanPublish(caller) == caller.role \in {"publisher", "admin"}

\* rbac.Can without its first check.
MutCan(caller, f, perm) == caller.role = "admin" \/ perm = "read"
                           \/ Granted(frames, f.id, caller.sub, caller.org, perm)

\* rbac.Can: cross-org deny, admin allow, then the frame's grants.
Can(caller, f, perm) ==
  /\ f.org = caller.org
  /\ caller.role = "admin" \/ Granted(frames, f.id, caller.sub, caller.org, perm)

\* splitRef: a bare name is a frame of the caller's organization.
OrgOf(ref, caller) == IF ref.org = NoOrg THEN caller.org ELSE ref.org

\* applyTo over a composed document that has lost its parents.
MutDocument(r) == [extends |-> call[r].extends, excludes |-> call[r].excludes]

\* applyTo: an update that leaves the references out keeps those it has read.
Document(r) ==
  IF call[r].keep THEN [extends |-> Row(r).extends, excludes |-> Row(r).excludes]
                  ELSE [extends |-> call[r].extends, excludes |-> call[r].excludes]

\* publish after i parents and j excluded frames are resolved.
Resolving(r, i, j) ==
  IF i < Len(Document(r).extends) THEN "extend"
  ELSE IF j < Len(Document(r).excludes) THEN "exclude" ELSE "write"

-----------------------------------------------------------------------------
(* A client's request, its caller resolved.                                *)

FirstStep(c) == CASE c.op = "publish" -> "find"
                  [] OTHER -> "get"

\* authorizePublish comes before anything else a publish does.
Receive(r) ==
  /\ pc[r] = "idle"
  /\ \E c \in Call :
       \/ /\ c.op = "publish" /\ ~CanPublish(c.caller)
          /\ Finish(r, "permission_denied")
       \/ /\ c.op # "publish" \/ CanPublish(c.caller)
          /\ Goto(r, FirstStep(c))
          /\ call' = [call EXCEPT ![r] = c]
          /\ reply' = [reply EXCEPT ![r] = "none"]
          /\ UNCHANGED <<frame, isNew, row, edges, excludeIDs>>
  /\ UNCHANGED tables

-----------------------------------------------------------------------------
(* loadForRead, for GetFrame and for the SourceDoc of an update; DeleteFrame *)
(* starts the same way.                                                    *)

LookUpFrame(r) ==
  /\ pc[r] = "get"
  /\ LET org == IF call[r].op = "update" THEN Me(r).org ELSE call[r].org
         found == GetFrameBySlugName(frames, org, call[r].name)
     IN \/ found = {} /\ Finish(r, "not_found")
        \/ /\ found # {}
           /\ frame' = [frame EXCEPT ![r] = found]
           /\ Continue(r, IF call[r].op = "delete" THEN "can_delete" ELSE "can_read")
           /\ UNCHANGED <<isNew, row, edges, excludeIDs>>
  /\ UNCHANGED tables

CheckRead(r) ==
  /\ pc[r] = "can_read"
  /\ LET allowed == Can(Me(r), Frame(r), "read") IN
     \/ ~allowed /\ Finish(r, "not_found")
     \/ /\ allowed /\ Continue(r, "version")
        /\ UNCHANGED <<frame, isNew, row, edges, excludeIDs>>
  /\ UNCHANGED tables

\* The latest version, as the frame was read, unless the client named one.
Wanted(r) == IF call[r].op = "get" /\ call[r].version # NoVersion
               THEN call[r].version ELSE Frame(r).latest

\* GetFrameVersion is three queries: the row ...
ReadVersion(r) ==
  /\ pc[r] = "version"
  /\ LET found == {v \in VersionsOf(versions, Frame(r).id) : v.version = Wanted(r)} IN
     \/ found = {} /\ Finish(r, "not_found")
     \/ /\ found # {}
        /\ row' = [row EXCEPT ![r] = found]
        /\ Continue(r, "edges")
        /\ UNCHANGED <<frame, isNew, edges, excludeIDs>>
  /\ UNCHANGED tables

\* ... its parents ...
ReadEdges(r) ==
  /\ pc[r] = "edges"
  /\ edges' = [edges EXCEPT ![r] = EdgesOf(frame_extends, Row(r).frame, Row(r).version)]
  /\ Continue(r, "excludes")
  /\ UNCHANGED <<tables, frame, isNew, row, excludeIDs>>

\* ... and its excludes, which the reply only names.  An update keeps the
\* document alone and turns to publishing, if its caller may.
ReadExcludes(r) ==
  /\ pc[r] = "excludes"
  /\ \/ /\ call[r].op = "get"
        /\ Continue(r, "parents")
        /\ UNCHANGED <<frame, isNew, row, edges, excludeIDs>>
     \/ /\ call[r].op = "update" /\ ~CanPublish(Me(r))
        /\ Finish(r, "permission_denied")
     \/ /\ call[r].op = "update" /\ CanPublish(Me(r))
        /\ Continue(r, "find")
        /\ frame' = [frame EXCEPT ![r] = {}]
        /\ edges' = [edges EXCEPT ![r] = {}]
        /\ UNCHANGED <<isNew, row, excludeIDs>>
  /\ UNCHANGED tables

\* GetFrame names one parent at a time; a parent that is gone fails the read.
NameParent(r) ==
  /\ pc[r] = "parents"
  /\ \/ edges[r] = {} /\ Finish(r, "ok")
     \/ \E e \in edges[r] :
          \/ FrameGone(frames, e.parent) /\ Finish(r, "internal")
          \/ /\ ~FrameGone(frames, e.parent)
             /\ edges' = [edges EXCEPT ![r] = @ \ {e}]
             /\ Continue(r, "parents")
             /\ UNCHANGED <<frame, isNew, row, excludeIDs>>
  /\ UNCHANGED tables

-----------------------------------------------------------------------------
(* Service.publish.                                                        *)

\* Ids somebody still holds.  newID is random, so a new id is none of them.
HeldIds == UNION {{f.id : f \in frame[q]} \cup {v.frame : v \in row[q]}
                  \cup {e.parent : e \in edges[q]}
                  \cup {excludeIDs[q][i] : i \in DOMAIN excludeIDs[q]} : q \in Request}

FreshIds == FrameId \ (Mentioned(frames, frame_excludes) \cup HeldIds)

\* The frame by name, and whether the intent allows what was found.
FindFrame(r) ==
  /\ pc[r] = "find"
  /\ LET c == call[r]
         found == GetFrameBySlugName(frames, Me(r).org, c.name)
     IN \/ /\ found = {} /\ c.intent = "update"
           /\ Finish(r, "not_found")
        \/ /\ found # {} /\ c.intent = "create"
           /\ Finish(r, "already_exists")
        \/ /\ found = {} /\ c.intent # "update"
           /\ FreshIds # {}
           /\ LET id == CHOOSE i \in FreshIds : TRUE IN
              frame' = [frame EXCEPT ![r] = {[id |-> id, org |-> Me(r).org, name |-> c.name,
                                              owner |-> Me(r).sub, latest |-> c.version]}]
           /\ isNew' = [isNew EXCEPT ![r] = TRUE]
           /\ Continue(r, Resolving(r, 0, 0))
           /\ UNCHANGED <<row, edges, excludeIDs>>
        \/ /\ found # {} /\ c.intent # "create"
           /\ frame' = [frame EXCEPT ![r] = found]
           /\ Continue(r, "can_edit")
           /\ UNCHANGED <<isNew, row, edges, excludeIDs>>
  /\ UNCHANGED tables

\* Without the base_version check.
MutMovedOn(f, c) == FALSE
MovedOn(f, c) == c.base # NoVersion /\ f.latest # c.base

\* Without the monotonic check.
MutGoesBack(f, c) == FALSE
GoesBack(f, c) == Older(c.version, f.latest)

\* Edit permission, then the two version checks, on the frame as it was read.
CheckEdit(r) ==
  /\ pc[r] = "can_edit"
  /\ LET f == Frame(r)
         c == call[r]
         allowed == Can(Me(r), f, "edit")
     IN \/ /\ ~allowed
           /\ Finish(r, "permission_denied")
        \/ /\ allowed /\ MovedOn(f, c)
           /\ Finish(r, "failed_precondition")
        \/ /\ allowed /\ ~MovedOn(f, c) /\ GoesBack(f, c)
           /\ Finish(r, "invalid_argument")
        \/ /\ allowed /\ ~MovedOn(f, c) /\ ~GoesBack(f, c)
           /\ frame' = [frame EXCEPT ![r] = {[f EXCEPT !.latest = c.version]}]
           /\ Continue(r, Resolving(r, 0, 0))
           /\ UNCHANGED <<isNew, row, edges, excludeIDs>>
  /\ UNCHANGED tables

\* The frame a reference names, if the caller may read it.  The lookup and the
\* read check are two queries; whatever happens between them, the outcome is
\* the one of doing both at the second.
Readable(r, org, name) ==
  {f \in GetFrameBySlugName(frames, org, name) : Can(Me(r), f, "read")}

\* resolveEdges, one reference.
ResolveExtend(r) ==
  /\ pc[r] = "extend"
  /\ LET i == Cardinality(edges[r])
         ref == Document(r).extends[i + 1]
         found == Readable(r, OrgOf(ref, Me(r)), ref.name)
     IN \/ found = {} /\ Finish(r, "invalid_argument")
        \/ \E f \in found :
             /\ edges' = [edges EXCEPT ![r] = @ \cup {[parent |-> f.id, pinned |-> ref.version, index |-> i]}]
             /\ Continue(r, Resolving(r, i + 1, 0))
             /\ UNCHANGED <<frame, isNew, row, excludeIDs>>
  /\ UNCHANGED tables

\* resolveExcludes, one reference.
ResolveExclude(r) ==
  /\ pc[r] = "exclude"
  /\ LET j == Len(excludeIDs[r])
         ref == Document(r).excludes[j + 1]
         found == Readable(r, OrgOf(ref, Me(r)), ref.name)
     IN \/ found = {} /\ Finish(r, "invalid_argument")
        \/ \E f \in found :
             /\ excludeIDs' = [excludeIDs EXCEPT ![r] = Append(@, f.id)]
             /\ Continue(r, Resolving(r, Len(Document(r).extends), j + 1))
             /\ UNCHANGED <<frame, isNew, row, edges>>
  /\ UNCHANGED tables

\* The rows of frames after the INSERT or the UPDATE by id.
Saved(r) == IF isNew[r] THEN frames \cup frame[r]
                        ELSE {IF f.id = Frame(r).id THEN Frame(r) ELSE f : f \in frames}

\* The duplicate version is reported, the UPDATE before it is kept.
MutRolledBack(r) ==
  /\ frames' = IF isNew[r] THEN frames ELSE Saved(r)
  /\ UNCHANGED <<versions, frame_extends, frame_excludes>>

\* A statement of the transaction fails: none has happened.
RolledBack(r) == UNCHANGED tables

\* The rows the transaction writes: the frame, the version, its references.
Written(r) ==
  LET f == Frame(r)
      doc == Document(r)
      v == call[r].version
  IN /\ frames' = Saved(r)
     /\ versions' = versions \cup {[frame |-> f.id, version |-> v, by |-> Me(r).sub,
                                    extends |-> doc.extends, excludes |-> doc.excludes]}
     /\ frame_extends' = frame_extends \cup EdgeRows(f.id, v, edges[r])
     /\ frame_excludes' = frame_excludes \cup ExcludeRows(f.id, v, excludeIDs[r])

\* One transaction, with no check that the frame is still as it was read.
CreateFrameVersion(r) ==
  /\ pc[r] = "write"
  /\ LET f == Frame(r)
         exists == IF isNew[r] THEN NameTaken(frames, f)
                               ELSE VersionTaken(versions, f.id, call[r].version)
         refused == \/ ~isNew[r] /\ FrameGone(frames, f.id)
                    \/ BadEdges(frames, edges[r]) \/ BadExcludes(excludeIDs[r])
     IN \/ exists /\ RolledBack(r) /\ Finish(r, "already_exists")
        \/ ~exists /\ refused /\ RolledBack(r) /\ Finish(r, "internal")
        \/ ~exists /\ ~refused /\ Written(r) /\ Finish(r, "ok")

-----------------------------------------------------------------------------
(* DeleteFrame, after the lookup.                                          *)

CheckDelete(r) ==
  /\ pc[r] = "can_delete"
  /\ LET allowed == Can(Me(r), Frame(r), "delete") IN
     \/ ~allowed /\ Finish(r, "not_found")
     \/ /\ allowed /\ Continue(r, "children")
        /\ UNCHANGED <<frame, isNew, row, edges, excludeIDs>>
  /\ UNCHANGED tables

\* A delete that does not ask for children.
MutBlocked(r) == FALSE

\* A frame with children is deleted only by force.
Blocked(r) == Children(frame_extends, Frame(r).id) # {} /\ ~call[r].force

FrameChildren(r) ==
  /\ pc[r] = "children"
  /\ \/ Blocked(r) /\ Finish(r, "failed_precondition")
     \/ /\ ~Blocked(r) /\ Continue(r, "delete")
        /\ UNCHANGED <<frame, isNew, row, edges, excludeIDs>>
  /\ UNCHANGED tables

\* The versions a delete takes along, were the cascade to follow the edges.
MutCascade(id) == {id} \cup Children(frame_extends, id)

\* Whose versions go with the frame.
Cascade(id) == {id}

\* One transaction: detach the children, then delete the frame, its versions
\* and their references.
DeleteFrame(r) ==
  /\ pc[r] = "delete"
  /\ LET id == Frame(r).id IN
     \/ /\ FrameGone(frames, id)
        /\ UNCHANGED tables
        /\ Finish(r, "not_found")
     \/ /\ ~FrameGone(frames, id)
        /\ frames' = {f \in frames : f.id # id}
        /\ versions' = {v \in versions : v.frame \notin Cascade(id)}
        /\ frame_extends' = {e \in frame_extends : e.frame # id /\ e.edge.parent # id}
        /\ frame_excludes' = {x \in frame_excludes : x.frame # id}
        /\ Finish(r, "ok")

\* The repository call fails, the client goes away, or the process dies: the
\* open transaction is rolled back and the handler is gone.
StoreError(r) ==
  /\ pc[r] # "idle"
  /\ Finish(r, "store_error")
  /\ UNCHANGED tables

-----------------------------------------------------------------------------
Init ==
  /\ frames = {} /\ versions = {} /\ frame_extends = {} /\ frame_excludes = {}
  /\ pc = [r \in Request |-> "idle"]
  /\ call = [r \in Request |-> AnyCall]
  /\ frame = [r \in Request |-> {}]
  /\ isNew = [r \in Request |-> FALSE]
  /\ row = [r \in Request |-> {}]
  /\ edges = [r \in Request |-> {}]
  /\ excludeIDs = [r \in Request |-> <<>>]
  /\ reply = [r \in Request |-> "none"]

RequestStep(r) ==
  \/ Receive(r) \/ LookUpFrame(r) \/ CheckRead(r) \/ ReadVersion(r) \/ ReadEdges(r)
  \/ ReadExcludes(r) \/ NameParent(r) \/ FindFrame(r) \/ CheckEdit(r)
  \/ ResolveExtend(r) \/ ResolveExclude(r) \/ CreateFrameVersion(r)
  \/ CheckDelete(r) \/ FrameChildren(r) \/ DeleteFrame(r) \/ StoreError(r)

Next == \E r \in Request : RequestStep(r)

Spec == Init /\ [][Next]_vars

-----------------------------------------------------------------------------
(* Safety.                                                                 *)

\* However publishes and deletes interleave: a name belongs to one frame of an
\* organization, what a frame calls its latest version has been published,
\* every version has its frame, and every inheritance edge leads from a
\* published version to a frame that exists (the transactions of sqlite.go).
ReferencesResolve ==
  /\ \A f, g \in frames : f.id = g.id \/ (f.org = g.org /\ f.name = g.name) => f = g
  /\ \A f \in frames : \E v \in VersionsOf(versions, f.id) : v.version = f.latest
  /\ \A v \in versions : v.frame \in Ids(frames)
  /\ \A v, w \in versions : v.frame = w.frame /\ v.version = w.version => v = w
  /\ \A e \in frame_extends :
       /\ \E v \in VersionsOf(versions, e.frame) : v.version = e.version
       /\ e.edge.parent \in Ids(frames)

\* Organizations are isolated: no edge crosses them, whatever references a
\* document carries and whoever deletes and re-creates the frames they name
\* (resolveEdges), and no handler holds a version of another's (loadForRead).
OrgsAreIsolated ==
  /\ \A e \in frame_extends, f, p \in frames :
       f.id = e.frame /\ p.id = e.edge.parent => f.org = p.org
  /\ \A r \in Request : \A v \in row[r], f \in frames :
       f.id = v.frame => f.org = Me(r).org

\* What was published is never rewritten: a version changes in nothing and goes
\* only with its own frame, never with a parent's; its excludes go with it, and
\* an inheritance edge goes only when one of its two frames is deleted.
PublishedIsImmutable ==
  [][/\ \A v \in versions : v \in versions' \/ v.frame \notin Ids(frames')
     /\ \A x \in frame_excludes : x \in frame_excludes' \/ x.frame \notin Ids(frames')
     /\ \A e \in frame_extends : \/ e \in frame_extends'
                                 \/ e.frame \notin Ids(frames')
                                 \/ e.edge.parent \notin Ids(frames')
    ]_vars

\* The tables of frames and versions are the catalog, whatever the handlers hold.
C == INSTANCE Catalog WITH frames <- frames, versions <- versions

\* Requests that read in several steps and write in one show their clients a
\* catalog that changes in one step: every transaction is a creation under a
\* free name, one more version of an unchanged frame, or a removal, though the
\* frame it writes was read long before (CreateFrameVersion, DeleteFrame).
ImplementsCatalog == C!Spec

\* Caller c administers or owns frame f.
Controls(c, f) == f.org = c.org /\ (c.role = "admin" \/ f.owner = c.sub)

\* Only its owner or an admin of its organization gives a frame a version or
\* deletes it: not somebody who looked up the name while another frame had it.
OwnersWrite ==
  [][/\ \A v \in versions' \ versions : \A f \in frames :
          f.id = v.frame => \E r \in Request : pc[r] = "write" /\ Controls(Me(r), f)
     /\ \A f \in frames : f.id \notin Ids(frames') =>
          \E r \in Request : pc[r] = "delete" /\ Controls(Me(r), f)
    ]_vars

\* A publish that fails leaves nothing behind: no row, and no frame whose
\* latest_version has moved to something the publish did not store.
FailedPublishWritesNothing ==
  [][\A r \in Request :
       pc[r] = "write" /\ reply'[r] # "ok" /\ reply'[r] # reply[r] => UNCHANGED tables]_vars

\* update_frame: the version a client based its change on is still the latest
\* when the change is stored, and the document it was merged into is that
\* version's.  It holds for one request at a time.
BaseVersionHonoured ==
  [][\A r \in Request :
       pc[r] = "write" /\ reply'[r] = "ok" /\ call[r].op = "update"
         => /\ \E f \in frames : f.id = Frame(r).id /\ f.latest = call[r].base
            /\ Row(r).frame = Frame(r).id /\ Row(r).version = call[r].base
    ]_vars

\* latest_version never moves back.  It holds for one request at a time.
LatestMovesForward ==
  [][\A f \in frames, g \in frames' : f.id = g.id => ~Older(g.latest, f.latest)]_vars

\* No published version of a frame is newer than its latest_version: "publishing
\* an older version silently unpublishes newer content" (publish).
LatestIsNewest ==
  \A f \in frames : \A v \in VersionsOf(versions, f.id) : ~Older(f.latest, v.version)

\* A frame that has children is not deleted without force.  It holds for one
\* request at a time.
DeleteBlocksOnChildren ==
  [][\A r \in Request :
       pc[r] = "delete" /\ reply'[r] = "ok" /\ ~call[r].force
         => Children(frame_extends, Frame(r).id) = {}]_vars

\* An update that leaves the references out keeps the frame's parents, unless a
\* parent was deleted in between.
UpdateKeepsParents ==
  [][\A r \in Request :
       pc[r] = "write" /\ reply'[r] = "ok" /\ call[r].op = "update" /\ call[r].keep
         => \A e \in EdgesOf(frame_extends, Row(r).frame, Row(r).version) :
              e \in EdgesOf(frame_extends', Frame(r).id, call[r].version)
    ]_vars

\* While GetFrameVersion reads a version's edges and excludes, the version row
\* it has read is still there.
ReadIsWhole ==
  [][\A r \in Request :
       pc[r] \in {"edges", "excludes"} /\ pc'[r] \in {"excludes", "parents", "find"}
         => Row(r) \in versions
    ]_vars

=============================================================================
