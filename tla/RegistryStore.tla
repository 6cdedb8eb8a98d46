--------------------------- MODULE RegistryStore ---------------------------
(***************************************************************************)
(* The tables frames, frame_versions, frame_extends and frame_excludes of  *)
(* the SQLite store, as operators on sets of rows: what the statements and *)
(* the two transactions of backend/internal/store/sqlite/sqlite.go select, *)
(* refuse and leave behind.                                                *)
(*                                                                         *)
(* frame_grants has no rows of its own here.  The grants of a frame are    *)
(* written with it, from its owner and organization (rbac.DefaultGrants),  *)
(* nothing changes either, and the rows go when the frame goes: Granted    *)
(* reads them off the frame.                                               *)
(***************************************************************************)
EXTENDS Integers, FiniteSets, Sequences

CONSTANTS
  Org,        \* organizations
  Sub,        \* subjects
  Name,       \* frame names
  Version,    \* version strings
  Rank,       \* function: place of a version in the order, 0 when it has none
  NoVersion,  \* no version given
  NoOrg,      \* a reference that names no organization
  FrameId     \* bound: the frame ids newID may return

ASSUME RegistryStoreAssumption ==
  /\ Rank \in [Version -> Nat]
  /\ NoVersion \notin Version
  /\ NoOrg \notin Org

FrameRow == [id : FrameId, org : Org, name : Name, owner : Sub, latest : Version]

\* A parent pinned to a version; a bare name means the publisher's own org.
ExtendRef == [org : Org, name : Name, version : Version]
ExcludeRef == [org : Org \cup {NoOrg}, name : Name]

\* The stored document, as far as its lists of references go.
VersionRow == [frame : FrameId, version : Version, by : Sub,
               extends : Seq(ExtendRef), excludes : Seq(ExcludeRef)]

\* store.ParentEdge, and the row it becomes.
ParentEdge == [parent : FrameId, pinned : Version, index : Nat]
EdgeRow == [frame : FrameId, version : Version, edge : ParentEdge]
ExcludeRow == [frame : FrameId, version : Version, excluded : FrameId]

\* Both versions have an order and the first comes before the second.
Older(v, w) == Rank[v] > 0 /\ Rank[w] > 0 /\ Rank[v] < Rank[w]

-----------------------------------------------------------------------------
(* Queries.                                                                *)

Ids(frames) == {f.id : f \in frames}

GetFrameBySlugName(frames, org, name) == {f \in frames : f.org = org /\ f.name = name}

\* A query that selects versions by their number alone.
MutVersionsOf(versions, id) == versions

VersionsOf(versions, id) == {v \in versions : v.frame = id}

EdgesOf(extends, id, version) ==
  {e.edge : e \in {x \in extends : x.frame = id /\ x.version = version}}

\* Frames other than the frame itself with an edge to it.
Children(extends, id) == {e.frame : e \in {x \in extends : x.edge.parent = id}} \ {id}

\* Grants matched whatever their permission: everybody who may read.
MutGranted(frames, id, sub, org, perm) == \E f \in frames : f.id = id /\ f.org = org

\* FrameGrants of a frame that may be gone, matched as rbac.Can does.
Granted(frames, id, sub, org, perm) ==
  \E f \in frames : /\ f.id = id
                    /\ IF perm = "read" THEN f.org = org ELSE f.owner = sub

-----------------------------------------------------------------------------
(* The transactions.                                                       *)

\* UNIQUE (org_id, name).
NameTaken(frames, f) == GetFrameBySlugName(frames, f.org, f.name) # {}

\* PRIMARY KEY (frame_id, version).
VersionTaken(versions, id, version) == \E v \in VersionsOf(versions, id) : v.version = version

\* The foreign keys switched off, as SQLite has them by default.
MutFrameGone(frames, id) == FALSE

\* The foreign key of frame_versions: a version needs its frame.
FrameGone(frames, id) == id \notin Ids(frames)

\* What frame_extends refuses: a parent that is gone, or one pinned twice to
\* the same version.
BadEdges(frames, edges) ==
  \/ \E e \in edges : FrameGone(frames, e.parent)
  \/ \E e, d \in edges : e # d /\ e.parent = d.parent /\ e.pinned = d.pinned

\* What frame_excludes refuses: the same frame twice.  A frame that is gone is
\* no obstacle, the column has no foreign key.
BadExcludes(ids) == \E i, j \in DOMAIN ids : i # j /\ ids[i] = ids[j]

EdgeRows(id, version, edges) == {[frame |-> id, version |-> version, edge |-> e] : e \in edges}

ExcludeRows(id, version, ids) ==
  {[frame |-> id, version |-> version, excluded |-> ids[i]] : i \in DOMAIN ids}

\* The ids a row of any table mentions.
Mentioned(frames, excludes) == Ids(frames) \cup {x.excluded : x \in excludes}

=============================================================================
