------------------------------ MODULE Catalog ------------------------------
(***************************************************************************)
(* What the registry promises a client that knows nothing of requests: a   *)
(* set of named frames, each with its versions.  A publish puts a new      *)
(* frame there with its first version, or adds one version to a frame and  *)
(* makes it the latest; a delete takes a frame with all it has.  Registry  *)
(* implements it (see Registry!ImplementsCatalog).                         *)
(***************************************************************************)
EXTENDS RegistryStore

VARIABLES
  frames,   \* the frames there are
  versions  \* the published versions

catalog == <<frames, versions>>

\* Nothing at all is published when the registry starts.
Init == frames = {} /\ versions = {}

\* A frame under a name nobody has, owned by who published its first version.
Create(f, v) ==
  /\ FrameGone(frames, f.id) /\ VersionsOf(versions, f.id) = {}
  /\ ~NameTaken(frames, f)
  /\ v.frame = f.id /\ v.version = f.latest /\ v.by = f.owner
  /\ frames' = frames \cup {f}
  /\ versions' = versions \cup {v}

\* One more version of frame f, which stays what it is but for its latest.
Advance(f, v) ==
  /\ v.frame = f.id /\ ~VersionTaken(versions, f.id, v.version)
  /\ frames' = (frames \ {f}) \cup {[f EXCEPT !.latest = v.version]}
  /\ versions' = versions \cup {v}

\* A frame goes, and its versions; nobody else's do.
Withdraw(f) ==
  /\ frames' = frames \ {f}
  /\ versions' = versions \ VersionsOf(versions, f.id)

Next ==
  \/ \E f \in frames', v \in versions' : Create(f, v)
  \/ \E f \in frames, v \in versions' : Advance(f, v)
  \/ \E f \in frames : Withdraw(f)

Spec == Init /\ [][Next]_catalog

=============================================================================
