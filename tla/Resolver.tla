------------------------------ MODULE Resolver ------------------------------
(***************************************************************************)
(* Reading the catalog while others publish and delete: ResolveDoc with    *)
(* its walk of the ancestors, the lists, and the MCP tools on top of them  *)
(* (backend/internal/frames/resolver.go, service.go; mcp/resources.go).    *)
(*                                                                         *)
(* Readers write nothing and share nothing, so one is enough.  It makes    *)
(* one repository call per step, and the catalog may change between two of *)
(* them by any step that Registry lets clients see (see Catalog).          *)
(***************************************************************************)
EXTENDS Catalog, SequencesExt

CONSTANTS
  Publication,  \* documents their owners may publish
  Deletable,    \* bound: names of the frames that may be deleted
  IdsOf,        \* bound: the ids a frame of each name may get
  Call          \* what the reader may ask for

\* A list, whatever is in it.
Listed(s) == s \in Seq(ToSet(s))

\* Documents hold lists and define a term once (Validate), and a request is a
\* record of these fields.
ASSUME ResolverAssumption ==
  /\ \A p \in Publication :
       /\ Listed(p.extends) /\ Listed(p.excludes) /\ Listed(p.terms) /\ Listed(p.rules)
       /\ \A i, j \in DOMAIN p.terms : p.terms[i] = p.terms[j] => i = j
  /\ \A c \in Call : c = [op |-> c.op, caller |-> c.caller, org |-> c.org, name |-> c.name,
                         version |-> c.version]

VARIABLES
  pc,        \* the reader's next repository call
  call,      \* what it was asked for
  frame,     \* the frame looked up, as a set of at most one
  todo,      \* lists: frames whose rights are still to be checked
  listing,   \* lists: the entries so far
  stack,     \* the walk: the documents from the root down to the current one
  visiting,  \* the walk: the keys of the parents on the stack
  acc,       \* the slots merged so far, at the end the document returned
  page,      \* the list returned
  reply,     \* how the last request ended
  since,     \* history: what has happened to the catalog since its first query
  answered   \* history: the last document returned, until a frame is deleted

local == <<pc, call, frame, todo, listing, stack, visiting, acc, page, reply>>
vars == <<catalog, local, since, answered>>

-----------------------------------------------------------------------------
(* Documents.  A definition or a text is told by where it was written.     *)

Empty == [terms |-> <<>>, rules |-> <<>>, goals |-> {}]

\* The slots of a publication: terms defined, rules listed, goals stated or not.
Slots(p) ==
  LET here == [name |-> p.name, version |-> p.version, by |-> p.by]
  IN [terms |-> [i \in DOMAIN p.terms |-> [term |-> p.terms[i], from |-> here]],
      rules |-> p.rules,
      goals |-> IF p.goals THEN {here} ELSE {}]

\* The members of S in s, in their order.
Filter(s, S) ==
  LET Kept[i \in 0..Len(s)] ==
        IF i = 0 THEN <<>> ELSE IF s[i] \in S THEN Append(Kept[i - 1], s[i]) ELSE Kept[i - 1]
  IN Kept[Len(s)]

\* An incoming definition replaces one of the same term, in its place.
mergeTerms(existing, incoming) ==
  LET Newest(t) == IF \E i \in DOMAIN incoming : incoming[i].term = t.term
                     THEN CHOOSE u \in ToSet(incoming) : u.term = t.term ELSE t
      known == {t.term : t \in ToSet(existing)}
  IN [i \in DOMAIN existing |-> Newest(existing[i])]
     \o Filter(incoming, {t \in ToSet(incoming) : t.term \notin known})

\* The items of s at the places in P, in their order.
Places(s, P) ==
  LET at == Filter([i \in DOMAIN s |-> i], P)
  IN [i \in DOMAIN at |-> s[at[i]]]

\* Concatenation that keeps the last of several equal items.
mergeStrings(existing, incoming) ==
  LET combined == existing \o incoming
      lasts == {i \in DOMAIN combined : \A j \in DOMAIN combined : i < j => combined[j] # combined[i]}
  IN Places(combined, lasts)

replaceIfSet(existing, incoming) == IF incoming # {} THEN incoming ELSE existing

mergeInto(dst, src) == [terms |-> mergeTerms(dst.terms, src.terms),
                        rules |-> mergeStrings(dst.rules, src.rules),
                        goals |-> replaceIfSet(dst.goals, src.goals)]

-----------------------------------------------------------------------------
(* The catalog changes: the steps of Catalog that publish and DeleteFrame  *)
(* let through (see Registry).                                             *)

Find(org, name) == GetFrameBySlugName(frames, org, name)

HeldIds == Ids(frame) \cup {e.frame.id : e \in listing} \cup Ids(todo)

FirstStep(c) == IF c.op \in {"list", "tool", "tool_source"} THEN "list" ELSE "get"

\* What changes before the reader's first query is as good as there already.
Changed(what) ==
  /\ pc # "idle"
  /\ since' = IF pc = FirstStep(call) THEN since ELSE what

\* A parent must exist when the child is published; its version need not.
Publish ==
  /\ Changed(IF since = "delete" THEN since ELSE "publish")
  /\ UNCHANGED <<local, answered>>
  /\ \E p \in Publication :
       /\ \A i \in DOMAIN p.extends : Find(p.extends[i].org, p.extends[i].name) # {}
       /\ \A i \in DOMAIN p.excludes : Find(p.org, p.excludes[i].name) # {}
       /\ LET Doc(id) == [frame |-> id, version |-> p.version, by |-> p.by,
                          extends |-> p.extends, excludes |-> p.excludes, slots |-> Slots(p)]
              fresh == IdsOf[p.name] \ HeldIds
          IN \/ /\ fresh # {}
                /\ LET id == CHOOSE i \in fresh : TRUE IN
                   Create([id |-> id, org |-> p.org, name |-> p.name, owner |-> p.by,
                           latest |-> p.version], Doc(id))
             \/ \E f \in Find(p.org, p.name) :
                  f.owner = p.by /\ ~Older(p.version, f.latest) /\ Advance(f, Doc(f.id))

Delete ==
  /\ \E f \in frames : f.name \in Deletable /\ Withdraw(f)
  /\ Changed("delete")
  /\ answered' = {}
  /\ UNCHANGED local

-----------------------------------------------------------------------------
(* Steps a reader is made of.                                              *)

Goto(step) == pc' = step

\* The value of call while no client is waiting; it means nothing.
NoCall == CHOOSE c \in Call : TRUE

\* The handler returns; what it has merged is the reply's document.
Finish(code) ==
  /\ Goto("idle")
  /\ frame' = {} /\ todo' = {} /\ listing' = {} /\ stack' = <<>> /\ visiting' = {}
  /\ reply' = code
  /\ call' = NoCall

\* It returns an error.
Fail(code) == Finish(code) /\ acc' = Empty /\ page' = {}

\* Everything but these stays as it is.
Keep(kept) == UNCHANGED <<call, page, reply, kept>>

\* rbac.Can, whose last part reads the grants: they go with the frame.
Can(f, perm) ==
  LET c == call.caller IN
  f.org = c.org /\ (c.role = "admin" \/ Granted(frames, f.id, c.sub, c.org, perm))

\* Lookup and read check are two queries; the outcome is the one of doing both
\* at the second, since the grants are gone when the frame is.
Readable(org, name) == {f \in Find(org, name) : Can(f, "read")}

RowsOf(f, version) == {v \in VersionsOf(versions, f.id) : v.version = version}

\* A request, its caller resolved.  Locals mean nothing until it arrives.
Receive ==
  /\ pc = "idle"
  /\ \E c \in Call : /\ call' = c
                     /\ Goto(FirstStep(c))
  /\ reply' = "none" /\ acc' = Empty /\ page' = {}
  /\ since' = "nothing"
  /\ UNCHANGED <<catalog, frame, todo, listing, stack, visiting, answered>>

-----------------------------------------------------------------------------
(* readableFramesInOrg, ListFrames and ListReadable.                       *)

ListFramesByOrg ==
  /\ pc = "list"
  /\ todo' = {f \in frames : f.org = call.caller.org}
  /\ Goto("list_read")
  /\ Keep(<<frame, listing, stack, visiting, acc>>)

\* One frame of the list; the unreadable are left out.
CheckRead ==
  /\ pc = "list_read" /\ todo # {}
  /\ \E f \in todo :
       /\ todo' = todo \ {f}
       /\ listing' = listing \cup IF Can(f, "read") THEN {[frame |-> f, rights |-> {}]} ELSE {}
  /\ Goto("list_read")
  /\ Keep(<<frame, stack, visiting, acc>>)

\* ListReadable ends here; the tool takes the frame of that name from it.
ListRead ==
  /\ pc = "list_read" /\ todo = {}
  /\ LET match == {e \in listing : e.frame.name = call.name}
     IN \/ /\ call.op = "list"
           /\ todo' = {e.frame : e \in listing}
           /\ Goto("list_edit")
           /\ Keep(<<frame, listing, stack, visiting, acc>>)
        \/ /\ call.op # "list" /\ match = {}
           /\ Fail("not_found")
        \/ \E e \in match :
             /\ call.op # "list"
             /\ call' = [call EXCEPT !.org = e.frame.org,
                           !.version = IF @ = NoVersion THEN e.frame.latest ELSE @]
             /\ listing' = {}
             /\ Goto("get")
             /\ UNCHANGED <<frame, todo, stack, visiting, acc, page, reply>>

Grant(f, perm) ==
  listing' = {IF e.frame = f /\ Can(f, perm) THEN [e EXCEPT !.rights = @ \cup {perm}] ELSE e
                : e \in listing}

\* ListFrames asks what the caller may do with each.
CheckEdit ==
  /\ pc = "list_edit"
  /\ \/ /\ todo = {}
        /\ page' = listing /\ UNCHANGED acc
        /\ Finish("ok")
     \/ \E f \in todo :
          /\ Grant(f, "edit")
          /\ frame' = {f} /\ todo' = todo \ {f}
          /\ Goto("list_delete")
          /\ Keep(<<stack, visiting, acc>>)

CheckDelete ==
  /\ pc = "list_delete"
  /\ \E f \in frame : Grant(f, "delete")
  /\ frame' = {}
  /\ Goto("list_edit")
  /\ Keep(<<todo, stack, visiting, acc>>)

-----------------------------------------------------------------------------
(* loadForRead, ResolveDoc, SourceDoc and ListFrameVersions.               *)

GetFrame ==
  /\ pc = "get"
  /\ LET found == Readable(call.org, call.name) IN
     \/ found = {} /\ Fail("not_found")
     \/ /\ found # {}
        /\ frame' = found
        /\ Goto("version")
        /\ Keep(<<todo, listing, stack, visiting, acc>>)

Entry(key, doc, excludes) ==
  [key |-> key, doc |-> doc, todo |-> doc.extends,
   excludes |-> excludes \cup ToSet(doc.excludes)]

GetFrameVersion ==
  /\ pc = "version" /\ call.op # "versions"
  /\ \E f \in frame :
       LET found == RowsOf(f, IF call.version = NoVersion THEN f.latest ELSE call.version) IN
       \/ found = {} /\ Fail("not_found")
       \/ \E v \in found :
            \/ /\ call.op \in {"source", "tool_source"}
               /\ acc' = v.slots /\ UNCHANGED page
               /\ Finish("ok")
            \/ /\ call.op \in {"resolve", "tool"}
               /\ stack' = <<Entry(<<>>, v, {})>>
               /\ frame' = {}
               /\ Goto("walk")
               /\ Keep(<<todo, listing, visiting, acc>>)

ListFrameVersions ==
  /\ pc = "version" /\ call.op = "versions"
  /\ \E f \in frame : page' = VersionsOf(versions, f.id)
  /\ UNCHANGED acc
  /\ Finish("ok")

-----------------------------------------------------------------------------
(* Resolve and mergeParents: a loop over the parents of the document on    *)
(* top of the stack, which recurses by pushing the parent it has fetched.  *)

Top == Last(stack)
Parent == Head(Top.todo)
Key == [org |-> Parent.org, name |-> Parent.name, version |-> Parent.version]

\* The rest of the parents of the document on top.
Passed == Front(stack) \o <<[Top EXCEPT !.todo = Tail(@)]>>

\* Excludes that hold for the document that names them, not below it.
MutExcluded(p) ==
  [org |-> p.org, name |-> p.name] \in ToSet(Top.doc.excludes)

\* A parent is excluded by its full name, which an exclude without an
\* organization never is.
Excluded(p) == [org |-> p.org, name |-> p.name] \in Top.excludes

SkipParent ==
  /\ pc = "walk" /\ stack # <<>> /\ Top.todo # <<>> /\ Excluded(Parent)
  /\ stack' = Passed
  /\ Goto("walk")
  /\ Keep(<<frame, todo, listing, visiting, acc>>)

FindCycle ==
  /\ pc = "walk" /\ stack # <<>> /\ Top.todo # <<>> /\ ~Excluded(Parent)
  /\ Key \in visiting
  /\ Fail("failed_precondition")

\* A parent that is not there is asked for again.
MutUnfetched == UNCHANGED <<local>>

\* ErrParentUnreadable: missing and unreadable ancestors look the same.
Unfetched == Fail("not_found")

FetchParent ==
  /\ pc = "walk" /\ stack # <<>> /\ Top.todo # <<>> /\ ~Excluded(Parent)
  /\ Key \notin visiting
  /\ LET found == Readable(Parent.org, Parent.name) IN
     \/ found = {} /\ Unfetched
     \/ /\ found # {}
        /\ frame' = found
        /\ Goto("parent")
        /\ Keep(<<todo, listing, stack, visiting, acc>>)

\* The latest version of the parent, whatever the child has pinned.
MutPinned(f, p) == f.latest
Pinned(f, p) == p.version

FetchParentVersion ==
  /\ pc = "parent"
  /\ \E f \in frame :
       LET found == RowsOf(f, Pinned(f, Parent)) IN
       \/ found = {} /\ Unfetched
       \/ \E v \in found :
            /\ visiting' = visiting \cup {Key}
            /\ stack' = Append(Passed, Entry(Key, v, Top.excludes))
            /\ frame' = {}
            /\ Goto("walk")
            /\ Keep(<<todo, listing, acc>>)

\* The key stays marked when its document is done.
MutLeave(key) == visiting
Leave(key) == visiting \ {key}

\* A document whose parents are done is merged over them.
Merge ==
  /\ pc = "walk" /\ stack # <<>> /\ Top.todo = <<>>
  /\ acc' = mergeInto(acc, Top.doc.slots)
  /\ \/ Len(stack) = 1 /\ Finish("ok") /\ UNCHANGED page
     \/ /\ Len(stack) > 1
        /\ stack' = Front(stack)
        /\ visiting' = Leave(Top.key)
        /\ Goto("walk")
        /\ Keep(<<frame, todo, listing>>)

\* A query fails, or the client goes away.
StoreError ==
  /\ pc # "idle"
  /\ Fail("internal")

-----------------------------------------------------------------------------
InitReader ==
  /\ frames = {} /\ versions = {}
  /\ pc = "idle" /\ call = NoCall
  /\ frame = {} /\ todo = {} /\ listing = {} /\ stack = <<>> /\ visiting = {}
  /\ acc = Empty /\ page = {} /\ reply = "none"
  /\ since = "nothing" /\ answered = {}

ReaderCall ==
  \/ ListFramesByOrg \/ CheckRead \/ ListRead \/ CheckEdit \/ CheckDelete
  \/ GetFrame \/ GetFrameVersion \/ ListFrameVersions
  \/ SkipParent \/ FindCycle \/ FetchParent \/ FetchParentVersion \/ Merge

\* The last document returned, by a walk no delete came into, stays on record
\* until a frame is deleted.
Record ==
  answered' = IF pc = "walk" /\ pc' = "idle" /\ reply' = "ok" /\ since # "delete"
                THEN {[doc |-> Head(stack).doc, slots |-> acc']} ELSE answered

ReaderStep == ReaderCall /\ Record /\ UNCHANGED <<catalog, since>>

NextReader ==
  \/ Publish \/ Delete \/ Receive \/ ReaderStep
  \/ StoreError /\ UNCHANGED <<catalog, since, answered>>

SpecReader == InitReader /\ [][NextReader]_vars

\* A handler that has begun goes on: no query blocks for good.  Nothing is
\* assumed of errors, so it is not by failing that a walk ends.
FairReader == SpecReader /\ WF_vars(ReaderStep)

-----------------------------------------------------------------------------
(* What must hold of what a reader is given; Resolution says what a        *)
(* document resolves to.                                                   *)

Root == Head(stack).doc

\* The reader reaches the end of a resolve of its own accord.
Resolved == /\ call.op \in {"resolve", "tool"} /\ pc' = "idle"
            /\ pc \in {"get", "version", "walk", "parent"} /\ reply' # "internal"

\* A version resolves to the same document however often it is asked for and
\* whatever is published in between, as long as no frame is deleted: parents are
\* pinned and versions never change.
StableResolution ==
  [][Resolved /\ reply' = "ok" /\ since # "delete" =>
       \A a \in answered : a.doc = Root => a.slots = acc']_vars

\* Nothing an excluded frame says is in a resolved document, through whichever
\* ancestor it comes and whatever happens during the walk.
ExcludedNotMerged ==
  [][Resolved /\ reply' = "ok" =>
       \A s \in {t.from : t \in ToSet(acc'.terms)} \cup acc'.goals :
         \/ s \in {t.from : t \in ToSet(Root.slots.terms)} \cup Root.slots.goals
         \/ [org |-> call.org, name |-> s.name] \notin ToSet(Root.excludes)
    ]_vars

\* A list has every frame of the caller's organization that was there from the
\* query to the end, and says of each what the caller may do with it.
ListIsComplete ==
  [][pc = "list_edit" /\ pc' = "idle" /\ reply' = "ok" =>
       /\ \A f \in frames : f.org = call.caller.org /\ since = "nothing" =>
            \E e \in page' : e.frame = f
       /\ \A e \in page' :
            /\ e.frame.org = call.caller.org
            /\ e.frame.id \in Ids(frames) =>
                 e.rights = IF call.caller.role = "admin" \/ e.frame.owner = call.caller.sub
                              THEN {"edit", "delete"} ELSE {}
    ]_vars

=============================================================================
