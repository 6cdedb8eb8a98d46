----------------------------- MODULE MCRegistry -----------------------------
(***************************************************************************)
(* Instances of Registry for TLC.                                          *)
(***************************************************************************)
EXTENDS Registry, TLC

CONSTANTS o1, o2, alice, bob, carol, dave, r1, r2

\* Versions are ordered but for "x", which is not of the form 1.2.3.
MCVersion == {"1", "2", "3", "x"}
MCRank == [v \in MCVersion |-> CASE v = "1" -> 1 [] v = "2" -> 2 [] v = "3" -> 3
                                 [] OTHER -> 0]

\* Alice and Carol publish, Bob administers their organization, Dave is
\* another's.
Alice == [sub |-> alice, org |-> o1, role |-> "publisher"]
Carol == [sub |-> carol, org |-> o1, role |-> "publisher"]
Bob == [sub |-> bob, org |-> o1, role |-> "admin"]
Viewer == [sub |-> alice, org |-> o1, role |-> "viewer"]
Dave == [sub |-> dave, org |-> o2, role |-> "publisher"]

Request0(op, caller, name) ==
  [op |-> op, caller |-> caller, org |-> caller.org, name |-> name, version |-> NoVersion,
   intent |-> "upsert", base |-> NoVersion, extends |-> <<>>, excludes |-> <<>>,
   keep |-> FALSE, force |-> FALSE]

Publish(caller, name, version, extends) ==
  [Request0("publish", caller, name) EXCEPT !.version = version, !.extends = extends]
Update(caller, name, version, base) ==
  [Request0("update", caller, name) EXCEPT !.version = version, !.base = base,
                                           !.intent = "update", !.keep = TRUE]
Get(caller, name) == Request0("get", caller, name)
Delete(caller, name, force) == [Request0("delete", caller, name) EXCEPT !.force = force]

Parent(name, version) == [org |-> o1, name |-> name, version |-> version]
Bare(name) == [org |-> NoOrg, name |-> name]

Symmetry == Permutations({r1, r2})

-----------------------------------------------------------------------------
(* Two requests at once: "a" is the parent, "b" inherits from it.          *)

RaceCall == {Publish(Alice, "a", "1", <<>>), Publish(Bob, "a", "3", <<>>),
             Publish(Carol, "a", "1", <<>>),
             Update(Alice, "a", "2", "1"),
             Publish(Alice, "b", "1", <<Parent("a", "1")>>),
             Publish(Dave, "b", "1", <<Parent("a", "1")>>),
             Delete(Alice, "a", FALSE), Delete(Bob, "a", TRUE),
             Get(Viewer, "b")}

-----------------------------------------------------------------------------
(* One request at a time, every kind of request.                           *)

SerialCall ==
  {Publish(Alice, "a", v, <<>>) : v \in {"1", "2", "x"}}
  \cup {Publish(c, "b", "1", <<Parent("a", "1")>>) : c \in {Alice, Bob, Viewer, Dave}}
  \cup {[Publish(Alice, "b", "2", <<>>) EXCEPT !.excludes = <<Bare("a")>>],
        [Publish(Alice, "b", "2", <<>>) EXCEPT !.excludes = <<Bare("a"), Bare("a")>>],
        Publish(Alice, "b", "2", <<Parent("a", "1"), Parent("a", "1")>>),
        [Publish(Bob, "a", "2", <<>>) EXCEPT !.intent = "create"],
        Publish(Dave, "a", "1", <<>>)}
  \cup {Update(c, "b", "3", b) : c \in {Alice, Viewer}, b \in {"1", "2"}}
  \cup {Get(Viewer, "b"), [Get(Viewer, "b") EXCEPT !.version = "2"],
        [Get(Dave, "b") EXCEPT !.org = o1]}
  \cup {Delete(Alice, "a", FALSE), Delete(Bob, "a", TRUE), Delete(Alice, "b", FALSE)}

=============================================================================
