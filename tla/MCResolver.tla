----------------------------- MODULE MCResolver -----------------------------
(***************************************************************************)
(* An instance of Resolution for TLC, and what needs fairness.             *)
(***************************************************************************)
EXTENDS Resolution

CONSTANTS o1, o2, alice, bob, carol, dave

\* Every request is answered, on every graph of frames, the cyclic ones too, and
\* though the graph changes under the walk: the marks bound its depth.
WalkEnds == pc # "idle" ~> pc = "idle"

-----------------------------------------------------------------------------
(* The instance.                                                           *)

MCVersion == {"1", "2", "3"}
MCRank == [v \in MCVersion |-> CASE v = "1" -> 1 [] v = "2" -> 2 [] OTHER -> 3]

MCIdsOf == [n \in {"a", "b", "c", "d"} |-> {<<n, 1>>, <<n, 2>>}]
MCFrameId == UNION {MCIdsOf[n] : n \in {"a", "b", "c", "d"}}

P(name, version) == [org |-> o1, name |-> name, version |-> version]
X(name) == [org |-> o1, name |-> name]
Bare(name) == [org |-> NoOrg, name |-> name]

Pub(by, name, version, extends) ==
  [org |-> o1, by |-> by, name |-> name, version |-> version, extends |-> extends,
   excludes |-> <<>>, terms |-> <<>>, rules |-> <<>>, goals |-> FALSE]

\* "c" inherits "a" twice, once through "b"; "d" inherits both and leaves "a"
\* out.  "a" comes back as a frame of Bob's once deleted, and its second version
\* closes a cycle with the second of "b".
MCPublication ==
  {[Pub(alice, "a", "1", <<>>) EXCEPT !.terms = <<"t">>, !.rules = <<"r", "s">>, !.goals = TRUE],
   [Pub(bob, "a", "1", <<>>) EXCEPT !.terms = <<"u">>],
   [Pub(alice, "b", "1", <<P("a", "1")>>) EXCEPT !.terms = <<"u", "t">>, !.rules = <<"r">>],
   Pub(alice, "b", "2", <<P("a", "2")>>),
   Pub(alice, "a", "2", <<P("b", "2")>>),
   [Pub(alice, "c", "1", <<P("b", "1"), P("a", "1")>>) EXCEPT !.goals = TRUE, !.rules = <<"q">>],
   [Pub(alice, "d", "1", <<P("c", "1"), P("b", "1")>>)
      EXCEPT !.terms = <<"v">>, !.excludes = <<Bare("b"), X("a")>>]}

Reader(sub, org, role) == [sub |-> sub, org |-> org, role |-> role]
Ask(op, caller, name, version) ==
  [op |-> op, caller |-> caller, org |-> o1, name |-> name, version |-> version]

MCCall ==
  LET v == Reader(carol, o1, "viewer")
      w == Reader(bob, o1, "admin")
  IN {Ask("resolve", v, "c", NoVersion), Ask("resolve", v, "d", "1"), Ask("tool", w, "b", NoVersion),
      Ask("resolve", v, "a", "2"), Ask("resolve", Reader(dave, o2, "viewer"), "a", "1"),
      Ask("tool_source", v, "b", NoVersion), Ask("versions", v, "a", NoVersion),
      Ask("list", w, "a", NoVersion), Ask("list", Reader(alice, o1, "publisher"), "a", NoVersion)}

=============================================================================
