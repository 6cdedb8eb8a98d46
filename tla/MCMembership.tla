---------------------------- MODULE MCMembership ----------------------------
(***************************************************************************)
(* Instances of Membership for TLC.                                        *)
(***************************************************************************)
EXTENDS Membership, TLC

CONSTANTS o1, o2, alice, bob, carol, r1, r2

\* Alice and Bob are two people; Carol's account was created again with Bob's
\* address.  "A" is Alice's address as a colleague types it, " " is blank.
MCAddress == {"", " ", "a", "A", "b"}
MCCanonicalEmail == [x \in MCAddress |-> CASE x = " " -> ""
                                           [] x = "A" -> "a"
                                           [] OTHER -> x]
MCEmailClaim == [s \in Sub \cup {NoSub} |->
                   IF s = alice THEN "A" ELSE "b"]

CallOf(op, sub, target, email, role) ==
  [op |-> op, sub |-> sub, target |-> target, email |-> email, role |-> role]

Resolves(subs) == {CallOf("resolve", s, NoSub, "", NoRole) : s \in subs}
Adds(subs, emails, roles) ==
  {CallOf("add", s, NoSub, e, x) : s \in subs, e \in emails, x \in roles}
SetsBySub(subs, targets, roles) ==
  {CallOf("set_role", s, t, "", x) : s \in subs, t \in targets, x \in roles}
SetsByEmail(subs, emails, roles) ==
  {CallOf("set_role", s, NoSub, e, x) : s \in subs, e \in emails, x \in roles}
RemovesBySub(subs, targets) == {CallOf("remove", s, t, "", NoRole) : s \in subs, t \in targets}
RemovesByEmail(subs, emails) == {CallOf("remove", s, NoSub, e, NoRole) : s \in subs, e \in emails}

Setting(seedOrg, adminSub, adminEmail, defaultOrg, defaultRole) ==
  [seedOrg |-> seedOrg, adminSub |-> adminSub, adminEmail |-> adminEmail,
   defaultOrg |-> defaultOrg, defaultRole |-> defaultRole]

Symmetry == Permutations({r1, r2})

-----------------------------------------------------------------------------
(* Two requests at once in one organization.                               *)

\* Alice and Bob administer each other while people sign in.
RaceCall == Resolves({alice, bob, carol, NoSub})
            \cup Adds({alice}, {"b"}, {"admin", "viewer"})
            \cup SetsBySub({bob}, {alice}, {"viewer"}) \cup RemovesBySub({alice}, {bob})
            \cup RemovesByEmail({alice}, {"b"})

\* No baseline; an admin known by address only, with a baseline in the same
\* organization; a baseline in another organization than the seeded one.
RaceConfigs == {Setting(o1, alice, "", NoOrg, NoRole),
                Setting(o1, NoSub, "A", o1, "viewer"),
                Setting(o1, alice, "", o2, "viewer")}

-----------------------------------------------------------------------------
(* One request at a time, every kind of request.                           *)

SerialCall == Resolves({alice, bob, NoSub})
              \cup {CallOf("list", alice, NoSub, "", NoRole)}
              \cup Adds({alice, bob}, {"", " ", "a", "b"}, {"admin", "viewer", NoRole})
              \cup SetsBySub({alice, bob}, {alice, bob}, {"admin", "viewer", NoRole})
              \cup SetsByEmail({alice}, {"a", "A", "b"}, {"admin", "publisher"})
              \cup RemovesBySub({alice, bob}, {alice, bob})
              \cup RemovesByEmail({alice}, {"", "A", "b"})

SerialConfigs == {Setting(o1, alice, "", NoOrg, NoRole),
                  Setting(o1, NoSub, "b", o1, "viewer"),
                  Setting(o2, alice, "A", o1, "admin"),
                  Setting(NoOrg, NoSub, "", NoOrg, "viewer")}

=============================================================================
