-------------------------- MODULE MembershipProofs --------------------------
(***************************************************************************)
(* Theorems about Membership, for every set of organizations, subjects,    *)
(* addresses, requests and settings: its invariants, what a step may do to *)
(* the table, and what holds in addition where one request runs at a time. *)
(***************************************************************************)
EXTENDS Membership, WellFoundedInduction, FiniteSetTheorems, TLAPS

-----------------------------------------------------------------------------
(* The table.                                                              *)

\* A nonempty set of naturals has a least element, and Least is it: LIMIT 1
\* and the next rowid are well defined.
LEMMA LeastProperties ==
  ASSUME NEW S \in SUBSET Nat, S # {}
  PROVE  Least(S) \in S /\ \A j \in S : Least(S) <= j
<1>1. PICK i \in S : \A j \in S : ~ (<<j, i>> \in OpToRel(<, Nat))
  BY WFMin, NatLessThanWellFounded
<1>2. \A j \in S : ~(j < i)
  BY <1>1 DEF OpToRel
<1>3. \A j \in S : i <= j
  BY <1>2
<1> QED
  BY <1>3 DEF Least

\* The row LIMIT 1 picks is one of the rows found.
LEMMA FirstIsFound ==
  ASSUME NEW found \in SUBSET Row, found # {}
  PROVE  First(found) \in found
<1> DEFINE ids == {n.id : n \in found}
<1>1. ids \in SUBSET Nat /\ ids # {}
  BY DEF Row, RowId
<1>2. Least(ids) \in ids
  BY <1>1, LeastProperties
<1>3. \E m \in found : m.id = Least(ids)
  BY <1>2
<1> QED
  BY <1>3 DEF First

\* A new row's rowid is larger than every rowid in use.
LEMMA NextRowIdIsFresh ==
  ASSUME NEW rows \in SUBSET Row
  PROVE  \A m \in rows : m.id < NextRowId(rows)
<1> DEFINE free == {i \in 1 .. (MaxRowId + 1) : \A m \in rows : m.id < i}
<1>1. free \in SUBSET Nat
  BY StoreAssumption
<1>2. MaxRowId + 1 \in free
  BY StoreAssumption DEF Row, RowId
<1>3. Least(free) \in free
  BY <1>1, <1>2, LeastProperties
<1> QED
  BY <1>3 DEF NextRowId

\* What is stored is a canonical address.
LEMMA StoredEmailType ==
  ASSUME NEW a \in Address
  PROVE  StoredEmail(a) \in Email
BY StoreAssumption DEF StoredEmail, Email

\* The INSERTs and UPDATEs leave a table of well-formed rows.
LEMMA StatementTypes ==
  ASSUME NEW rows \in SUBSET Row, NEW org \in Org, NEW sub \in Sub \cup {NoSub},
         NEW role \in Role, NEW email \in Email
  PROVE  /\ HasRoom(rows) => Insert(rows, org, sub, role, email) \in SUBSET Row
         /\ HasRoom(rows) \/ Conflicts(rows, org, sub, email)
              => CreateMembership(rows, org, sub, role, email) \in SUBSET Row
         /\ \A m \in rows : SetSub(rows, m, sub) \in SUBSET Row
         /\ \A found \in SUBSET rows : SetRole(rows, found, role) \in SUBSET Row
<1>1. HasRoom(rows) => Insert(rows, org, sub, role, email) \in SUBSET Row
  BY DEF HasRoom, Insert, Row
<1>2. \A m \in rows : SetSub(rows, m, sub) \in SUBSET Row
  BY DEF SetSub, Row
<1>3. \A found \in SUBSET rows : SetRole(rows, found, role) \in SUBSET Row
  BY DEF SetRole, Row
<1> QED
  BY <1>1, <1>2, <1>3 DEF CreateMembership

-----------------------------------------------------------------------------
(* Steps of a request.                                                     *)

RequestTypeOK ==
  /\ pc \in [Request -> Step]
  /\ call \in [Request -> Call]
  /\ seen \in [Request -> SUBSET Row]
  /\ caller \in [Request -> SUBSET Caller]
  /\ reply \in [Request -> Reply]

\* The filler value is a call.
LEMMA AnyCallType == AnyCall \in Call
BY MembershipAssumption DEF AnyCall

\* A handler that returns leaves well-formed local variables.
LEMMA FinishPreserves ==
  ASSUME TypeOK, HandlerInv, NEW r \in Request, NEW code \in Reply, Finish(r, code)
  PROVE  RequestTypeOK' /\ HandlerInv'
<1> USE DEF Finish, Goto, Read
<1>1. RequestTypeOK'
  BY AnyCallType DEF TypeOK, RequestTypeOK, Step
<1>2. HandlerInv'
  BY DEF TypeOK, HandlerInv, Malformed
<1> QED
  BY <1>1, <1>2

\* So does ResolveCaller when it hands a membership to its handler.
LEMMA ResolvedPreserves ==
  ASSUME TypeOK, HandlerInv, NEW r \in Request, NEW m, m.org \in Org, m.role \in Role,
         Resolved(r, m)
  PROVE  RequestTypeOK' /\ HandlerInv'
<1> DEFINE op == call[r].op
<1>1. CASE \E code \in {"ok", "permission_denied", "invalid_argument"} : Finish(r, code)
  BY <1>1, FinishPreserves DEF Reply
<1>2. CASE /\ Authorized(op, m.role) /\ ~Malformed(call[r])
           /\ caller' = [caller EXCEPT ![r] = {[org |-> m.org, role |-> m.role]}]
           /\ Goto(r, NextCall(op))
           /\ Read(r, {})
           /\ UNCHANGED <<call, reply>>
  <2>1. op \in Op
    BY MembershipAssumption DEF TypeOK, CallType
  <2>2. NextCall(op) \in {"list", "add", "find"}
    BY DEF NextCall
  <2>3. RequestTypeOK'
    BY <1>2, <2>2 DEF TypeOK, RequestTypeOK, Step, Caller, Goto, Read
  <2>4. NextCall(op) = "add" => op = "add"
    BY <2>1 DEF NextCall, Op
  <2>5. NextCall(op) = "find" => op \in {"set_role", "remove"}
    BY <1>2, <2>1 DEF NextCall, Op, Authorized
  <2>6. HandlerInv'
    <3> SUFFICES ASSUME NEW q \in Request PROVE HandlerInv!(q)'
      BY DEF HandlerInv
    <3>1. CASE q # r
      BY <1>2, <3>1 DEF TypeOK, HandlerInv, Goto, Read, Malformed
    <3>2. CASE q = r
      <4>1. pc'[r] = NextCall(op) /\ call'[r] = call[r]
        BY <1>2 DEF TypeOK, Goto
      <4>2. caller'[r] = {[org |-> m.org, role |-> "admin"]}
        BY <1>2 DEF TypeOK, Authorized
      <4>3. ~Malformed(call[r])'
        BY <1>2, <4>1 DEF Malformed
      <4> HIDE DEF op
      <4> QED
        BY <2>2, <2>4, <2>5, <3>2, <4>1, <4>2, <4>3 DEF op
    <3> QED
      BY <3>1, <3>2
  <2> QED
    BY <2>3, <2>6
<1> QED
  BY <1>1, <1>2 DEF Resolved

\* ... and so does a handler that goes on to a repository call it may make.
LEMMA ContinuePreserves ==
  ASSUME TypeOK, HandlerInv, NEW r \in Request,
         NEW step \in {"invite", "activate", "provision", "reread", "count", "write"},
         Continue(r, step), NEW rows \in SUBSET Row, Read(r, rows),
         step \in {"activate", "count", "write"} => rows # {},
         \/ step \in {"invite", "activate", "provision", "reread"} /\ call[r].sub # NoSub
         \/ step \in {"count", "write"} /\ pc[r] \in {"find", "count"}
  PROVE  RequestTypeOK' /\ HandlerInv'
<1> USE DEF Continue, Goto, Read
<1>1. RequestTypeOK'
  BY DEF TypeOK, RequestTypeOK, Step
<1>2. HandlerInv'
  BY DEF TypeOK, HandlerInv, Malformed
<1> QED
  BY <1>1, <1>2

\* A handler that must have read a row has one: Seen picks it.
LEMMA SeenIsARow ==
  ASSUME TypeOK, HandlerInv, NEW r \in Request, pc[r] \in {"activate", "count", "write"}
  PROVE  Seen(r) \in seen[r] /\ Seen(r) \in Row
BY DEF TypeOK, HandlerInv, Seen

\* A handler past requireAdmin has a caller, in an organization.
LEMMA MeIsTheCaller ==
  ASSUME TypeOK, HandlerInv, NEW r \in Request,
         pc[r] \in {"list", "add", "find", "count", "write"}
  PROVE  Me(r) \in caller[r] /\ Me(r).org \in Org
BY DEF TypeOK, HandlerInv, Me, Caller

\* The parts of a call have the types the statements expect.
LEMMA CallFields ==
  ASSUME TypeOK, NEW r \in Request
  PROVE  /\ call[r].sub \in Sub \cup {NoSub} /\ call[r].email \in Address
         /\ call[r].role \in Role \cup {NoRole} /\ call[r].op \in Op
         /\ EmailClaim[call[r].sub] \in Address
BY MembershipAssumption DEF TypeOK, CallType

-----------------------------------------------------------------------------
(* Type correctness and what a handler holds at each step.                 *)

\* The inductive invariant: types, and what a handler holds at each step.
IInv == TypeOK /\ HandlerInv

\* The steps of orgs.ResolveCaller preserve the inductive invariant.
LEMMA ResolveStepsPreserve ==
  ASSUME IInv, NEW r \in Request,
         Receive(r) \/ LookUp(r) \/ FindInvite(r) \/ Activate(r) \/ Provision(r) \/ Reread(r)
  PROVE  IInv'
<1> USE DEF IInv
<1> SUFFICES /\ RequestTypeOK' /\ HandlerInv'
             /\ memberships' \in SUBSET Row
             /\ UNCHANGED serverVars
  BY DEF TypeOK, RequestTypeOK, serverVars
<1>u. UNCHANGED serverVars
  BY DEF Receive, LookUp, FindInvite, Activate, Provision, Reread
<1>1. CASE Receive(r)
  <2>1. RequestTypeOK' /\ memberships' \in SUBSET Row
    BY <1>1 DEF Receive, Goto, TypeOK, RequestTypeOK, Step, Reply
  <2>2. HandlerInv'
    BY <1>1 DEF Receive, At, Goto, TypeOK, HandlerInv, Malformed
  <2> QED
    BY <1>u, <2>1, <2>2
<1>2. CASE LookUp(r)
  <2> DEFINE sub == call[r].sub
             found == GetMembership(memberships, sub)
  <2>0. memberships' = memberships /\ memberships \in SUBSET Row
    BY <1>2 DEF LookUp, TypeOK
  <2>1. CASE Finish(r, "unauthenticated")
    BY <2>0, <2>1, <1>u, FinishPreserves DEF Reply
  <2>2. CASE found # {} /\ Resolved(r, First(found))
    <3>1. First(found) \in Row
      BY <2>2, FirstIsFound DEF TypeOK, GetMembership
    <3> QED
      BY <2>0, <2>2, <3>1, <1>u, ResolvedPreserves DEF Row
  <2>3. CASE /\ HasSubject(sub)
             /\ Continue(r, IF CanonicalEmail[EmailClaim[sub]] # NoEmail
                            THEN "invite" ELSE "provision")
             /\ UNCHANGED seen
    <3>1. Read(r, seen[r]) /\ seen[r] \in SUBSET Row
      BY <2>3 DEF Read, TypeOK
    <3> QED
      BY <2>0, <2>3, <3>1, <1>u, ContinuePreserves DEF HasSubject
  <2> QED
    BY <1>2, <2>1, <2>2, <2>3 DEF LookUp
<1>3. CASE FindInvite(r)
  <2> DEFINE found == GetPendingMembershipByEmail(memberships, EmailClaim[call[r].sub])
  <2>0. /\ memberships' = memberships /\ memberships \in SUBSET Row
        /\ call[r].sub # NoSub
    BY <1>3 DEF FindInvite, At, TypeOK, HandlerInv
  <2>1. CASE found # {} /\ Read(r, {First(found)}) /\ Continue(r, "activate")
    <3>1. {First(found)} \in SUBSET Row /\ {First(found)} # {}
      BY <2>1, FirstIsFound DEF TypeOK, GetPendingMembershipByEmail
    <3> QED
      BY <2>0, <2>1, <3>1, <1>u, ContinuePreserves
  <2>2. CASE found = {} /\ UNCHANGED seen /\ Continue(r, "provision")
    <3>1. Read(r, seen[r]) /\ seen[r] \in SUBSET Row
      BY <2>2 DEF Read, TypeOK
    <3> QED
      BY <2>0, <2>2, <3>1, <1>u, ContinuePreserves
  <2> QED
    BY <1>3, <2>1, <2>2 DEF FindInvite
<1>4. CASE Activate(r)
  <2> DEFINE sub == call[r].sub
             rows == Activable(Seen(r).email)
  <2>0. pc[r] = "activate" /\ memberships \in SUBSET Row
    BY <1>4 DEF Activate, At, TypeOK
  <2>1. CASE Finish(r, "internal") /\ UNCHANGED memberships
    BY <2>0, <2>1, <1>u, FinishPreserves DEF Reply
  <2>2. CASE /\ rows # {}
             /\ memberships' = SetSub(memberships, First(rows), sub)
             /\ Resolved(r, Seen(r))
    <3>1. First(rows) \in memberships
      BY <2>0, <2>2, FirstIsFound DEF Activable, GetPendingMembershipByEmail
    <3>2. memberships' \in SUBSET Row
      BY <2>0, <2>2, <3>1, CallFields DEF SetSub, Row
    <3>3. Seen(r).org \in Org /\ Seen(r).role \in Role
      BY <2>0, SeenIsARow DEF Row
    <3> QED
      BY <2>2, <3>2, <3>3, <1>u, ResolvedPreserves
  <2> QED
    BY <1>4, <2>1, <2>2 DEF Activate
<1>5. CASE Provision(r)
  <2> DEFINE sub == call[r].sub
             org == config.defaultOrg
             role == config.defaultRole
             email == StoredEmail(EmailClaim[sub])
             clash == Conflicts(memberships, org, sub, email)
  <2>0. /\ memberships \in SUBSET Row
        /\ sub # NoSub /\ sub \in Sub \cup {NoSub} /\ email \in Email
    BY <1>5, CallFields, StoredEmailType DEF Provision, At, TypeOK, HandlerInv
  <2>1. CASE Finish(r, "no_membership") /\ UNCHANGED memberships
    BY <2>0, <2>1, <1>u, FinishPreserves DEF Reply
  <2>2. CASE /\ DefaultEnabled
             /\ clash \/ HasRoom(memberships)
             /\ memberships' = CreateMembership(memberships, org, sub, role, email)
             /\ \/ clash /\ Continue(r, "reread") /\ UNCHANGED seen
                \/ ~clash /\ Resolved(r, [org |-> org, role |-> role])
    <3>1. org \in Org /\ role \in Role
      BY <2>2, MembershipAssumption DEF DefaultEnabled, TypeOK, ConfigType
    <3>2. memberships' \in SUBSET Row
      BY <2>0, <2>2, <3>1, StatementTypes
    <3>3. CASE Continue(r, "reread") /\ UNCHANGED seen
      <4>1. Read(r, seen[r]) /\ seen[r] \in SUBSET Row
        BY <3>3 DEF Read, TypeOK
      <4> QED
        BY <2>0, <3>2, <3>3, <4>1, <1>u, ContinuePreserves
    <3>4. CASE Resolved(r, [org |-> org, role |-> role])
      BY <3>1, <3>2, <3>4, <1>u, ResolvedPreserves
    <3> QED
      BY <2>2, <3>3, <3>4
  <2> QED
    BY <1>5, <2>1, <2>2 DEF Provision
<1>6. CASE Reread(r)
  <2> DEFINE found == RereadRow(call[r].sub)
  <2>0. memberships' = memberships /\ memberships \in SUBSET Row
    BY <1>6 DEF Reread, TypeOK
  <2>1. CASE found # {} /\ Resolved(r, First(found))
    <3>1. First(found) \in Row
      BY <2>1, FirstIsFound DEF TypeOK, RereadRow, GetMembership
    <3> QED
      BY <2>0, <2>1, <3>1, <1>u, ResolvedPreserves DEF Row
  <2>2. CASE Finish(r, "no_membership")
    BY <2>0, <2>2, <1>u, FinishPreserves DEF Reply
  <2> QED
    BY <1>6, <2>1, <2>2 DEF Reread
<1> QED
  BY <1>1, <1>2, <1>3, <1>4, <1>5, <1>6

\* The steps of the administration handlers preserve it.
LEMMA AdminStepsPreserve ==
  ASSUME IInv, NEW r \in Request,
         \/ ListOrgMembers(r) \/ AddOrgMember(r) \/ FindMember(r)
         \/ CountAdminsOfOrg(r) \/ WriteMember(r) \/ StoreError(r)
  PROVE  IInv'
<1> USE DEF IInv
<1> SUFFICES /\ RequestTypeOK' /\ HandlerInv'
             /\ memberships' \in SUBSET Row
             /\ UNCHANGED serverVars
  BY DEF TypeOK, RequestTypeOK, serverVars
<1>u. UNCHANGED serverVars
  BY DEF ListOrgMembers, AddOrgMember, FindMember, CountAdminsOfOrg, WriteMember, StoreError
<1>m. memberships \in SUBSET Row
  BY DEF TypeOK
<1>1. CASE ListOrgMembers(r)
  BY <1>1, <1>u, <1>m, FinishPreserves DEF ListOrgMembers, Reply
<1>2. CASE AddOrgMember(r)
  <2> DEFINE org == Me(r).org
             email == StoredEmail(call[r].email)
  <2>1. pc[r] = "add" /\ org \in Org /\ email \in Email
    BY <1>2, MeIsTheCaller, CallFields, StoredEmailType DEF AddOrgMember, At
  <2>2. call[r].role \in Role
    BY <2>1, CallFields DEF HandlerInv, Malformed
  <2>3. CASE Finish(r, "already_exists") /\ UNCHANGED memberships
    BY <2>3, <1>u, <1>m, FinishPreserves DEF Reply
  <2>4. CASE /\ HasRoom(memberships)
             /\ memberships' = Insert(memberships, org, NoSub, call[r].role, email)
             /\ Finish(r, "ok")
    <3>1. memberships' \in SUBSET Row
      BY <1>m, <2>1, <2>2, <2>4, StatementTypes
    <3> QED
      BY <2>4, <3>1, <1>u, FinishPreserves DEF Reply
  <2> QED
    BY <1>2, <2>3, <2>4 DEF AddOrgMember
<1>3. CASE FindMember(r)
  <2> DEFINE found == FoundMember(Me(r).org, call[r].target, call[r].email)
             step == IF LosesAdmin(call[r], First(found)) THEN "count" ELSE "write"
  <2>0. pc[r] = "find" /\ memberships' = memberships
    BY <1>3 DEF FindMember, At
  <2>1. CASE Finish(r, "not_found")
    BY <2>0, <2>1, <1>u, <1>m, FinishPreserves DEF Reply
  <2>2. CASE found # {} /\ Read(r, {First(found)}) /\ Continue(r, step)
    <3>1. {First(found)} \in SUBSET Row /\ {First(found)} # {}
      BY <1>m, <2>2, FirstIsFound DEF FoundMember, ListMembershipsByOrg
    <3> QED
      BY <2>0, <2>2, <3>1, <1>u, <1>m, ContinuePreserves
  <2> QED
    BY <1>3, <2>1, <2>2 DEF FindMember
<1>4. CASE CountAdminsOfOrg(r)
  <2>0. pc[r] = "count" /\ memberships' = memberships
    BY <1>4 DEF CountAdminsOfOrg, At
  <2>1. CASE Finish(r, "failed_precondition")
    BY <2>0, <2>1, <1>u, <1>m, FinishPreserves DEF Reply
  <2>2. CASE Continue(r, "write") /\ UNCHANGED seen
    <3>1. Read(r, seen[r]) /\ seen[r] \in SUBSET Row /\ seen[r] # {}
      BY <2>0, <2>2 DEF Read, TypeOK, HandlerInv
    <3> QED
      BY <2>0, <2>2, <3>1, <1>u, <1>m, ContinuePreserves
  <2> QED
    BY <1>4, <2>1, <2>2 DEF CountAdminsOfOrg
<1>5. CASE WriteMember(r)
  <2>1. pc[r] = "write"
    BY <1>5 DEF WriteMember, At
  <2>2. call[r].op # "remove" => call[r].role \in Role
    BY <2>1, CallFields DEF HandlerInv, Malformed
  <2>3. Targets(r) \in SUBSET memberships
    BY DEF Targets, Selected
  <2>4. memberships' \in SUBSET Row
    BY <1>5, <1>m, <2>2, <2>3 DEF WriteMember, SetRole, Row
  <2>5. RequestTypeOK' /\ HandlerInv'
    BY <1>5, FinishPreserves DEF WriteMember, Reply
  <2> QED
    BY <1>u, <2>4, <2>5
<1>6. CASE StoreError(r)
  BY <1>6, <1>u, <1>m, FinishPreserves DEF StoreError, Reply
<1> QED
  BY <1>1, <1>2, <1>3, <1>4, <1>5, <1>6

\* The seed and a restart.
LEMMA ServerStepsPreserve ==
  ASSUME IInv, SeedAdminSub \/ SeedAdminEmail \/ Restart
  PROVE  IInv'
<1> USE DEF IInv
<1>m. memberships \in SUBSET Row /\ config \in ConfigType
  BY MembershipAssumption DEF TypeOK
<1>p. ASSUME NEW m \in memberships, PromoteIfNoAdmins(m)
      PROVE  memberships' \in SUBSET Row
  BY <1>m, <1>p DEF PromoteIfNoAdmins, Selected, SetRole, Row, Role
<1>1. CASE SeedAdminSub
  <2> DEFINE sub == config.adminSub
             mine == GetMembership(memberships, sub)
  <2>1. memberships' \in SUBSET Row
    <3>1. CASE UNCHANGED memberships
      BY <1>m, <3>1
    <3>2. CASE /\ config.seedOrg # NoOrg /\ mine = {} /\ HasRoom(memberships)
               /\ memberships' = UpsertMembership(memberships, config.seedOrg, sub, "admin", NoEmail)
      <4>1. /\ config.seedOrg \in Org /\ sub \in Sub \cup {NoSub}
            /\ "admin" \in Role /\ NoEmail \in Email
        BY <1>m, <3>2, StoreAssumption DEF ConfigType, Role, Email
      <4>2. memberships' = Insert(memberships, config.seedOrg, sub, "admin", NoEmail)
        BY <3>2 DEF UpsertMembership
      <4> QED
        BY <1>m, <3>2, <4>1, <4>2, StatementTypes
    <3>3. CASE mine # {} /\ SeedExisting(First(mine))
      <4>1. First(mine) \in memberships
        BY <1>m, <3>3, FirstIsFound DEF GetMembership
      <4> QED
        BY <1>p, <3>3, <4>1 DEF SeedExisting
    <3> QED
      BY <1>1, <3>1, <3>2, <3>3 DEF SeedAdminSub
  <2>2. UNCHANGED <<config, requestVars>> /\ server' = "seed_email"
    BY <1>1 DEF SeedAdminSub
  <2> QED
    BY <2>1, <2>2 DEF TypeOK, HandlerInv, Malformed, requestVars
<1>2. CASE SeedAdminEmail
  <2> DEFINE email == StoredEmail(config.adminEmail)
             active == {m \in ListMembershipsByOrg(memberships, config.seedOrg) :
                          m.email = email /\ m.sub # NoSub}
  <2>1. memberships' \in SUBSET Row
    <3>1. CASE UNCHANGED memberships
      BY <1>m, <3>1
    <3>2. CASE active # {} /\ PromoteIfNoAdmins(First(active))
      <4>1. First(active) \in memberships
        BY <1>m, <3>2, FirstIsFound DEF ListMembershipsByOrg
      <4> QED
        BY <1>p, <3>2, <4>1
    <3>3. CASE /\ config.seedOrg # NoOrg /\ HasRoom(memberships)
               /\ memberships' = Insert(memberships, config.seedOrg, NoSub, "admin", email)
      <4>1. /\ config.seedOrg \in Org /\ email \in Email
            /\ "admin" \in Role /\ NoSub \in Sub \cup {NoSub}
        BY <1>m, <3>3, StoredEmailType DEF ConfigType, Role
      <4> QED
        BY <1>m, <3>3, <4>1, StatementTypes
    <3> QED
      BY <1>2, <3>1, <3>2, <3>3 DEF SeedAdminEmail
  <2>2. UNCHANGED <<config, requestVars>> /\ server' = "serving"
    BY <1>2 DEF SeedAdminEmail
  <2> QED
    BY <2>1, <2>2 DEF TypeOK, HandlerInv, Malformed, requestVars
<1>3. CASE Restart
  <2>1. TypeOK'
    BY <1>3, AnyCallType DEF Restart, TypeOK, Step, Reply
  <2>2. HandlerInv'
    BY <1>3 DEF Restart, HandlerInv, Malformed
  <2> QED
    BY <2>1, <2>2
<1> QED
  BY <1>1, <1>2, <1>3

\* Every variable keeps its type, and a handler past requireAdmin acts for an
\* admin on a row it has read, in every behaviour.
THEOREM TypeCorrect == Spec => [](TypeOK /\ HandlerInv)
<1>1. Init => IInv
  <2> SUFFICES ASSUME Init PROVE IInv
    OBVIOUS
  <2>1. TypeOK
    BY AnyCallType DEF Init, TypeOK, Step, Reply
  <2>2. HandlerInv
    BY DEF Init, HandlerInv
  <2> QED
    BY <2>1, <2>2 DEF IInv
<1>2. IInv /\ [Next]_vars => IInv'
  <2> SUFFICES ASSUME IInv, [Next]_vars PROVE IInv'
    OBVIOUS
  <2>1. ASSUME NEW r \in Request, RequestStep(r) PROVE IInv'
    BY <2>1, ResolveStepsPreserve, AdminStepsPreserve DEF RequestStep
  <2>2. CASE SeedAdminSub \/ SeedAdminEmail \/ Restart
    BY <2>2, ServerStepsPreserve
  <2>3. CASE UNCHANGED vars
    BY <2>3 DEF vars, IInv, TypeOK, HandlerInv, Malformed
  <2> QED
    BY <2>1, <2>2, <2>3 DEF Next
<1> QED
  BY <1>1, <1>2, PTL DEF Spec, IInv

-----------------------------------------------------------------------------
(* One row per subject, and one per address in an organization.            *)

Unique(rows) ==
  \A m, n \in rows :
    \/ m.id = n.id
    \/ m.sub = n.sub /\ m.sub # NoSub
    \/ m.org = n.org /\ m.email = n.email /\ m.email # NoEmail
    => m = n

\* An INSERT that violates neither index keeps the rows unique.
LEMMA InsertKeepsUnique ==
  ASSUME NEW rows \in SUBSET Row, Unique(rows), NEW org, NEW sub, NEW role, NEW email,
         ~Conflicts(rows, org, sub, email)
  PROVE  Unique(Insert(rows, org, sub, role, email))
<1> DEFINE new == [id |-> NextRowId(rows), org |-> org, sub |-> sub, role |-> role,
                   email |-> email]
<1>1. \A m \in rows : m.id # new.id
  <2> SUFFICES ASSUME NEW m \in rows PROVE m.id # NextRowId(rows)
    OBVIOUS
  <2>1. m.id < NextRowId(rows) /\ m.id \in Nat
    BY NextRowIdIsFresh DEF Row, RowId
  <2> QED
    BY <2>1
<1>2. \A m \in rows : /\ ~(m.sub = new.sub /\ m.sub # NoSub)
                      /\ ~(m.org = new.org /\ m.email = new.email /\ m.email # NoEmail)
  BY DEF Conflicts
<1> HIDE DEF new
<1>3. Unique(rows \cup {new})
  BY <1>1, <1>2 DEF Unique
<1> QED
  BY <1>3 DEF Insert, new

\* Activating a row for a subject that has none keeps them unique.
LEMMA SetSubKeepsUnique ==
  ASSUME NEW rows \in SUBSET Row, Unique(rows), NEW m \in rows, NEW sub,
         GetMembership(rows, sub) = {}
  PROVE  Unique(SetSub(rows, m, sub))
<1> DEFINE new == [m EXCEPT !.sub = sub]
<1>1. /\ new.id = m.id /\ new.org = m.org /\ new.email = m.email /\ new.sub = sub
  BY DEF Row
<1>2. \A n \in rows : sub # NoSub => n.sub # sub
  BY DEF GetMembership
<1> HIDE DEF new
<1>3. Unique((rows \ {m}) \cup {new})
  BY <1>1, <1>2 DEF Unique
<1> QED
  BY <1>3 DEF SetSub, new

\* Changing roles keeps them unique.
LEMMA SetRoleKeepsUnique ==
  ASSUME NEW rows \in SUBSET Row, Unique(rows), NEW found \in SUBSET rows, NEW role
  PROVE  Unique(SetRole(rows, found, role))
<1> DEFINE changed(m) == IF m \in found THEN [m EXCEPT !.role = role] ELSE m
<1>1. \A m \in rows : /\ changed(m).id = m.id /\ changed(m).sub = m.sub
                      /\ changed(m).org = m.org /\ changed(m).email = m.email
  BY DEF Row
<1>2. \A n \in SetRole(rows, found, role) : \E m \in rows : n = changed(m)
  BY DEF SetRole
<1> HIDE DEF changed
<1>3. SUFFICES ASSUME NEW n1 \in SetRole(rows, found, role), NEW n2 \in SetRole(rows, found, role),
                      \/ n1.id = n2.id
                      \/ n1.sub = n2.sub /\ n1.sub # NoSub
                      \/ n1.org = n2.org /\ n1.email = n2.email /\ n1.email # NoEmail
               PROVE  n1 = n2
  BY DEF Unique
<1>4. PICK m1 \in rows : n1 = changed(m1)
  BY <1>2
<1>5. PICK m2 \in rows : n2 = changed(m2)
  BY <1>2
<1>6. m1 = m2
  BY <1>1, <1>3, <1>4, <1>5 DEF Unique
<1> QED
  BY <1>4, <1>5, <1>6

\* No behaviour gives a subject two memberships, or an address two rows in an
\* organization, however logins, admins and restarts interleave.
THEOREM Uniqueness == Spec => []UniqueMembership
<1>1. Init => UniqueMembership
  BY DEF Init, UniqueMembership
<1>2. IInv /\ UniqueMembership /\ [Next]_vars => UniqueMembership'
  <2> SUFFICES ASSUME IInv, Unique(memberships), [Next]_vars
               PROVE  Unique(memberships)'
    BY DEF Unique, UniqueMembership
  <2>m. memberships \in SUBSET Row
    BY DEF IInv, TypeOK
  <2>0. CASE UNCHANGED memberships
    BY <2>0 DEF Unique
  <2>1. ASSUME NEW r \in Request, Activate(r) PROVE Unique(memberships)'
    <3> DEFINE sub == call[r].sub
               rows == Activable(Seen(r).email)
    <3>1. CASE /\ rows # {} /\ GetMembership(memberships, sub) = {}
               /\ memberships' = SetSub(memberships, First(rows), sub)
      <4>1. First(rows) \in memberships
        BY <2>m, <3>1, FirstIsFound DEF Activable, GetPendingMembershipByEmail
      <4>2. Unique(SetSub(memberships, First(rows), sub))
        BY <2>m, <3>1, <4>1, SetSubKeepsUnique
      <4> QED
        BY <3>1, <4>2 DEF Unique
    <3> QED
      BY <2>0, <2>1, <3>1 DEF Activate
  <2>2. ASSUME NEW r \in Request, Provision(r) PROVE Unique(memberships)'
    <3> DEFINE org == config.defaultOrg
               role == config.defaultRole
               sub == call[r].sub
               email == StoredEmail(EmailClaim[sub])
    <3>1. \/ UNCHANGED memberships
          \/ memberships' = CreateMembership(memberships, org, sub, role, email)
      BY <2>2 DEF Provision
    <3>2. Unique(CreateMembership(memberships, org, sub, role, email))
      BY <2>m, InsertKeepsUnique DEF CreateMembership
    <3> QED
      BY <2>0, <3>1, <3>2 DEF Unique
  <2>3. ASSUME NEW r \in Request, AddOrgMember(r) PROVE Unique(memberships)'
    <3> DEFINE org == Me(r).org
               email == StoredEmail(call[r].email)
    <3>1. CASE /\ ~Conflicts(memberships, org, NoSub, email)
               /\ memberships' = Insert(memberships, org, NoSub, call[r].role, email)
      <4>1. Unique(Insert(memberships, org, NoSub, call[r].role, email))
        BY <2>m, <3>1, InsertKeepsUnique
      <4> QED
        BY <3>1, <4>1 DEF Unique
    <3> QED
      BY <2>0, <2>3, <3>1 DEF AddOrgMember
  <2>4. ASSUME NEW r \in Request, WriteMember(r) PROVE Unique(memberships)'
    <3>1. Targets(r) \in SUBSET memberships
      BY DEF Targets, Selected
    <3>2. Unique(SetRole(memberships, Targets(r), call[r].role))
      BY <2>m, <3>1, SetRoleKeepsUnique
    <3>3. Unique(memberships \ Targets(r))
      BY DEF Unique
    <3> QED
      BY <2>4, <3>2, <3>3 DEF WriteMember, Unique
  <2>p. ASSUME NEW m, PromoteIfNoAdmins(m) PROVE Unique(memberships)'
    <3> DEFINE found == Selected(memberships, m.org, m.sub, m.email)
    <3>1. found \in SUBSET memberships
      BY DEF Selected
    <3>2. Unique(SetRole(memberships, found, "admin"))
      BY <2>m, <3>1, SetRoleKeepsUnique
    <3> QED
      BY <2>0, <2>p, <3>2 DEF PromoteIfNoAdmins, Unique
  <2>5. CASE SeedAdminSub
    <3> DEFINE sub == config.adminSub
               mine == GetMembership(memberships, sub)
    <3>1. CASE /\ mine = {} /\ sub # NoSub
               /\ memberships' = UpsertMembership(memberships, config.seedOrg, sub, "admin", NoEmail)
      <4>1. ~Conflicts(memberships, config.seedOrg, sub, NoEmail)
        BY <3>1 DEF Conflicts, GetMembership
      <4>2. Unique(Insert(memberships, config.seedOrg, sub, "admin", NoEmail))
        BY <2>m, <4>1, InsertKeepsUnique
      <4> QED
        BY <3>1, <4>2 DEF UpsertMembership, Unique
    <3> QED
      BY <2>0, <2>5, <2>p, <3>1 DEF SeedAdminSub, SeedExisting
  <2>6. CASE SeedAdminEmail
    <3> DEFINE email == StoredEmail(config.adminEmail)
               pending == GetPendingMembershipByEmail(memberships, email)
               active == {m \in ListMembershipsByOrg(memberships, config.seedOrg) :
                            m.email = email /\ m.sub # NoSub}
    <3>1. CASE /\ email # NoEmail /\ pending = {} /\ active = {}
               /\ memberships' = Insert(memberships, config.seedOrg, NoSub, "admin", email)
      <4>1. CanonicalEmail[email] = email
        <5>1. config.adminEmail \in Address
          BY MembershipAssumption DEF IInv, TypeOK, ConfigType
        <5> QED
          BY <5>1, StoreAssumption DEF StoredEmail
      <4>2. ~Conflicts(memberships, config.seedOrg, NoSub, email)
        BY <3>1, <4>1 DEF Conflicts, GetPendingMembershipByEmail, ListMembershipsByOrg
      <4>3. Unique(Insert(memberships, config.seedOrg, NoSub, "admin", email))
        BY <2>m, <4>2, InsertKeepsUnique
      <4> QED
        BY <3>1, <4>3 DEF Unique
    <3> QED
      BY <2>0, <2>6, <2>p, <3>1 DEF SeedAdminEmail
  <2>7. ASSUME NEW r \in Request,
               \/ Receive(r) \/ LookUp(r) \/ FindInvite(r) \/ Reread(r) \/ ListOrgMembers(r)
               \/ FindMember(r) \/ CountAdminsOfOrg(r) \/ StoreError(r)
        PROVE Unique(memberships)'
    BY <2>0, <2>7 DEF Receive, LookUp, FindInvite, Reread, ListOrgMembers, FindMember,
                      CountAdminsOfOrg, StoreError
  <2>8. CASE Restart \/ UNCHANGED vars
    BY <2>0, <2>8 DEF Restart, vars
  <2> QED
    BY <2>1, <2>2, <2>3, <2>4, <2>5, <2>6, <2>7, <2>8 DEF Next, RequestStep
<1> QED
  BY <1>1, <1>2, TypeCorrect, PTL DEF Spec, IInv

-----------------------------------------------------------------------------
(* The invariants of the steps.                                            *)

\* A request that is being served has not been answered.
Waiting == \A r \in Request : pc[r] # "idle" => reply[r] = "none"

\* An invite that is about to be activated was addressed to the caller.
InviteRead ==
  \A r \in Request : pc[r] = "activate" =>
    \A m \in seen[r] : m.email = CanonicalEmail[EmailClaim[call[r].sub]]

\* Between its halves the seed has left an admin, if the subject it was told
\* of is nobody's but its own.
SubSeeded ==
  /\ server = "seed_email" /\ config.seedOrg # NoOrg /\ config.adminSub # NoSub
  /\ \A m \in GetMembership(memberships, config.adminSub) : m.org = config.seedOrg
  => ActiveAdmins(memberships, config.seedOrg) # {}

SInv == IInv /\ UniqueMembership /\ Waiting /\ InviteRead /\ SubSeeded

-----------------------------------------------------------------------------
(* The table.                                                              *)

\* Rows are finitely many, so that a count of no admins means there are none.
LEMMA NoneCounted ==
  ASSUME IInv, UniqueMembership, NEW org
  PROVE  CountAdmins(memberships, org) = 0 <=> ActiveAdmins(memberships, org) = {}
<1> DEFINE f == [m \in memberships |-> m.id]
<1>1. memberships \in SUBSET Row
  BY DEF IInv, TypeOK
<1>2. IsFiniteSet(RowId)
  BY FS_Interval, StoreAssumption DEF RowId
<1>3. f \in Injection(memberships, RowId)
  <2>1. f \in [memberships -> RowId]
    BY <1>1 DEF Row
  <2>2. \A m, n \in memberships : f[m] = f[n] => m = n
    BY DEF UniqueMembership
  <2> HIDE DEF f
  <2> QED
    BY <2>1, <2>2 DEF Injection, IsInjective
<1>4. IsFiniteSet(memberships)
  BY <1>2, <1>3, FS_Injection
<1>5. IsFiniteSet(ActiveAdmins(memberships, org))
  <2>1. ActiveAdmins(memberships, org) \in SUBSET memberships
    BY DEF ActiveAdmins
  <2> QED
    BY <1>4, <2>1, FS_Subset
<1> QED
  BY <1>5, FS_EmptySet DEF CountAdmins

\* How the three ways of writing a row relate it to the row it was.
LEMMA InsertedRows ==
  ASSUME NEW rows \in SUBSET Row, NEW org, NEW sub, NEW role, NEW email,
         NEW n \in Insert(rows, org, sub, role, email)
  PROVE  \/ n \in rows
         \/ /\ n.org = org /\ n.sub = sub /\ n.role = role
            /\ \A m \in rows : m.id # n.id
<1>1. CASE n \notin rows
  <2>1. n = [id |-> NextRowId(rows), org |-> org, sub |-> sub, role |-> role, email |-> email]
    BY <1>1 DEF Insert
  <2>2. \A m \in rows : m.id < NextRowId(rows) /\ m.id \in Nat
    BY NextRowIdIsFresh DEF Row, RowId
  <2>3. \A m \in rows : m.id # NextRowId(rows)
    BY <2>2
  <2> QED
    BY <2>1, <2>3
<1> QED
  BY <1>1

\* An activation changes the subject of one row and nothing else.
LEMMA ActivatedRows ==
  ASSUME NEW rows \in SUBSET Row, NEW m \in rows, NEW sub, NEW n \in SetSub(rows, m, sub)
  PROVE  \/ n \in rows
         \/ /\ n = [m EXCEPT !.sub = sub]
            /\ n.id = m.id /\ n.org = m.org /\ n.role = m.role /\ n.sub = sub
  BY DEF SetSub, Row

\* An update of roles changes roles and nothing else.
LEMMA ChangedRows ==
  ASSUME NEW rows \in SUBSET Row, NEW found \in SUBSET rows, NEW role,
         NEW n \in SetRole(rows, found, role)
  PROVE  \/ n \in rows \ found
         \/ \E m \in found : /\ n.id = m.id /\ n.org = m.org /\ n.sub = m.sub
                             /\ n.role = role
  BY DEF SetRole, Row

-----------------------------------------------------------------------------
(* All that writes.                                                        *)

Activates(r) ==
  /\ server = "serving" /\ pc[r] = "activate" /\ pc'[r] # "activate"
  /\ \E m \in Activable(Seen(r).email) : memberships' = SetSub(memberships, m, call[r].sub)

Provisions(r) ==
  /\ server = "serving" /\ pc[r] = "provision" /\ pc'[r] # "provision"
  /\ DefaultEnabled /\ call[r].sub # NoSub
  /\ \E email : memberships' = Insert(memberships, config.defaultOrg, call[r].sub,
                                      config.defaultRole, email)

Adds(r) ==
  /\ server = "serving" /\ pc[r] = "add" /\ pc'[r] = "idle"
  /\ \E email : memberships' = Insert(memberships, Me(r).org, NoSub, call[r].role, email)

Writes(r) ==
  /\ server = "serving" /\ pc[r] = "write" /\ pc'[r] = "idle"
  /\ \/ memberships' = memberships \ Targets(r)
     \/ memberships' = SetRole(memberships, Targets(r), call[r].role)

Promotes ==
  \E m \in memberships :
    /\ MayPromote(m)
    /\ memberships' = SetRole(memberships, Selected(memberships, m.org, m.sub, m.email), "admin")

SeedsRow ==
  \E sub \in {config.adminSub, NoSub} : \E email :
    memberships' = Insert(memberships, config.seedOrg, sub, "admin", email)

\* A handler that goes on after ResolveCaller is at a step of its own.
LEMMA ResolvedGoes ==
  ASSUME TypeOK, NEW r \in Request, NEW m, Resolved(r, m)
  PROVE  /\ pc'[r] \in {"idle", "list", "add", "find"}
         /\ pc'[r] # "idle" => reply'[r] = reply[r]
         /\ \A q \in Request \ {r} :
              /\ pc'[q] = pc[q] /\ call'[q] = call[q] /\ seen'[q] = seen[q]
              /\ caller'[q] = caller[q] /\ reply'[q] = reply[q]
  BY DEF Resolved, Finish, Goto, Read, NextCall, TypeOK

\* A handler that returns touches no other.
LEMMA FinishGoes ==
  ASSUME TypeOK, NEW r \in Request, NEW code, Finish(r, code)
  PROVE  /\ pc'[r] = "idle" /\ reply'[r] = code /\ caller'[r] = {}
         /\ \A q \in Request \ {r} :
              /\ pc'[q] = pc[q] /\ call'[q] = call[q] /\ seen'[q] = seen[q]
              /\ caller'[q] = caller[q] /\ reply'[q] = reply[q]
  BY DEF Finish, Goto, Read, TypeOK

\* Nor does one that goes on to its next repository call.
LEMMA ContinueGoes ==
  ASSUME TypeOK, NEW r \in Request, NEW step, Continue(r, step),
         UNCHANGED seen \/ \E rows : Read(r, rows)
  PROVE  /\ pc'[r] = step /\ reply' = reply /\ caller' = caller /\ call' = call
         /\ \A q \in Request \ {r} : pc'[q] = pc[q] /\ seen'[q] = seen[q]
  BY DEF Continue, Goto, Read, TypeOK

\* The table changes in a login's activation or provisioning, an admin's two
\* writes and the seed's two, and nowhere else.
LEMMA OnlyTheseWrite ==
  ASSUME IInv, [Next]_vars
  PROVE  \/ UNCHANGED memberships
         \/ \E r \in Request : Activates(r) \/ Provisions(r) \/ Adds(r) \/ Writes(r)
         \/ server # "serving" /\ (Promotes \/ SeedsRow)
<1>m. memberships \in SUBSET Row /\ TypeOK
  BY DEF IInv, TypeOK
<1>1. ASSUME NEW r \in Request, Activate(r)
      PROVE  UNCHANGED memberships \/ Activates(r)
  <2> DEFINE rows == Activable(Seen(r).email)
  <2>1. CASE /\ rows # {} /\ memberships' = SetSub(memberships, First(rows), call[r].sub)
             /\ Resolved(r, Seen(r))
    <3>1. rows \in SUBSET Row
      BY <1>m DEF Activable, GetPendingMembershipByEmail
    <3>2. First(rows) \in rows
      BY <2>1, <3>1, FirstIsFound
    <3>3. pc'[r] \in {"idle", "list", "add", "find"}
      BY <1>m, <2>1, ResolvedGoes
    <3> QED
      BY <1>1, <2>1, <3>2, <3>3 DEF Activate, At, Activates
  <2> QED
    BY <1>1, <2>1 DEF Activate
<1>2. ASSUME NEW r \in Request, Provision(r)
      PROVE  UNCHANGED memberships \/ Provisions(r)
  <2> DEFINE email == StoredEmail(EmailClaim[call[r].sub])
             org == config.defaultOrg
             clash == Conflicts(memberships, org, call[r].sub, email)
  <2>1. server = "serving" /\ pc[r] = "provision" /\ call[r].sub # NoSub
    BY <1>2 DEF Provision, At, IInv, HandlerInv
  <2>2. CASE /\ DefaultEnabled /\ ~clash
             /\ memberships' = CreateMembership(memberships, org, call[r].sub, config.defaultRole, email)
             /\ Resolved(r, [org |-> org, role |-> config.defaultRole])
    <3>1. pc'[r] \in {"idle", "list", "add", "find"}
      BY <1>m, <2>2, ResolvedGoes
    <3>2. memberships' = Insert(memberships, org, call[r].sub, config.defaultRole, email)
      BY <2>2 DEF CreateMembership
    <3> QED
      BY <2>1, <2>2, <3>1, <3>2 DEF Provisions
  <2>3. CASE clash /\ memberships' = CreateMembership(memberships, org, call[r].sub, config.defaultRole, email)
    BY <2>3 DEF CreateMembership
  <2> QED
    BY <1>2, <2>2, <2>3 DEF Provision
<1>3. ASSUME NEW r \in Request, AddOrgMember(r)
      PROVE  UNCHANGED memberships \/ Adds(r)
  BY <1>m, <1>3, FinishGoes DEF AddOrgMember, At, Adds
<1>4. ASSUME NEW r \in Request, WriteMember(r)
      PROVE  Writes(r)
  BY <1>m, <1>4, FinishGoes DEF WriteMember, At, Writes
<1>5. ASSUME SeedAdminSub
      PROVE  UNCHANGED memberships \/ (server # "serving" /\ (Promotes \/ SeedsRow))
  <2> DEFINE mine == GetMembership(memberships, config.adminSub)
  <2>1. CASE mine # {} /\ SeedExisting(First(mine))
    <3>1. First(mine) \in memberships
      BY <1>m, <2>1, FirstIsFound DEF GetMembership
    <3> QED
      BY <1>5, <2>1, <3>1 DEF SeedExisting, PromoteIfNoAdmins, Promotes, SeedAdminSub
  <2>2. CASE mine = {} /\ memberships' = UpsertMembership(memberships, config.seedOrg,
                                                          config.adminSub, "admin", NoEmail)
    BY <1>5, <2>2 DEF UpsertMembership, SeedsRow, SeedAdminSub
  <2> QED
    BY <1>5, <2>1, <2>2 DEF SeedAdminSub
<1>6. ASSUME SeedAdminEmail
      PROVE  UNCHANGED memberships \/ (server # "serving" /\ (Promotes \/ SeedsRow))
  <2> DEFINE email == StoredEmail(config.adminEmail)
             active == {m \in ListMembershipsByOrg(memberships, config.seedOrg) :
                          m.email = email /\ m.sub # NoSub}
  <2>1. CASE active # {} /\ PromoteIfNoAdmins(First(active))
    <3>1. First(active) \in memberships
      BY <1>m, <2>1, FirstIsFound DEF ListMembershipsByOrg
    <3> QED
      BY <1>6, <2>1, <3>1 DEF PromoteIfNoAdmins, Promotes, SeedAdminEmail
  <2>2. CASE memberships' = Insert(memberships, config.seedOrg, NoSub, "admin", email)
    BY <1>6, <2>2 DEF SeedsRow, SeedAdminEmail
  <2> QED
    BY <1>6, <2>1, <2>2 DEF SeedAdminEmail
<1>7. ASSUME NEW r \in Request,
             \/ Receive(r) \/ LookUp(r) \/ FindInvite(r) \/ Reread(r) \/ ListOrgMembers(r)
             \/ FindMember(r) \/ CountAdminsOfOrg(r) \/ StoreError(r)
      PROVE  UNCHANGED memberships
  BY <1>7 DEF Receive, LookUp, FindInvite, Reread, ListOrgMembers, FindMember,
              CountAdminsOfOrg, StoreError
<1>8. CASE Restart \/ UNCHANGED vars
  BY <1>8 DEF Restart, vars
<1> QED
  BY <1>1, <1>2, <1>3, <1>4, <1>5, <1>6, <1>7, <1>8 DEF Next, RequestStep

-----------------------------------------------------------------------------
(* The invariants hold.                                                    *)

\* A step of one request keeps what is known of all of them.
LEMMA RequestsKeep ==
  ASSUME IInv, Waiting, InviteRead, NEW r \in Request, RequestStep(r)
  PROVE  Waiting' /\ InviteRead'
<1>t. TypeOK
  BY DEF IInv
<1>f. ASSUME NEW code, Finish(r, code)
      PROVE  Waiting' /\ InviteRead'
  <2>1. pc'[r] = "idle" /\ \A q \in Request \ {r} :
          pc'[q] = pc[q] /\ call'[q] = call[q] /\ seen'[q] = seen[q] /\ reply'[q] = reply[q]
    BY <1>t, <1>f, FinishGoes
  <2> QED
    BY <2>1 DEF Waiting, InviteRead
<1>d. ASSUME NEW m, Resolved(r, m), pc[r] # "idle"
      PROVE  Waiting' /\ InviteRead'
  <2>1. /\ pc'[r] \in {"idle", "list", "add", "find"}
        /\ pc'[r] # "idle" => reply'[r] = reply[r]
        /\ \A q \in Request \ {r} :
             pc'[q] = pc[q] /\ call'[q] = call[q] /\ seen'[q] = seen[q] /\ reply'[q] = reply[q]
    BY <1>t, <1>d, ResolvedGoes
  <2> QED
    BY <1>d, <2>1 DEF Waiting, InviteRead
<1>c. ASSUME NEW step, step # "activate", Continue(r, step), pc[r] # "idle",
             UNCHANGED seen \/ \E rows : Read(r, rows)
      PROVE  Waiting' /\ InviteRead'
  <2>1. /\ pc'[r] = step /\ reply' = reply /\ call' = call
        /\ \A q \in Request \ {r} : pc'[q] = pc[q] /\ seen'[q] = seen[q]
    BY <1>t, <1>c, ContinueGoes
  <2> QED
    BY <1>c, <2>1 DEF Waiting, InviteRead
<1>1. CASE Receive(r)
  BY <1>t, <1>1 DEF Receive, At, Goto, Waiting, InviteRead, TypeOK
<1>2. CASE LookUp(r)
  BY <1>2, <1>f, <1>d, <1>c DEF LookUp, At
<1>3. CASE FindInvite(r)
  <2> DEFINE found == GetPendingMembershipByEmail(memberships, EmailClaim[call[r].sub])
  <2>1. CASE found # {} /\ Read(r, {First(found)}) /\ Continue(r, "activate")
    <3>1. First(found) \in found
      BY <1>t, <2>1, FirstIsFound DEF TypeOK, GetPendingMembershipByEmail
    <3>2. First(found).email = CanonicalEmail[EmailClaim[call[r].sub]]
      BY <3>1 DEF GetPendingMembershipByEmail
    <3>3. /\ pc'[r] = "activate" /\ reply' = reply /\ call' = call
          /\ \A q \in Request \ {r} : pc'[q] = pc[q] /\ seen'[q] = seen[q]
      BY <1>t, <2>1, ContinueGoes
    <3>4. seen'[r] = {First(found)} /\ pc[r] # "idle"
      BY <1>t, <1>3, <2>1 DEF Read, TypeOK, FindInvite, At
    <3> HIDE DEF found
    <3> QED
      BY <3>2, <3>3, <3>4 DEF Waiting, InviteRead
  <2>2. CASE UNCHANGED seen /\ Continue(r, "provision")
    BY <1>3, <2>2, <1>c DEF FindInvite, At
  <2> QED
    BY <1>3, <2>1, <2>2 DEF FindInvite
<1>4. CASE Activate(r) \/ Provision(r) \/ Reread(r)
  BY <1>4, <1>f, <1>d, <1>c DEF Activate, Provision, Reread, At
<1>5. CASE ListOrgMembers(r) \/ AddOrgMember(r) \/ WriteMember(r) \/ StoreError(r)
  BY <1>5, <1>f DEF ListOrgMembers, AddOrgMember, WriteMember, StoreError
<1>6. CASE FindMember(r)
  BY <1>6, <1>f, <1>c DEF FindMember, At
<1>7. CASE CountAdminsOfOrg(r)
  BY <1>7, <1>f, <1>c DEF CountAdminsOfOrg, At
<1> QED
  BY <1>1, <1>2, <1>3, <1>4, <1>5, <1>6, <1>7 DEF RequestStep

\* The first half of the seed leaves an admin, or finds its subject elsewhere.
LEMMA SubHalfSeeds ==
  ASSUME IInv, UniqueMembership, SeedAdminSub
  PROVE  SubSeeded'
<1> DEFINE org == config.seedOrg
           sub == config.adminSub
           mine == GetMembership(memberships, sub)
<1>m. memberships \in SUBSET Row /\ config' = config
  BY DEF IInv, TypeOK, SeedAdminSub
<1> SUFFICES ASSUME org # NoOrg, sub # NoSub,
                    \A m \in GetMembership(memberships', sub) : m.org = org
             PROVE  \E a \in memberships' : a.org = org /\ a.role = "admin" /\ a.sub # NoSub
  BY <1>m DEF SubSeeded, ActiveAdmins
<1>1. CASE mine = {} /\ memberships' = UpsertMembership(memberships, org, sub, "admin", NoEmail)
  <2> DEFINE new == [id |-> NextRowId(memberships), org |-> org, sub |-> sub,
                     role |-> "admin", email |-> NoEmail]
  <2>1. memberships' = Insert(memberships, org, sub, "admin", NoEmail)
    BY <1>1 DEF UpsertMembership
  <2>2. new \in memberships'
    BY <2>1 DEF Insert
  <2>3. new.org = org /\ new.role = "admin" /\ new.sub = sub
    OBVIOUS
  <2> HIDE DEF new
  <2> QED
    BY <2>2, <2>3
<1>2. CASE mine # {} /\ SeedExisting(First(mine))
  <2> DEFINE m == First(mine)
             found == Selected(memberships, m.org, m.sub, m.email)
  <2>1. m \in memberships /\ m.sub = sub /\ m \in Row
    BY <1>m, <1>2, FirstIsFound DEF GetMembership
  <2>2. CASE MayPromote(m)
    <3>1. memberships' = SetRole(memberships, found, "admin")
      BY <1>2, <2>2 DEF SeedExisting, PromoteIfNoAdmins
    <3>2. m \in found
      BY <2>1 DEF Selected
    <3>3. [m EXCEPT !.role = "admin"] \in memberships'
      BY <3>1, <3>2 DEF SetRole
    <3>4. m.org = org
      BY <2>2 DEF MayPromote
    <3> HIDE DEF m
    <3> QED
      BY <2>1, <3>3, <3>4 DEF Row
  <2>3. CASE ~MayPromote(m)
    <3>1. memberships' = memberships
      BY <1>2, <2>3 DEF SeedExisting, PromoteIfNoAdmins
    <3>2. m.org = org
      BY <2>1, <3>1 DEF GetMembership
    <3>3. CASE m.role = "admin"
      BY <2>1, <3>1, <3>2, <3>3
    <3>4. CASE CountAdmins(memberships, org) # 0
      <4>1. ActiveAdmins(memberships, org) # {}
        BY <3>4, NoneCounted
      <4> QED
        BY <3>1, <4>1 DEF ActiveAdmins
    <3> QED
      BY <2>3, <3>2, <3>3, <3>4 DEF MayPromote
  <2> QED
    BY <2>2, <2>3
<1> QED
  BY <1>1, <1>2 DEF SeedAdminSub

\* So does every other step.
LEMMA StepKeeps ==
  ASSUME IInv, UniqueMembership, Waiting, InviteRead, SubSeeded, [Next]_vars
  PROVE  Waiting' /\ InviteRead' /\ SubSeeded'
<1>1. ASSUME NEW r \in Request, RequestStep(r)
      PROVE  Waiting' /\ InviteRead' /\ SubSeeded'
  <2>1. server = "serving" /\ server' = server
    BY <1>1 DEF RequestStep, At, serverVars, Receive, LookUp, FindInvite, Activate, Provision,
                Reread, ListOrgMembers, AddOrgMember, FindMember, CountAdminsOfOrg,
                WriteMember, StoreError
  <2>2. SubSeeded'
    BY <2>1 DEF SubSeeded
  <2> QED
    BY <1>1, <2>2, RequestsKeep
<1>2. CASE SeedAdminSub
  BY <1>2, SubHalfSeeds DEF SeedAdminSub, requestVars, Waiting, InviteRead
<1>3. CASE SeedAdminEmail
  BY <1>3 DEF SeedAdminEmail, requestVars, Waiting, InviteRead, SubSeeded
<1>4. CASE Restart
  BY <1>4 DEF Restart, Waiting, InviteRead, SubSeeded
<1>5. CASE UNCHANGED vars
  BY <1>5 DEF vars, Waiting, InviteRead, SubSeeded, ActiveAdmins, GetMembership
<1> QED
  BY <1>1, <1>2, <1>3, <1>4, <1>5 DEF Next

\* In every behaviour a request in progress has not been answered, the invite it
\* has read is its subject's own, and half a seed has left its admin
\* (withoutMembership, seed.Run).
THEOREM StepInvariant == Spec => []SInv
<1>1. Init => Waiting /\ InviteRead /\ SubSeeded
  BY DEF Init, Waiting, InviteRead, SubSeeded
<1>2. IInv /\ UniqueMembership /\ Waiting /\ InviteRead /\ SubSeeded /\ [Next]_vars
        => Waiting' /\ InviteRead' /\ SubSeeded'
  BY StepKeeps
<1> QED
  BY <1>1, <1>2, TypeCorrect, Uniqueness, PTL DEF Spec, SInv, IInv

-----------------------------------------------------------------------------
(* The theorems.                                                           *)

\* Where a row with a new role comes from.
LEMMA RoleChanges ==
  ASSUME SInv, [Next]_vars, NEW m \in memberships, NEW n \in memberships',
         m.id = n.id, m.role # n.role
  PROVE  \/ /\ server # "serving"
            /\ n.role = "admin" /\ ActiveAdmins(memberships, m.org) = {}
         \/ /\ server = "serving"
            /\ \E r \in Request : /\ pc[r] = "write" /\ pc'[r] = "idle"
                                  /\ ActsForAdmin(r, m.org) /\ call[r].role = n.role
<1>u. memberships \in SUBSET Row /\ IInv /\ TypeOK
  BY DEF SInv, IInv, TypeOK
<1>n. \A k \in memberships : k.id = m.id => k = m
  BY DEF SInv, UniqueMembership
<1>0. n \notin memberships
  BY <1>n
<1>i. ASSUME NEW org, NEW sub, NEW role, NEW email,
             memberships' = Insert(memberships, org, sub, role, email)
      PROVE  FALSE
  BY <1>u, <1>0, <1>i, InsertedRows
<1>1. ASSUME NEW r \in Request, Activates(r)
      PROVE  FALSE
  <2>1. PICK k \in memberships : memberships' = SetSub(memberships, k, call[r].sub)
    BY <1>1 DEF Activates, Activable, GetPendingMembershipByEmail
  <2>2. n.id = k.id /\ n.role = k.role
    BY <1>u, <1>0, <2>1, ActivatedRows
  <2> QED
    BY <1>n, <2>2
<1>2. ASSUME NEW r \in Request, Writes(r)
      PROVE  ActsForAdmin(r, m.org) /\ call[r].role = n.role
  <2>1. memberships' = SetRole(memberships, Targets(r), call[r].role)
    BY <1>0, <1>2 DEF Writes
  <2>2. Targets(r) \in SUBSET memberships /\ \A k \in Targets(r) : k.org = Me(r).org
    BY DEF Targets, Selected
  <2>3. PICK k \in Targets(r) : n.id = k.id /\ n.role = call[r].role
    BY <1>u, <1>0, <2>1, <2>2, ChangedRows
  <2>4. k = m /\ m.org = Me(r).org
    BY <1>n, <2>2, <2>3
  <2>5. Me(r) \in caller[r] /\ Me(r).role = "admin"
    BY <1>u, <1>2, MeIsTheCaller DEF Writes, IInv, HandlerInv
  <2> QED
    BY <2>3, <2>4, <2>5 DEF ActsForAdmin
<1>3. ASSUME Promotes
      PROVE  n.role = "admin" /\ ActiveAdmins(memberships, m.org) = {}
  <2>1. PICK k \in memberships :
          /\ MayPromote(k)
          /\ memberships' = SetRole(memberships, Selected(memberships, k.org, k.sub, k.email), "admin")
    BY <1>3 DEF Promotes
  <2> DEFINE found == Selected(memberships, k.org, k.sub, k.email)
  <2>2. found \in SUBSET memberships /\ \A j \in found : j.org = k.org
    BY DEF Selected
  <2>3. PICK j \in found : n.id = j.id /\ n.role = "admin"
    BY <1>u, <1>0, <2>1, <2>2, ChangedRows
  <2>4. m.org = config.seedOrg
    BY <1>n, <2>1, <2>2, <2>3 DEF MayPromote
  <2>5. ActiveAdmins(memberships, config.seedOrg) = {}
    BY <1>u, <2>1, NoneCounted DEF MayPromote, SInv
  <2> QED
    BY <2>3, <2>4, <2>5
<1> QED
  <2>1. \A r \in Request : ~Activates(r) /\ ~Provisions(r) /\ ~Adds(r)
    BY <1>i, <1>1 DEF Provisions, Adds
  <2>2. ~SeedsRow
    BY <1>i DEF SeedsRow
  <2>3. \A r \in Request : Writes(r) => server = "serving" /\ pc[r] = "write" /\ pc'[r] = "idle"
    BY DEF Writes
  <2>4. CASE server # "serving" /\ Promotes
    <3>1. n.role = "admin" /\ ActiveAdmins(memberships, m.org) = {}
      BY <1>3, <2>4
    <3> QED
      BY <2>4, <3>1
  <2> QED
    BY <1>u, <1>0, <1>2, <2>1, <2>2, <2>3, <2>4, OnlyTheseWrite

\* Only an admin's decision, or a seed that finds no admin, changes a role,
\* whoever logs in or restarts meanwhile (provisionDefault, promoteIfNoAdmins).
THEOREM Decisions == Spec => RolesChangeByDecision
<1>1. SInv /\ [Next]_vars =>
        [\A m \in memberships, n \in memberships' :
           m.id = n.id /\ m.role # n.role =>
             \/ /\ server # "serving"
                /\ n.role = "admin" /\ ActiveAdmins(memberships, m.org) = {}
             \/ \E r \in Request : /\ pc[r] = "write" /\ pc'[r] = "idle"
                                   /\ ActsForAdmin(r, m.org) /\ call[r].role = n.role]_vars
  BY RoleChanges
<1> QED
  BY <1>1, StepInvariant, PTL DEF Spec, RolesChangeByDecision

\* A restart promotes nobody while there is an admin (promoteIfNoAdmins).
THEOREM Demotions == Spec => RestartRespectsDemotion
<1>1. SInv /\ [Next]_vars =>
        [\A m \in memberships, n \in memberships' :
           server # "serving" /\ m.id = n.id /\ m.role # n.role
             => ActiveAdmins(memberships, m.org) = {}]_vars
  BY RoleChanges
<1> QED
  BY <1>1, StepInvariant, PTL DEF Spec, RestartRespectsDemotion

\* Nobody but an admin of its organization and the seed writes an invite
\* (AddOrgMember, seed.Run).
THEOREM Invites == Spec => InvitesComeFromAdmins
<1>1. SInv /\ [Next]_vars =>
        [\A n \in memberships' :
           n.sub = NoSub /\ (\A m \in memberships : m.id # n.id) =>
             \/ server # "serving"
             \/ \E r \in Request : pc[r] = "add" /\ pc'[r] = "idle" /\ ActsForAdmin(r, n.org)]_vars
  <2> SUFFICES ASSUME SInv, [Next]_vars, NEW n \in memberships', n.sub = NoSub,
                      \A m \in memberships : m.id # n.id, server = "serving"
               PROVE  \E r \in Request : /\ pc[r] = "add" /\ pc'[r] = "idle"
                                         /\ ActsForAdmin(r, n.org)
    OBVIOUS
  <2>u. memberships \in SUBSET Row /\ IInv /\ TypeOK /\ n \notin memberships
    BY DEF SInv, IInv, TypeOK
  <2>1. ASSUME NEW r \in Request, Activates(r)
        PROVE  FALSE
    <3>1. PICK k \in memberships : memberships' = SetSub(memberships, k, call[r].sub)
      BY <2>1 DEF Activates, Activable, GetPendingMembershipByEmail
    <3> QED
      BY <2>u, <3>1, ActivatedRows
  <2>2. ASSUME NEW r \in Request, Provisions(r)
        PROVE  FALSE
    BY <2>u, <2>2, InsertedRows DEF Provisions
  <2>3. ASSUME NEW r \in Request, Writes(r)
        PROVE  FALSE
    <3>1. Targets(r) \in SUBSET memberships
      BY DEF Targets, Selected
    <3>2. memberships' = SetRole(memberships, Targets(r), call[r].role)
      BY <2>u, <2>3 DEF Writes
    <3> QED
      BY <2>u, <3>1, <3>2, ChangedRows
  <2>4. PICK r \in Request : Adds(r)
    BY <2>u, <2>1, <2>2, <2>3, OnlyTheseWrite
  <2>5. n.org = Me(r).org
    BY <2>u, <2>4, InsertedRows DEF Adds
  <2>6. Me(r) \in caller[r] /\ Me(r).role = "admin"
    BY <2>u, <2>4, MeIsTheCaller DEF Adds, IInv, HandlerInv
  <2> QED
    BY <2>4, <2>5, <2>6 DEF Adds, ActsForAdmin
<1> QED
  BY <1>1, StepInvariant, PTL DEF Spec, InvitesComeFromAdmins

\* While the server serves, a row changes only by its own subject's login or by
\* an admin of its organization, for any interleaving (Selected, Activable).
THEOREM OwnRows == Spec => OwnRowOrOwnOrg
<1>1. SInv /\ [Next]_vars =>
        [server = "serving" =>
           \A m \in (memberships \ memberships') \cup (memberships' \ memberships) :
             \E r \in Request :
               /\ pc[r] # pc'[r]
               /\ \/ ActsForAdmin(r, m.org)
                  \/ pc[r] \in {"activate", "provision"} /\ m.sub \in {call[r].sub, NoSub}]_vars
  <2> SUFFICES ASSUME SInv, [Next]_vars, server = "serving",
                      NEW m \in (memberships \ memberships') \cup (memberships' \ memberships)
               PROVE  \E r \in Request :
                        /\ pc[r] # pc'[r]
                        /\ \/ ActsForAdmin(r, m.org)
                           \/ /\ pc[r] \in {"activate", "provision"}
                              /\ m.sub \in {call[r].sub, NoSub}
    OBVIOUS
  <2>u. memberships \in SUBSET Row /\ IInv /\ TypeOK
    BY DEF SInv, IInv, TypeOK
  <2>a. ASSUME NEW r \in Request, pc[r] \in {"add", "write"}
        PROVE  ActsForAdmin(r, Me(r).org)
    BY <2>u, <2>a, MeIsTheCaller DEF IInv, HandlerInv, ActsForAdmin
  <2>1. ASSUME NEW r \in Request, Activates(r)
        PROVE  m.sub \in {call[r].sub, NoSub}
    <3>1. PICK k \in memberships : k.sub = NoSub /\ memberships' = SetSub(memberships, k, call[r].sub)
      BY <2>1 DEF Activates, Activable, GetPendingMembershipByEmail
    <3>2. CASE m \in memberships'
      BY <2>u, <3>1, <3>2, ActivatedRows
    <3>3. CASE m \notin memberships'
      BY <3>1, <3>3 DEF SetSub
    <3> QED
      BY <3>2, <3>3
  <2>2. ASSUME NEW r \in Request, Provisions(r)
        PROVE  m.sub = call[r].sub
    <3>1. PICK email : memberships' = Insert(memberships, config.defaultOrg, call[r].sub,
                                             config.defaultRole, email)
      BY <2>2 DEF Provisions
    <3>2. memberships \subseteq memberships'
      BY <3>1 DEF Insert
    <3> QED
      BY <2>u, <3>1, <3>2, InsertedRows
  <2>3. ASSUME NEW r \in Request, Adds(r)
        PROVE  m.org = Me(r).org
    <3>1. PICK email : memberships' = Insert(memberships, Me(r).org, NoSub, call[r].role, email)
      BY <2>3 DEF Adds
    <3>2. memberships \subseteq memberships'
      BY <3>1 DEF Insert
    <3> QED
      BY <2>u, <3>1, <3>2, InsertedRows
  <2>4. ASSUME NEW r \in Request, Writes(r)
        PROVE  m.org = Me(r).org
    <3>1. Targets(r) \in SUBSET memberships /\ \A k \in Targets(r) : k.org = Me(r).org
      BY DEF Targets, Selected
    <3>2. CASE m \notin memberships'
      BY <2>4, <3>1, <3>2 DEF Writes, SetRole
    <3>3. CASE m \in memberships'
      BY <2>u, <2>4, <3>1, <3>3, ChangedRows DEF Writes
    <3> QED
      BY <3>2, <3>3
  <2>5. PICK r \in Request : Activates(r) \/ Provisions(r) \/ Adds(r) \/ Writes(r)
    BY <2>u, OnlyTheseWrite
  <2>6. CASE Activates(r) \/ Provisions(r)
    BY <2>1, <2>2, <2>6 DEF Activates, Provisions
  <2>7. CASE Adds(r) \/ Writes(r)
    BY <2>a, <2>3, <2>4, <2>7 DEF Adds, Writes
  <2> QED
    BY <2>5, <2>6, <2>7
<1> QED
  BY <1>1, StepInvariant, PTL DEF Spec, OwnRowOrOwnOrg

\* Once the seed is through, its organization has an admin, after any number
\* of crashes half way (seed.Run).
THEOREM Starts == Spec => StartLeavesAnAdmin
<1>1. SInv /\ [Next]_vars =>
        [/\ server = "seed_email" /\ server' = "serving"
         /\ config.seedOrg # NoOrg /\ config.adminSub # NoSub
         /\ \A m \in GetMembership(memberships, config.adminSub) : m.org = config.seedOrg
         => ActiveAdmins(memberships', config.seedOrg) # {}]_vars
  <2> SUFFICES ASSUME SInv, [Next]_vars, server = "seed_email",
                      config.seedOrg # NoOrg, config.adminSub # NoSub,
                      \A m \in GetMembership(memberships, config.adminSub) : m.org = config.seedOrg
               PROVE  ActiveAdmins(memberships', config.seedOrg) # {}
    OBVIOUS
  <2>u. memberships \in SUBSET Row /\ IInv
    BY DEF SInv, IInv, TypeOK
  <2>1. PICK a \in memberships : a.org = config.seedOrg /\ a.role = "admin" /\ a.sub # NoSub
    BY DEF SInv, SubSeeded, ActiveAdmins
  <2>2. CASE a \in memberships'
    BY <2>1, <2>2 DEF ActiveAdmins
  <2>3. CASE a \notin memberships'
    <3>1. Promotes
      <4>1. ~SeedsRow
        BY <2>3 DEF SeedsRow, Insert
      <4>2. \A r \in Request : ~Activates(r) /\ ~Provisions(r) /\ ~Adds(r) /\ ~Writes(r)
        BY DEF Activates, Provisions, Adds, Writes
      <4> QED
        BY <2>u, <2>3, <4>1, <4>2, OnlyTheseWrite
    <3>2. PICK found \in SUBSET memberships : memberships' = SetRole(memberships, found, "admin")
      BY <3>1 DEF Promotes, Selected
    <3>3. [a EXCEPT !.role = "admin"] \in memberships'
      BY <2>3, <3>2 DEF SetRole
    <3>4. [a EXCEPT !.role = "admin"] = a
      BY <2>u, <2>1 DEF Row
    <3> QED
      BY <2>3, <3>3, <3>4
  <2> QED
    BY <2>2, <2>3
<1> QED
  BY <1>1, StepInvariant, PTL DEF Spec, StartLeavesAnAdmin

\* A subject becomes a member by an invite to its own address, by the baseline
\* or by the seed, however invites and logins interleave (withoutMembership).
THEOREM Enrollment == Spec => NoSelfEnrollment
<1>1. SInv /\ [Next]_vars =>
        [\A n \in memberships' :
           n.sub # NoSub /\ GetMembership(memberships, n.sub) = {} =>
             \/ \E m \in GetPendingMembershipByEmail(memberships, EmailClaim[n.sub]) :
                   n = [m EXCEPT !.sub = n.sub]
             \/ DefaultEnabled /\ n.org = config.defaultOrg /\ n.role = config.defaultRole
             \/ server # "serving" /\ n.sub = config.adminSub]_vars
  <2> SUFFICES ASSUME SInv, [Next]_vars, NEW n \in memberships', n.sub # NoSub,
                      GetMembership(memberships, n.sub) = {}
               PROVE  \/ \E m \in GetPendingMembershipByEmail(memberships, EmailClaim[n.sub]) :
                            n = [m EXCEPT !.sub = n.sub]
                      \/ DefaultEnabled /\ n.org = config.defaultOrg /\ n.role = config.defaultRole
                      \/ server # "serving" /\ n.sub = config.adminSub
    OBVIOUS
  <2>u. memberships \in SUBSET Row /\ IInv /\ TypeOK
    BY DEF SInv, IInv, TypeOK
  <2>n. \A m \in memberships : m.sub # n.sub
    BY DEF GetMembership
  <2>c. ASSUME NEW found \in SUBSET memberships, NEW role,
               memberships' = SetRole(memberships, found, role)
        PROVE  FALSE
    BY <2>u, <2>n, <2>c, ChangedRows
  <2>1. ASSUME NEW r \in Request, Activates(r)
        PROVE  \E m \in GetPendingMembershipByEmail(memberships, EmailClaim[n.sub]) :
                 n = [m EXCEPT !.sub = n.sub]
    <3>1. PICK m \in Activable(Seen(r).email) : memberships' = SetSub(memberships, m, call[r].sub)
      BY <2>1 DEF Activates
    <3>2. m \in memberships /\ m.sub = NoSub /\ m.email # NoEmail
          /\ m.email = CanonicalEmail[Seen(r).email]
      BY <3>1 DEF Activable, GetPendingMembershipByEmail
    <3>3. n = [m EXCEPT !.sub = call[r].sub] /\ n.sub = call[r].sub
      BY <2>u, <2>n, <3>1, <3>2, ActivatedRows
    <3>4. Seen(r) \in seen[r] /\ Seen(r) \in Row
      BY <2>u, <2>1, SeenIsARow DEF Activates, IInv
    <3>5. Seen(r).email = CanonicalEmail[EmailClaim[n.sub]]
      BY <2>1, <3>3, <3>4 DEF Activates, SInv, InviteRead
    <3>6. CanonicalEmail[Seen(r).email] = Seen(r).email
      BY <3>4 DEF Row, Email
    <3>7. m \in GetPendingMembershipByEmail(memberships, EmailClaim[n.sub])
      BY <3>2, <3>5, <3>6 DEF GetPendingMembershipByEmail
    <3> QED
      BY <3>3, <3>7
  <2>2. ASSUME NEW r \in Request, Provisions(r)
        PROVE  DefaultEnabled /\ n.org = config.defaultOrg /\ n.role = config.defaultRole
    BY <2>u, <2>n, <2>2, InsertedRows DEF Provisions
  <2>3. ASSUME NEW r \in Request, Adds(r)
        PROVE  FALSE
    BY <2>u, <2>n, <2>3, InsertedRows DEF Adds
  <2>4. ASSUME NEW r \in Request, Writes(r)
        PROVE  FALSE
    <3>1. Targets(r) \in SUBSET memberships
      BY DEF Targets, Selected
    <3> QED
      BY <2>n, <2>4, <2>c, <3>1 DEF Writes
  <2>5. ~Promotes
    <3> SUFFICES ASSUME Promotes PROVE FALSE
      OBVIOUS
    <3>1. PICK found \in SUBSET memberships : memberships' = SetRole(memberships, found, "admin")
      BY DEF Promotes, Selected
    <3> QED
      BY <2>c, <3>1
  <2>6. SeedsRow => n.sub = config.adminSub
    BY <2>u, <2>n, InsertedRows DEF SeedsRow
  <2> QED
    BY <2>u, <2>n, <2>1, <2>2, <2>3, <2>4, <2>5, <2>6, OnlyTheseWrite
<1> QED
  BY <1>1, StepInvariant, PTL DEF Spec, NoSelfEnrollment

\* A caller is let in only while the table has a membership of its subject
\* (ResolveCaller, provisionDefault).
THEOREM Access == Spec => AccessNeedsMembership
<1>1. SInv /\ [Next]_vars =>
        [\A r \in Request :
           \/ caller[r] = {} /\ caller'[r] # {}
           \/ caller[r] = {} /\ pc[r] # "idle" /\ reply'[r] = "ok"
           => GetMembership(memberships', call[r].sub) # {}]_vars
  <2> SUFFICES ASSUME SInv, Next, NEW r \in Request, caller[r] = {},
                      caller'[r] # {} \/ (pc[r] # "idle" /\ reply'[r] = "ok")
               PROVE  \E m \in memberships' : m.sub = call[r].sub /\ m.sub # NoSub
    <3>1. CASE UNCHANGED vars
      BY <3>1 DEF vars, SInv, Waiting
    <3> QED
      BY <3>1 DEF GetMembership
  <2>u. memberships \in SUBSET Row /\ IInv /\ TypeOK
    BY DEF SInv, IInv, TypeOK
  <2>w. pc[r] # "idle" => reply[r] = "none"
    BY DEF SInv, Waiting
  <2>f. ASSUME NEW code, Finish(r, code)
        PROVE  code = "ok"
    BY <2>u, <2>f, FinishGoes
  <2>c. ASSUME NEW step, Continue(r, step), pc[r] # "idle"
        PROVE  FALSE
    BY <2>c, <2>w DEF Continue
  <2>1. RequestStep(r)
    <3>1. ASSUME NEW q \in Request \ {r}, RequestStep(q)
          PROVE  caller'[r] = caller[r] /\ reply'[r] = reply[r]
      <4>1. \/ \E code : Finish(q, code)
            \/ \E m : Resolved(q, m)
            \/ \E step : Continue(q, step)
            \/ Receive(q)
        BY <3>1 DEF RequestStep, LookUp, FindInvite, Activate, Provision, Reread,
                    ListOrgMembers, AddOrgMember, FindMember, CountAdminsOfOrg, WriteMember,
                    StoreError
      <4>2. CASE (\E code : Finish(q, code)) \/ (\E m : Resolved(q, m))
        BY <2>u, <4>2, FinishGoes, ResolvedGoes
      <4>3. CASE (\E step : Continue(q, step)) \/ Receive(q)
        BY <2>u, <4>3 DEF Continue, Receive, TypeOK
      <4> QED
        BY <4>1, <4>2, <4>3
    <3>2. ~SeedAdminSub /\ ~SeedAdminEmail
      BY <2>w DEF SeedAdminSub, SeedAdminEmail, requestVars
    <3>3. ~Restart
      BY DEF Restart
    <3> QED
      BY <2>w, <3>1, <3>2, <3>3 DEF Next
  <2>2. pc[r] \notin {"list", "add", "find", "count", "write"}
    BY <2>u DEF IInv, HandlerInv
  <2>3. ~Receive(r)
    BY DEF Receive, At
  <2>4. CASE LookUp(r) \/ Reread(r)
    <3>1. PICK found : /\ found = GetMembership(memberships, call[r].sub)
                       /\ found # {} /\ memberships' = memberships
      BY <2>4, <2>f, <2>c DEF LookUp, Reread, At, RereadRow
    <3> QED
      BY <3>1 DEF GetMembership
  <2>5. CASE Activate(r)
    <3> DEFINE rows == Activable(Seen(r).email)
    <3>1. /\ pc[r] = "activate" /\ rows # {}
          /\ memberships' = SetSub(memberships, First(rows), call[r].sub)
      BY <2>5, <2>f DEF Activate, At
    <3>2. rows \in SUBSET memberships
      BY DEF Activable, GetPendingMembershipByEmail
    <3>3. First(rows) \in memberships
      BY <2>u, <3>1, <3>2, FirstIsFound
    <3>4. call[r].sub # NoSub
      BY <2>u, <3>1 DEF IInv, HandlerInv
    <3>5. [First(rows) EXCEPT !.sub = call[r].sub] \in memberships'
      BY <3>1 DEF SetSub
    <3>6. [First(rows) EXCEPT !.sub = call[r].sub].sub = call[r].sub
      BY <2>u, <3>3 DEF Row
    <3> QED
      BY <3>4, <3>5, <3>6
  <2>6. CASE Provision(r)
    <3> DEFINE email == StoredEmail(EmailClaim[call[r].sub])
               org == config.defaultOrg
               new == [id |-> NextRowId(memberships), org |-> org, sub |-> call[r].sub,
                       role |-> config.defaultRole, email |-> email]
    <3>1. /\ ~Conflicts(memberships, org, call[r].sub, email)
          /\ memberships' = CreateMembership(memberships, org, call[r].sub, config.defaultRole, email)
      BY <2>6, <2>f, <2>c DEF Provision, At
    <3>2. new \in memberships'
      BY <3>1 DEF CreateMembership, Insert
    <3>3. call[r].sub # NoSub
      BY <2>u, <2>6 DEF Provision, At, IInv, HandlerInv
    <3>4. new.sub = call[r].sub
      OBVIOUS
    <3> QED
      BY <3>2, <3>3, <3>4
  <2>7. CASE FindInvite(r)
    BY <2>7, <2>c DEF FindInvite, At
  <2>8. CASE StoreError(r)
    BY <2>8, <2>f DEF StoreError
  <2> QED
    BY <2>1, <2>2, <2>3, <2>4, <2>5, <2>6, <2>7, <2>8
    DEF RequestStep, ListOrgMembers, AddOrgMember, FindMember, CountAdminsOfOrg, WriteMember, At
<1> QED
  BY <1>1, StepInvariant, PTL DEF Spec, AccessNeedsMembership

-----------------------------------------------------------------------------
(* What the handlers promise when one request runs at a time between       *)
(* starts and crashes of the server: what a handler has read still stands  *)
(* when it writes.  Two at a time break OrgKeepsAdmin, as TLC shows.       *)

\* No two requests run at once.
OneAtATime == \A p, q \in Request : p = q

\* Nothing is being handled while the server seeds.
SeedsAlone == server # "serving" => \A r \in Request : pc[r] = "idle"

\* The invite a login is about to activate is the one its address still finds.
InviteStands(r) ==
  LET found == GetPendingMembershipByEmail(memberships, EmailClaim[call[r].sub])
  IN pc[r] = "activate" => found # {} /\ seen[r] = {First(found)}

\* The member an admin is about to change is still there, is who was asked for,
\* and an admin who is about to stop being one has been found not to be the last.
MemberStands(r) ==
  /\ pc[r] \in {"count", "write"} =>
       \A m \in seen[r] : m \in memberships /\ (call[r].target # NoSub => m.sub = call[r].target)
  /\ pc[r] = "write" /\ LosesAdmin(call[r], Seen(r)) =>
       ~Orphans(CountAdmins(memberships, Me(r).org))

SerialInv == SeedsAlone /\ \A r \in Request : InviteStands(r) /\ MemberStands(r)

Stands(r) == InviteStands(r) /\ MemberStands(r)

\* A handler that does none of the three has nothing to keep true.
LEMMA ElsewhereStands ==
  ASSUME NEW r \in Request, pc'[r] \notin {"activate", "count", "write"}
  PROVE  Stands(r)'
BY DEF Stands, InviteStands, MemberStands

\* A step of a request keeps what it has read standing.
LEMMA MoverStands ==
  ASSUME IInv, NEW r \in Request, Stands(r), RequestStep(r)
  PROVE  Stands(r)'
<1>t. TypeOK /\ HandlerInv /\ memberships \in SUBSET Row
  BY DEF IInv, TypeOK
<1>f. ASSUME NEW code, Finish(r, code) PROVE Stands(r)'
  BY <1>t, <1>f, FinishGoes, ElsewhereStands
<1>d. ASSUME NEW m, Resolved(r, m) PROVE Stands(r)'
  BY <1>t, <1>d, ResolvedGoes, ElsewhereStands
<1>c. ASSUME NEW step \in {"invite", "provision", "reread"}, Continue(r, step), UNCHANGED seen
      PROVE  Stands(r)'
  BY <1>t, <1>c, ContinueGoes, ElsewhereStands
<1>1. CASE Receive(r)
  BY <1>t, <1>1, ElsewhereStands DEF Receive, Goto, TypeOK
<1>2. CASE LookUp(r)
  BY <1>2, <1>f, <1>d, <1>c DEF LookUp
<1>3. CASE FindInvite(r)
  <2> DEFINE found == GetPendingMembershipByEmail(memberships, EmailClaim[call[r].sub])
  <2>1. CASE found # {} /\ Read(r, {First(found)}) /\ Continue(r, "activate")
    <3>1. pc'[r] = "activate" /\ seen'[r] = {First(found)} /\ UNCHANGED <<memberships, call>>
      BY <1>t, <1>3, <2>1 DEF FindInvite, Read, Continue, Goto, TypeOK
    <3>2. InviteStands(r)'
      BY <2>1, <3>1 DEF InviteStands
    <3> QED
      BY <3>1, <3>2 DEF Stands, MemberStands
  <2>2. CASE UNCHANGED seen /\ Continue(r, "provision")
    BY <2>2, <1>c
  <2> QED
    BY <1>3, <2>1, <2>2 DEF FindInvite
<1>4. CASE Activate(r) \/ Provision(r) \/ Reread(r)
  BY <1>4, <1>f, <1>d, <1>c DEF Activate, Provision, Reread
<1>5. CASE ListOrgMembers(r) \/ AddOrgMember(r) \/ WriteMember(r) \/ StoreError(r)
  BY <1>5, <1>f DEF ListOrgMembers, AddOrgMember, WriteMember, StoreError
<1>6. CASE FindMember(r)
  <2> DEFINE found == FoundMember(Me(r).org, call[r].target, call[r].email)
             m == First(found)
             step == IF LosesAdmin(call[r], m) THEN "count" ELSE "write"
  <2>1. CASE found # {} /\ Read(r, {m}) /\ Continue(r, step)
    <3>1. m \in found
      BY <1>t, <2>1, FirstIsFound DEF FoundMember, ListMembershipsByOrg
    <3>2. m \in memberships /\ (call[r].target # NoSub => m.sub = call[r].target)
      BY <3>1 DEF FoundMember, ListMembershipsByOrg
    <3> HIDE DEF m, found
    <3>3. pc'[r] = step /\ seen'[r] = {m} /\ UNCHANGED <<memberships, call>>
      BY <1>t, <1>6, <2>1 DEF FindMember, Read, Continue, Goto, TypeOK
    <3>4. Seen(r)' = m
      BY <3>3 DEF Seen
    <3>5. pc'[r] = "write" => ~LosesAdmin(call'[r], Seen(r)')
      BY <3>3, <3>4
    <3>6. MemberStands(r)'
      BY <3>2, <3>3, <3>5 DEF MemberStands
    <3> QED
      BY <3>3, <3>6 DEF Stands, InviteStands
  <2> QED
    BY <1>6, <1>f, <2>1 DEF FindMember
<1>7. CASE CountAdminsOfOrg(r)
  <2>1. CASE /\ ~Orphans(CountAdmins(memberships, Me(r).org))
             /\ Continue(r, "write") /\ UNCHANGED seen
    <3>1. pc[r] = "count" /\ pc'[r] = "write" /\ UNCHANGED <<memberships, call, caller, seen>>
      BY <1>t, <1>7, <2>1 DEF CountAdminsOfOrg, At, Continue, Goto, TypeOK
    <3> QED
      BY <2>1, <3>1 DEF Stands, InviteStands, MemberStands, Me
  <2> QED
    BY <1>7, <1>f, <2>1 DEF CountAdminsOfOrg
<1> QED
  BY <1>1, <1>2, <1>3, <1>4, <1>5, <1>6, <1>7 DEF RequestStep

\* Every step does, when nobody else's request writes and the server seeds
\* only while it handles none.
LEMMA NextSerialInv ==
  ASSUME OneAtATime
  PROVE  IInv /\ SerialInv /\ [Next]_vars => SerialInv'
<1>1. ASSUME IInv, SerialInv, NEW r \in Request, RequestStep(r) PROVE SerialInv'
  <2>1. server' = "serving"
    BY <1>1 DEF RequestStep, At, serverVars, Receive, LookUp, FindInvite, Activate, Provision,
                Reread, ListOrgMembers, AddOrgMember, FindMember, CountAdminsOfOrg,
                WriteMember, StoreError
  <2>2. Stands(r)'
    BY <1>1, MoverStands DEF SerialInv, Stands
  <2> QED
    BY <2>1, <2>2 DEF SerialInv, SeedsAlone, Stands, OneAtATime
<1>2. ASSUME SerialInv, SeedAdminSub \/ SeedAdminEmail PROVE SerialInv'
  <2>1. \A r \in Request : pc'[r] = "idle"
    BY <1>2 DEF SeedAdminSub, SeedAdminEmail, requestVars, SerialInv, SeedsAlone
  <2> QED
    BY <2>1, ElsewhereStands DEF SerialInv, SeedsAlone, Stands
<1>3. ASSUME Restart PROVE SerialInv'
  <2>1. \A r \in Request : pc'[r] = "idle"
    BY <1>3 DEF Restart
  <2> QED
    BY <2>1, ElsewhereStands DEF SerialInv, SeedsAlone, Stands
<1>4. ASSUME SerialInv, UNCHANGED vars PROVE SerialInv'
  BY <1>4 DEF vars, SerialInv, SeedsAlone, InviteStands, MemberStands, Seen, Me
<1> QED
  BY <1>1, <1>2, <1>3, <1>4 DEF Next

\* While one request runs at a time, what it has read stands when it writes.
LEMMA ReadStands == ASSUME OneAtATime PROVE Spec => []SerialInv
<1>1. Init => SerialInv
  BY DEF Init, SerialInv, SeedsAlone, InviteStands, MemberStands
<1> QED
  BY <1>1, TypeCorrect, NextSerialInv, PTL DEF Spec, IInv

-----------------------------------------------------------------------------
(* The last admin.                                                         *)

\* An active admin survives every statement but a handler's write.
LEMMA OthersKeepAdmins ==
  ASSUME SInv, NEW o, NEW a \in ActiveAdmins(memberships, o),
         \/ UNCHANGED memberships
         \/ \E r \in Request : Activates(r) \/ Provisions(r) \/ Adds(r)
         \/ Promotes \/ SeedsRow
  PROVE  ActiveAdmins(memberships', o) # {}
<1>m. memberships \in SUBSET Row /\ a \in memberships /\ a.sub # NoSub /\ a.role = "admin" /\ a.org = o
  BY DEF SInv, IInv, TypeOK, ActiveAdmins
<1>1. ASSUME a \in memberships' PROVE ActiveAdmins(memberships', o) # {}
  BY <1>m, <1>1 DEF ActiveAdmins
<1>2. ASSUME NEW r \in Request, Activates(r) PROVE a \in memberships'
  <2>1. PICK m \in Activable(Seen(r).email) : memberships' = SetSub(memberships, m, call[r].sub)
    BY <1>2 DEF Activates
  <2>2. m.sub = NoSub
    BY DEF Activable, GetPendingMembershipByEmail
  <2> QED
    BY <1>m, <2>1, <2>2 DEF SetSub
<1>3. ASSUME NEW r \in Request, Provisions(r) \/ Adds(r) PROVE a \in memberships'
  BY <1>m, <1>3 DEF Provisions, Adds, Insert
<1>4. ASSUME SeedsRow PROVE a \in memberships'
  BY <1>m, <1>4 DEF SeedsRow, Insert
<1>5. ASSUME Promotes PROVE a \in memberships'
  <2>1. PICK found : memberships' = SetRole(memberships, found, "admin")
    BY <1>5 DEF Promotes
  <2>2. a = [a EXCEPT !.role = "admin"]
    BY <1>m DEF Row
  <2> QED
    BY <1>m, <2>1, <2>2 DEF SetRole
<1> QED
  BY <1>1, <1>m, <1>2, <1>3, <1>4, <1>5

\* Of two admins, one is not the member who is changed.
LEMMA AnotherAdmin ==
  ASSUME IInv, UniqueMembership, NEW o, NEW t, ~Orphans(CountAdmins(memberships, o))
  PROVE  \E a \in ActiveAdmins(memberships, o) : a # t
<1> DEFINE A == ActiveAdmins(memberships, o)
<1>1. SUFFICES ASSUME A \subseteq {t} PROVE FALSE
  OBVIOUS
<1>2. A = {} \/ A = {t}
  BY <1>1
<1>3. Cardinality(A) = 0 \/ Cardinality(A) = 1
  BY <1>2, FS_EmptySet, FS_Singleton
<1> QED
  BY <1>3 DEF Orphans, CountAdmins

\* A handler's write leaves an admin, if what it has read stands: whoever stops
\* being one was not the last.
LEMMA WriteKeepsAdmins ==
  ASSUME SInv, SerialInv, NEW r \in Request, WriteMember(r),
         NEW o, NEW a \in ActiveAdmins(memberships, o)
  PROVE  ActiveAdmins(memberships', o) # {}
<1>m. /\ memberships \in SUBSET Row /\ TypeOK /\ HandlerInv /\ UniqueMembership
      /\ a \in memberships /\ a.sub # NoSub /\ a.role = "admin" /\ a.org = o
  BY DEF SInv, IInv, TypeOK, ActiveAdmins
<1>1. ASSUME NEW b \in memberships', b.sub # NoSub, b.role = "admin", b.org = o
      PROVE  ActiveAdmins(memberships', o) # {}
  BY <1>1 DEF ActiveAdmins
<1>2. ASSUME NEW b \in ActiveAdmins(memberships, o), b \notin Targets(r)
      PROVE  ActiveAdmins(memberships', o) # {}
  <2>1. b \in memberships' /\ b.sub # NoSub /\ b.role = "admin" /\ b.org = o
    BY <1>2 DEF WriteMember, SetRole, ActiveAdmins
  <2> QED
    BY <1>1, <2>1
<1>3. CASE a \in Targets(r)
  <2>1. pc[r] = "write" /\ call[r].op \in {"set_role", "remove"}
    BY <1>m DEF WriteMember, At, HandlerInv
  <2>2. a.org = Me(r).org /\ call[r].target # NoSub /\ a.sub = call[r].target
    BY <1>m, <1>3 DEF Targets, Selected
  <2>3. Seen(r) = a
    <3>1. Seen(r) \in memberships /\ Seen(r).sub = call[r].target
      BY <1>m, <2>1, <2>2, SeenIsARow DEF SerialInv, MemberStands
    <3> QED
      BY <1>m, <2>2, <3>1 DEF UniqueMembership
  <2>4. CASE call[r].op = "set_role" /\ call[r].role = "admin"
    <3>1. memberships' = SetRole(memberships, Targets(r), "admin")
      BY <2>4 DEF WriteMember
    <3>2. a = [a EXCEPT !.role = "admin"]
      BY <1>m DEF Row
    <3>3. a \in memberships'
      BY <1>3, <3>1, <3>2 DEF SetRole
    <3> QED
      BY <1>1, <1>m, <3>3
  <2>5. CASE ~(call[r].op = "set_role" /\ call[r].role = "admin")
    <3>1. LosesAdmin(call[r], Seen(r))
      BY <1>m, <2>3, <2>5 DEF LosesAdmin
    <3>2. ~Orphans(CountAdmins(memberships, o))
      BY <1>m, <2>1, <2>2, <3>1 DEF SerialInv, MemberStands
    <3>3. PICK b \in ActiveAdmins(memberships, o) : b # a
      BY <3>2, AnotherAdmin DEF SInv
    <3>4. b \notin Targets(r)
      BY <1>m, <2>2, <3>3 DEF Targets, Selected, ActiveAdmins, UniqueMembership
    <3> QED
      BY <1>2, <3>4
  <2> QED
    BY <2>4, <2>5
<1> QED
  BY <1>2, <1>3

\* While one request runs at a time, no step takes the last active admin from an
\* organization: not a demotion or a removal (wouldOrphanAdmins), not a login,
\* and not a start or a crash of the server.
THEOREM AdminsRemain == ASSUME OneAtATime PROVE Spec => OrgKeepsAdmin
<1> DEFINE A == \A o \in Org : ActiveAdmins(memberships, o) # {}
                                 => ActiveAdmins(memberships', o) # {}
<1>1. ASSUME SInv, SerialInv, [Next]_vars, NEW o \in Org, NEW a \in ActiveAdmins(memberships, o)
      PROVE  ActiveAdmins(memberships', o) # {}
  <2>1. CASE \E r \in Request : WriteMember(r)
    BY <1>1, <2>1, WriteKeepsAdmins
  <2>2. CASE ~\E r \in Request : WriteMember(r)
    <3>1. ASSUME NEW r \in Request, Writes(r) PROVE UNCHANGED memberships
      <4>1. pc[r] = "write" /\ pc'[r] = "idle" /\ server = "serving"
        BY <3>1 DEF Writes
      <4>2. ASSUME NEW q \in Request, RequestStep(q) PROVE UNCHANGED memberships
        <5>1. q = r
          BY OneAtATime DEF OneAtATime
        <5> QED
          BY <2>2, <4>1, <4>2, <5>1 DEF RequestStep, At, Receive, LookUp, FindInvite, Activate,
             Provision, Reread, ListOrgMembers, AddOrgMember, FindMember, CountAdminsOfOrg, StoreError
      <4> QED
        BY <1>1, <4>1, <4>2 DEF Next, SeedAdminSub, SeedAdminEmail, Restart, vars
    <3> QED
      BY <1>1, <3>1, OnlyTheseWrite, OthersKeepAdmins DEF SInv
  <2> QED
    BY <2>1, <2>2
<1>2. SInv /\ SerialInv /\ [Next]_vars => [A]_vars
  BY <1>1
<1> QED
  BY <1>2, StepInvariant, ReadStands, PTL DEF Spec, OrgKeepsAdmin

\* While one request runs at a time, a login activates the very invite it has
\* read: the caller gets the organization and the role the table then holds
\* (withoutMembership, ActivatePendingMembership).
THEOREM LoginsActivateWhatTheyRead == ASSUME OneAtATime PROVE Spec => ActivationMatchesLookup
<1> DEFINE A == \A r \in Request :
                  pc[r] = "activate" /\ memberships # memberships' /\ pc'[r] # pc[r]
                    => [Seen(r) EXCEPT !.sub = call[r].sub] \in memberships'
<1>1. ASSUME SInv, SerialInv, NEW r \in Request, Activate(r), memberships # memberships'
      PROVE  [Seen(r) EXCEPT !.sub = call[r].sub] \in memberships'
  <2> DEFINE found == GetPendingMembershipByEmail(memberships, EmailClaim[call[r].sub])
  <2>1. TypeOK /\ HandlerInv /\ pc[r] = "activate" /\ memberships \in SUBSET Row
    BY <1>1 DEF SInv, IInv, TypeOK, Activate, At
  <2>2. found # {} /\ seen[r] = {First(found)}
    BY <1>1, <2>1 DEF SerialInv, InviteStands
  <2>3. Seen(r) = First(found) /\ Seen(r) \in found
    <3>1. found \in SUBSET Row
      BY <2>1 DEF GetPendingMembershipByEmail
    <3> QED
      BY <2>2, <3>1, FirstIsFound DEF Seen
  <2>4. Activable(Seen(r).email) = found
    <3>1. EmailClaim[call[r].sub] \in Address
      BY <2>1, CallFields
    <3>2. Seen(r).email = CanonicalEmail[EmailClaim[call[r].sub]]
      BY <2>3 DEF GetPendingMembershipByEmail
    <3>3. CanonicalEmail[Seen(r).email] = CanonicalEmail[EmailClaim[call[r].sub]]
      BY <3>1, <3>2, StoreAssumption
    <3> QED
      BY <3>3 DEF Activable, GetPendingMembershipByEmail
  <2>5. memberships' = SetSub(memberships, Seen(r), call[r].sub)
    BY <1>1, <2>3, <2>4 DEF Activate
  <2> QED
    BY <2>5 DEF SetSub
<1>2. ASSUME SInv, SerialInv, [Next]_vars, NEW r \in Request,
             pc[r] = "activate", memberships # memberships', pc'[r] # pc[r]
      PROVE  [Seen(r) EXCEPT !.sub = call[r].sub] \in memberships'
  <2>1. server = "serving"
    BY <1>2 DEF SerialInv, SeedsAlone
  <2>2. PICK q \in Request : RequestStep(q)
    BY <1>2, <2>1 DEF Next, SeedAdminSub, SeedAdminEmail, Restart, vars
  <2>3. q = r
    BY OneAtATime DEF OneAtATime
  <2>4. Activate(r)
    BY <1>2, <2>2, <2>3 DEF RequestStep, At, Receive, LookUp, FindInvite, Provision, Reread,
       ListOrgMembers, AddOrgMember, FindMember, CountAdminsOfOrg, WriteMember, StoreError
  <2> QED
    BY <1>1, <1>2, <2>4
<1>3. SInv /\ SerialInv /\ [Next]_vars => [A]_vars
  BY <1>2
<1> QED
  BY <1>3, StepInvariant, ReadStands, PTL DEF Spec, ActivationMatchesLookup

=============================================================================
