----------------------------- MODULE Membership -----------------------------
(***************************************************************************)
(* Who belongs to an organization and with which role.  Requests resolve   *)
(* their caller (orgs.ResolveCaller), admins invite, demote and remove     *)
(* members (frames/admin.go), and every start of the server seeds an admin *)
(* (seed.Run) before it serves.                                            *)
(*                                                                         *)
(* A request is a process.  It makes one repository call per action, so    *)
(* requests interleave wherever the Go handlers do: between two calls.     *)
(***************************************************************************)
EXTENDS MembershipStore

CONSTANTS
  Request,     \* handlers running at once
  Call,        \* requests clients may send: [op, sub, target, email, role]
  EmailClaim,  \* function: the email claim in a subject's token
  Configs,     \* settings an operator may start the server with
  NoOrg,       \* no organization configured, or a slug no organization has
  NoRole       \* no default role configured, or a role name that is none

VARIABLES
  memberships, \* the rows of org_memberships
  server,      \* "seed_sub" and "seed_email" while seed.Run runs, then "serving"
  config,      \* the settings the server was started with
  pc,          \* the next repository call of each request
  call,        \* what the client asked for
  seen,        \* the row a request has read and acts on, as a set of at most one
  caller,      \* the resolved rbac.Caller, as a set of at most one
  reply        \* how the last request of each process ended

vars == <<memberships, server, config, pc, call, seen, caller, reply>>
requestVars == <<pc, call, seen, caller, reply>>
serverVars == <<server, config>>

Op == {"resolve", "list", "add", "set_role", "remove"}

CallType == [op : Op, sub : Sub \cup {NoSub}, target : Sub \cup {NoSub},
             email : Address, role : Role \cup {NoRole}]

\* seed.Config and orgs.DefaultMembership.
ConfigType == [seedOrg : Org \cup {NoOrg}, adminSub : Sub \cup {NoSub},
               adminEmail : Address, defaultOrg : Org \cup {NoOrg},
               defaultRole : Role \cup {NoRole}]

ASSUME MembershipAssumption ==
  /\ Call \subseteq CallType /\ Call # {}
  /\ Configs \subseteq ConfigType
  /\ EmailClaim \in [Sub \cup {NoSub} -> Address]
  /\ NoOrg \notin Org
  /\ NoRole \notin Role

Caller == [org : Org, role : Role]

Step == {"idle", "lookup", "invite", "activate", "provision", "reread",
         "list", "add", "find", "count", "write"}

Reply == {"none", "ok", "unauthenticated", "no_membership", "permission_denied",
          "invalid_argument", "not_found", "already_exists", "failed_precondition",
          "internal", "store_error"}

\* Every row of the table and every local variable of a handler is well formed;
\* the addresses a statement stores are canonical (CanonicalEmail).
TypeOK ==
  /\ memberships \subseteq Row
  /\ server \in {"seed_sub", "seed_email", "serving"}
  /\ config \in Configs
  /\ pc \in [Request -> Step]
  /\ call \in [Request -> Call]
  /\ seen \in [Request -> SUBSET Row]
  /\ caller \in [Request -> SUBSET Caller]
  /\ reply \in [Request -> Reply]

-----------------------------------------------------------------------------
(* Steps every handler is made of.                                         *)

At(r, step) == server = "serving" /\ pc[r] = step

Goto(r, step) == pc' = [pc EXCEPT ![r] = step]

Read(r, rows) == seen' = [seen EXCEPT ![r] = rows]

\* The value of call[r] while no client is waiting; it means nothing.
AnyCall == CHOOSE c \in Call : TRUE

\* The handler returns: the request's local variables are gone.
Finish(r, code) ==
  /\ Goto(r, "idle")
  /\ call' = [call EXCEPT ![r] = AnyCall]
  /\ Read(r, {})
  /\ caller' = [caller EXCEPT ![r] = {}]
  /\ reply' = [reply EXCEPT ![r] = code]

\* The handler goes on to its next repository call.
Continue(r, step) == Goto(r, step) /\ UNCHANGED <<call, caller, reply>>

Me(r) == CHOOSE c \in caller[r] : TRUE
Seen(r) == CHOOSE m \in seen[r] : TRUE

NextCall(op) == CASE op = "list" -> "list"
                  [] op = "add" -> "add"
                  [] OTHER -> "find"

\* requireAdmin without its check.
MutAuthorized(op, role) == op # "resolve"

\* requireAdmin: the administration handlers refuse every other role.
Authorized(op, role) == op # "resolve" /\ role = "admin"

\* What the handlers refuse before their first repository call.
Malformed(c) == \/ c.op = "add" /\ c.email = NoEmail
                \/ c.op \in {"add", "set_role"} /\ c.role = NoRole

\* ResolveCaller returns row m, and the handler it was called from takes over.
Resolved(r, m) ==
  LET op == call[r].op IN
  \/ /\ op = "resolve"
     /\ Finish(r, "ok")
  \/ /\ op # "resolve" /\ ~Authorized(op, m.role)
     /\ Finish(r, "permission_denied")
  \/ /\ Authorized(op, m.role) /\ Malformed(call[r])
     /\ Finish(r, "invalid_argument")
  \/ /\ Authorized(op, m.role) /\ ~Malformed(call[r])
     /\ caller' = [caller EXCEPT ![r] = {[org |-> m.org, role |-> m.role]}]
     /\ Goto(r, NextCall(op))
     /\ Read(r, {})
     /\ UNCHANGED <<call, reply>>

-----------------------------------------------------------------------------
(* orgs.ResolveCaller                                                      *)

\* A client's request arrives with a verified token.
Receive(r) ==
  /\ At(r, "idle")
  /\ \E c \in Call : call' = [call EXCEPT ![r] = c]
  /\ Goto(r, "lookup")
  /\ reply' = [reply EXCEPT ![r] = "none"]
  /\ UNCHANGED <<memberships, seen, caller, serverVars>>

\* ResolveCaller without the check for an empty subject.
MutHasSubject(sub) == TRUE

HasSubject(sub) == sub # NoSub

\* The membership keyed by the token's subject, if there is one.
LookUp(r) ==
  /\ At(r, "lookup")
  /\ LET sub == call[r].sub
         found == GetMembership(memberships, sub)
     IN \/ ~HasSubject(sub) /\ Finish(r, "unauthenticated")
        \/ HasSubject(sub) /\ found # {} /\ Resolved(r, First(found))
        \/ /\ HasSubject(sub) /\ found = {}
           /\ Continue(r, IF CanonicalEmail[EmailClaim[sub]] # NoEmail
                          THEN "invite" ELSE "provision")
           /\ UNCHANGED seen
  /\ UNCHANGED <<memberships, serverVars>>

\* withoutMembership: a pending invite for the token's address comes first.
FindInvite(r) ==
  /\ At(r, "invite")
  /\ LET found == GetPendingMembershipByEmail(memberships, EmailClaim[call[r].sub])
     IN \/ found # {} /\ Read(r, {First(found)}) /\ Continue(r, "activate")
        \/ found = {} /\ UNCHANGED seen /\ Continue(r, "provision")
  /\ UNCHANGED <<memberships, serverVars>>

\* Activation that picks any pending row, whatever its address.
MutActivable(email) == {m \in memberships : m.sub = NoSub}

\* The rows the subquery of ActivatePendingMembership ranges over.
Activable(email) == GetPendingMembershipByEmail(memberships, email)

\* ActivatePendingMembership updates the first pending row with the address
\* that was read; the caller is then the row as it was read.
Activate(r) ==
  /\ At(r, "activate")
  /\ LET sub == call[r].sub
         rows == Activable(Seen(r).email)
         taken == GetMembership(memberships, sub) # {}
     IN \/ /\ rows = {} \/ taken
           /\ Finish(r, "internal")
           /\ UNCHANGED memberships
        \/ /\ rows # {} /\ ~taken
           /\ memberships' = SetSub(memberships, First(rows), sub)
           /\ Resolved(r, Seen(r))
  /\ UNCHANGED serverVars

DefaultEnabled == config.defaultRole # NoRole /\ config.defaultOrg # NoOrg

\* provisionDefault: the baseline membership.  GetOrgBySlug, the call before
\* the insert, reads a table nobody writes while the server serves.
Provision(r) ==
  /\ At(r, "provision")
  /\ LET sub == call[r].sub
         org == config.defaultOrg
         role == config.defaultRole
         email == StoredEmail(EmailClaim[sub])
         clash == Conflicts(memberships, org, sub, email)
     IN \/ /\ ~DefaultEnabled
           /\ Finish(r, "no_membership")
           /\ UNCHANGED memberships
        \/ /\ DefaultEnabled
           /\ clash \/ HasRoom(memberships)
           /\ memberships' = CreateMembership(memberships, org, sub, role, email)
           /\ \/ clash /\ Continue(r, "reread") /\ UNCHANGED seen
              \/ ~clash /\ Resolved(r, [org |-> org, role |-> role])
  /\ UNCHANGED serverVars

\* An address held by another subject admits the caller all the same.
MutRereadRow(sub) == memberships

RereadRow(sub) == GetMembership(memberships, sub)

\* The slot was taken: our own row is authoritative, another's is a denial.
Reread(r) ==
  /\ At(r, "reread")
  /\ LET found == RereadRow(call[r].sub)
     IN \/ found # {} /\ Resolved(r, First(found))
        \/ found = {} /\ Finish(r, "no_membership")
  /\ UNCHANGED <<memberships, serverVars>>

-----------------------------------------------------------------------------
(* The administration handlers, after requireAdmin.                        *)

\* ListOrgMembers: one query.
ListOrgMembers(r) ==
  /\ At(r, "list")
  /\ Finish(r, "ok")
  /\ UNCHANGED <<memberships, serverVars>>

\* AddOrgMember: a pending invite in the caller's organization.
AddOrgMember(r) ==
  /\ At(r, "add")
  /\ LET org == Me(r).org
         email == StoredEmail(call[r].email)
     IN \/ /\ Conflicts(memberships, org, NoSub, email)
           /\ Finish(r, "already_exists")
           /\ UNCHANGED memberships
        \/ /\ ~Conflicts(memberships, org, NoSub, email)
           /\ HasRoom(memberships)
           /\ memberships' = Insert(memberships, org, NoSub, call[r].role, email)
           /\ Finish(r, "ok")
  /\ UNCHANGED serverVars

\* findMember compares the address as it was typed with the stored one.
FoundMember(org, sub, address) ==
  {m \in ListMembershipsByOrg(memberships, org) :
     \/ sub # NoSub /\ m.sub = sub
     \/ sub = NoSub /\ address # NoEmail /\ m.email = address}

\* wouldOrphanAdmins counts only when an admin is to stop being one.
LosesAdmin(c, m) == m.role = "admin" /\ ~(c.op = "set_role" /\ c.role = "admin")

\* SetMemberRole and RemoveOrgMember read the member they are to change.
FindMember(r) ==
  /\ At(r, "find")
  /\ LET found == FoundMember(Me(r).org, call[r].target, call[r].email)
     IN \/ found = {} /\ Finish(r, "not_found")
        \/ /\ found # {}
           /\ Read(r, {First(found)})
           /\ Continue(r, IF LosesAdmin(call[r], First(found)) THEN "count" ELSE "write")
  /\ UNCHANGED <<memberships, serverVars>>

\* wouldOrphanAdmins one off.
MutOrphans(n) == n < 1

Orphans(n) == n <= 1

CountAdminsOfOrg(r) ==
  /\ At(r, "count")
  /\ \/ /\ Orphans(CountAdmins(memberships, Me(r).org))
        /\ Finish(r, "failed_precondition")
     \/ /\ ~Orphans(CountAdmins(memberships, Me(r).org))
        /\ Continue(r, "write")
        /\ UNCHANGED seen
  /\ UNCHANGED <<memberships, serverVars>>

\* UpdateMembershipRole and DeleteMembership by subject alone.
MutTargets(r) == {m \in memberships : m.sub = call[r].target}

Targets(r) == Selected(memberships, Me(r).org, call[r].target, call[r].email)

\* The write itself; a row that is gone by now is an internal error.
WriteMember(r) ==
  /\ At(r, "write")
  /\ memberships' = IF call[r].op = "remove"
                      THEN memberships \ Targets(r)
                      ELSE SetRole(memberships, Targets(r), call[r].role)
  /\ Finish(r, IF Targets(r) = {} THEN "internal" ELSE "ok")
  /\ UNCHANGED serverVars

\* The repository call fails, or the client hangs up and its context is
\* cancelled: nothing is written and the handler returns.
StoreError(r) ==
  /\ server = "serving" /\ pc[r] # "idle"
  /\ Finish(r, "store_error")
  /\ UNCHANGED <<memberships, serverVars>>

-----------------------------------------------------------------------------
(* seed.Run, on every start, before the server serves.                     *)

\* promoteIfNoAdmins that overrules a demotion.
MutMayPromote(m) == m.role # "admin" /\ m.org = config.seedOrg

MayPromote(m) == /\ m.role # "admin"
                 /\ m.org = config.seedOrg
                 /\ CountAdmins(memberships, config.seedOrg) = 0

PromoteIfNoAdmins(m) ==
  memberships' = IF MayPromote(m)
                   THEN SetRole(memberships, Selected(memberships, m.org, m.sub, m.email), "admin")
                   ELSE memberships

\* The seed that skips an admin who already has a membership.
MutSeedExisting(m) == UNCHANGED memberships

SeedExisting(m) == PromoteIfNoAdmins(m)

\* The AdminSub half of seed.Run.
SeedAdminSub ==
  /\ server = "seed_sub"
  /\ server' = "seed_email"
  /\ LET sub == config.adminSub
         mine == GetMembership(memberships, sub)
     IN \/ /\ config.seedOrg = NoOrg \/ sub = NoSub
           /\ UNCHANGED memberships
        \/ /\ config.seedOrg # NoOrg /\ sub # NoSub /\ mine = {}
           /\ HasRoom(memberships)
           /\ memberships' = UpsertMembership(memberships, config.seedOrg, sub, "admin", NoEmail)
        \/ /\ config.seedOrg # NoOrg /\ mine # {}
           /\ SeedExisting(First(mine))
  /\ UNCHANGED <<config, requestVars>>

\* The AdminEmail half: an invite is pending, the member is active, or an
\* admin invite is written.
SeedAdminEmail ==
  /\ server = "seed_email"
  /\ server' = "serving"
  /\ LET email == StoredEmail(config.adminEmail)
         pending == GetPendingMembershipByEmail(memberships, email)
         active == {m \in ListMembershipsByOrg(memberships, config.seedOrg) :
                      m.email = email /\ m.sub # NoSub}
     IN \/ /\ config.seedOrg = NoOrg \/ email = NoEmail \/ pending # {}
           /\ UNCHANGED memberships
        \/ /\ config.seedOrg # NoOrg /\ email # NoEmail /\ pending = {} /\ active # {}
           /\ PromoteIfNoAdmins(First(active))
        \/ /\ config.seedOrg # NoOrg /\ email # NoEmail /\ pending = {} /\ active = {}
           /\ HasRoom(memberships)
           /\ memberships' = Insert(memberships, config.seedOrg, NoSub, "admin", email)
  /\ UNCHANGED <<config, requestVars>>

\* The process dies, whatever it was doing, and is started again, perhaps
\* with other settings.  Only the table survives.
Restart ==
  /\ server' = "seed_sub"
  /\ config' \in Configs
  /\ pc' = [r \in Request |-> "idle"]
  /\ seen' = [r \in Request |-> {}]
  /\ caller' = [r \in Request |-> {}]
  /\ call' = [r \in Request |-> AnyCall]
  /\ reply' = [r \in Request |-> "none"]
  /\ UNCHANGED memberships

-----------------------------------------------------------------------------
Init ==
  /\ memberships = {}
  /\ server = "seed_sub"
  /\ config \in Configs
  /\ pc = [r \in Request |-> "idle"]
  /\ call = [r \in Request |-> AnyCall]
  /\ seen = [r \in Request |-> {}]
  /\ caller = [r \in Request |-> {}]
  /\ reply = [r \in Request |-> "none"]

RequestStep(r) ==
  \/ Receive(r) \/ LookUp(r) \/ FindInvite(r) \/ Activate(r) \/ Provision(r)
  \/ Reread(r) \/ ListOrgMembers(r) \/ AddOrgMember(r) \/ FindMember(r)
  \/ CountAdminsOfOrg(r) \/ WriteMember(r) \/ StoreError(r)

Next == SeedAdminSub \/ SeedAdminEmail \/ Restart \/ \E r \in Request : RequestStep(r)

Spec == Init /\ [][Next]_vars

-----------------------------------------------------------------------------
(* Safety.                                                                 *)

\* One row per rowid, one membership per subject across all organizations,
\* and one row per address in an organization, whoever wrote them: a login,
\* an admin or the seed.
UniqueMembership ==
  \A m, n \in memberships :
    \/ m.id = n.id
    \/ m.sub = n.sub /\ m.sub # NoSub
    \/ m.org = n.org /\ m.email = n.email /\ m.email # NoEmail
    => m = n

\* Request r runs an admin's handler for organization org.
ActsForAdmin(r, org) == \E c \in caller[r] : c.role = "admin" /\ c.org = org

\* What a handler holds at each of its repository calls: past requireAdmin the
\* caller is an admin and the request is well-formed, and whoever is about to
\* activate, count or write has read the row it acts on.
HandlerInv ==
  \A r \in Request :
    /\ pc[r] \in {"invite", "activate", "provision", "reread"} => call[r].sub # NoSub
    /\ pc[r] \in {"activate", "count", "write"} => seen[r] # {}
    /\ pc[r] \in {"list", "add", "find", "count", "write"} =>
         caller[r] # {} /\ ~Malformed(call[r])
    /\ pc[r] = "add" => call[r].op = "add"
    /\ pc[r] \in {"find", "count", "write"} => call[r].op \in {"set_role", "remove"}
    /\ \A c, d \in caller[r] : c.role = "admin" /\ c = d

\* A role in the table changes only by a SetMemberRole of an admin of that
\* organization, or when the seed finds the organization without an admin.
\* Resolving a caller, however it races with another login of the same
\* subject or with an admin, never rewrites a role (provisionDefault).
RolesChangeByDecision ==
  [][\A m \in memberships, n \in memberships' :
       m.id = n.id /\ m.role # n.role =>
         \/ /\ server # "serving"
            /\ n.role = "admin" /\ ActiveAdmins(memberships, m.org) = {}
         \/ \E r \in Request : /\ pc[r] = "write" /\ pc'[r] = "idle"
                               /\ ActsForAdmin(r, m.org) /\ call[r].role = n.role
    ]_vars

\* A subject enters the table by an invite for its own address, with the
\* invite's organization and role, by the configured baseline, or by the seed.
NoSelfEnrollment ==
  [][\A n \in memberships' :
       n.sub # NoSub /\ GetMembership(memberships, n.sub) = {} =>
         \/ \E m \in GetPendingMembershipByEmail(memberships, EmailClaim[n.sub]) :
               n = [m EXCEPT !.sub = n.sub]
         \/ DefaultEnabled /\ n.org = config.defaultOrg /\ n.role = config.defaultRole
         \/ server # "serving" /\ n.sub = config.adminSub
    ]_vars

\* A pending row is an invite: an admin of its organization wrote it, or the
\* seed did.  A token without a subject leaves nothing behind (ResolveCaller).
InvitesComeFromAdmins ==
  [][\A n \in memberships' :
       n.sub = NoSub /\ (\A m \in memberships : m.id # n.id) =>
         \/ server # "serving"
         \/ \E r \in Request : pc[r] = "add" /\ pc'[r] = "idle" /\ ActsForAdmin(r, n.org)
    ]_vars

\* While the server serves, a row is written or deleted only for its own
\* subject or by an admin of the row's organization, even when the member has
\* left that organization since the admin's handler read it.
OwnRowOrOwnOrg ==
  [][server = "serving" =>
       \A m \in (memberships \ memberships') \cup (memberships' \ memberships) :
         \E r \in Request :
           /\ pc[r] # pc'[r]
           /\ \/ ActsForAdmin(r, m.org)
              \/ pc[r] \in {"activate", "provision"} /\ m.sub \in {call[r].sub, NoSub}
    ]_vars

\* A caller is let in only if, at that moment, the table holds a membership of
\* its subject: not on the strength of an address that belongs to another.
AccessNeedsMembership ==
  [][\A r \in Request :
       \/ caller[r] = {} /\ caller'[r] # {}
       \/ caller[r] = {} /\ pc[r] # "idle" /\ reply'[r] = "ok"
       => GetMembership(memberships', call[r].sub) # {}
    ]_vars

\* A restart promotes nobody while the organization has an admin: a demotion
\* of the configured admin sticks (promoteIfNoAdmins).
RestartRespectsDemotion ==
  [][\A m \in memberships, n \in memberships' :
       server # "serving" /\ m.id = n.id /\ m.role # n.role
         => ActiveAdmins(memberships, m.org) = {}
    ]_vars

\* Once seed.Run is through, a configured AdminSub that is not a member of
\* another organization leaves the seeded organization with an admin, even
\* after crashes half way through earlier starts.
StartLeavesAnAdmin ==
  [][/\ server = "seed_email" /\ server' = "serving"
     /\ config.seedOrg # NoOrg /\ config.adminSub # NoSub
     /\ \A m \in GetMembership(memberships, config.adminSub) : m.org = config.seedOrg
     => ActiveAdmins(memberships', config.seedOrg) # {}
    ]_vars

\* No step takes the last active admin from an organization.  It holds when
\* one request runs at a time, and fails when two do: wouldOrphanAdmins counts
\* in one statement and the handler writes in another.
OrgKeepsAdmin ==
  [][\A o \in Org : ActiveAdmins(memberships, o) # {}
                    => ActiveAdmins(memberships', o) # {}
    ]_vars

\* "cannot demote the last admin" is said only of a change that would leave
\* the organization without an active admin.
RefusalMeansOrphan ==
  [][\A r \in Request :
       pc[r] = "count" /\ reply'[r] = "failed_precondition"
         => ActiveAdmins(memberships, Me(r).org) \subseteq {Seen(r)}
    ]_vars

\* The row a login activates is the row its lookup returned, unchanged since:
\* the caller acts with the organization and role the table now holds.
ActivationMatchesLookup ==
  [][\A r \in Request :
       pc[r] = "activate" /\ memberships # memberships' /\ pc'[r] # pc[r]
         => [Seen(r) EXCEPT !.sub = call[r].sub] \in memberships'
    ]_vars

=============================================================================
