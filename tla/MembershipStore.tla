-------------------------- MODULE MembershipStore --------------------------
(***************************************************************************)
(* The org_memberships table of the SQLite store, as operators on a set of *)
(* rows: what each statement of backend/internal/store/sqlite/sqlite.go    *)
(* selects and what it leaves behind.  The connection pool holds one       *)
(* connection (Open), so every statement is one atomic step; the handlers  *)
(* of Membership.tla interleave between statements.                        *)
(***************************************************************************)
EXTENDS Integers, FiniteSets

CONSTANTS
  Org,            \* organizations (rows of orgs, never deleted)
  Sub,            \* OIDC subjects
  NoSub,          \* the empty user_sub: a pending invite, or a token without a subject
  Address,        \* email spellings, the empty one included
  NoEmail,        \* the empty address; stored as NULL
  CanonicalEmail, \* function: lower-cased, trimmed spelling of an address
  MaxRowId        \* bound: rowids 1..MaxRowId are available

ASSUME StoreAssumption ==
  /\ NoSub \notin Sub
  /\ NoEmail \in Address
  /\ CanonicalEmail \in [Address -> Address]
  /\ CanonicalEmail[NoEmail] = NoEmail
  /\ \A a \in Address : CanonicalEmail[CanonicalEmail[a]] = CanonicalEmail[a]
  /\ MaxRowId \in Nat

\* Role names (rbac.go, admin.go).
Role == {"viewer", "publisher", "admin"}

RowId == 1 .. MaxRowId

\* Only canonical addresses are stored.
Email == {a \in Address : CanonicalEmail[a] = a}

Row == [id : RowId, org : Org, sub : Sub \cup {NoSub}, role : Role, email : Email]

-----------------------------------------------------------------------------
(* Queries: the set of rows a SELECT returns.                              *)

GetMembership(rows, sub) == {m \in rows : m.sub = sub /\ m.sub # NoSub}

GetPendingMembershipByEmail(rows, address) ==
  {m \in rows : /\ m.sub = NoSub
                /\ m.email # NoEmail
                /\ m.email = CanonicalEmail[address]}

ListMembershipsByOrg(rows, org) == {m \in rows : m.org = org}

ActiveAdmins(rows, org) ==
  {m \in rows : m.org = org /\ m.role = "admin" /\ m.sub # NoSub}

CountAdmins(rows, org) == Cardinality(ActiveAdmins(rows, org))

Least(ids) == CHOOSE i \in ids : \A j \in ids : i <= j

\* LIMIT 1 over a table scan: the row with the smallest rowid.
First(found) == CHOOSE m \in found : m.id = Least({n.id : n \in found})

-----------------------------------------------------------------------------
(* Statements: the rows an INSERT, UPDATE or DELETE leaves.                *)

\* SQLite gives a new row the largest rowid plus one.
NextRowId(rows) == Least({i \in 1 .. (MaxRowId + 1) : \A m \in rows : m.id < i})

HasRoom(rows) == NextRowId(rows) \in RowId

\* Addresses are canonicalized on their way into the table.
MutStoredEmail(address) == address
StoredEmail(address) == CanonicalEmail[address]

\* The table without idx_membership_email.
MutConflicts(rows, org, sub, email) == \E m \in rows : sub # NoSub /\ m.sub = sub

\* A row that idx_membership_sub or idx_membership_email would reject.  Both
\* indexes are partial: a pending row has no subject and NULL no address.
Conflicts(rows, org, sub, email) ==
  \E m \in rows : \/ sub # NoSub /\ m.sub = sub
                  \/ email # NoEmail /\ m.org = org /\ m.email = email

Insert(rows, org, sub, role, email) ==
  rows \cup {[id |-> NextRowId(rows), org |-> org, sub |-> sub, role |-> role,
              email |-> email]}

\* UpsertMembership: update the subject's row, insert when there is none.
UpsertMembership(rows, org, sub, role, email) ==
  LET mine == GetMembership(rows, sub) IN
  IF mine # {}
    THEN (rows \ mine) \cup {[m EXCEPT !.org = org, !.role = role, !.email = email] : m \in mine}
    ELSE Insert(rows, org, sub, role, email)

\* CreateMembership: insert, and leave a conflicting row as it is.
CreateMembership(rows, org, sub, role, email) ==
  IF Conflicts(rows, org, sub, email) THEN rows
                                      ELSE Insert(rows, org, sub, role, email)

\* UPDATE ... SET user_sub of the single row `m`.
SetSub(rows, m, sub) == (rows \ {m}) \cup {[m EXCEPT !.sub = sub]}

\* The WHERE clause UpdateMembershipRole and DeleteMembership share: by
\* subject when one is given, else the pending row with that address.
Selected(rows, org, sub, address) ==
  {m \in rows :
     /\ m.org = org
     /\ \/ sub # NoSub /\ m.sub = sub
        \/ /\ sub = NoSub /\ m.sub = NoSub
           /\ m.email # NoEmail /\ m.email = CanonicalEmail[address]}

SetRole(rows, found, role) == (rows \ found) \cup {[m EXCEPT !.role = role] : m \in found}

=============================================================================
