CONSTANTS
  o1 = o1
  o2 = o2
  alice = alice
  bob = bob
  carol = carol
  r1 = r1
  r2 = r2
  NoSub = NoSub
  NoOrg = NoOrg
  NoRole = NoRole
  NoEmail = ""
  Org = {o1, o2}
  Sub = {alice, bob, carol}
  Address <- MCAddress
  CanonicalEmail <- MCCanonicalEmail
  EmailClaim <- MCEmailClaim
  MaxRowId = 3
  Request = {r1, r2}
  Call <- RaceCall
  Configs <- RaceConfigs
SYMMETRY Symmetry
SPECIFICATION Spec
INVARIANT TypeOK
INVARIANT UniqueMembership
INVARIANT HandlerInv
PROPERTY RolesChangeByDecision
PROPERTY NoSelfEnrollment
PROPERTY InvitesComeFromAdmins
PROPERTY OwnRowOrOwnOrg
PROPERTY AccessNeedsMembership
 
PROPERTY StartLeavesAnAdmin
