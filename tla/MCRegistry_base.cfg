CONSTANTS
  o1 = o1
  o2 = o2
  alice = alice
  bob = bob
  carol = carol
  dave = dave
  r1 = r1
  r2 = r2
  NoVersion = NoVersion
  NoOrg = NoOrg
  Org = {o1, o2}
  Sub = {alice, bob, carol, dave}
  Name = {"a", "b"}
  Version <- MCVersion
  Rank <- MCRank
  FrameId = {1, 2, 3}
  Request = {r1, r2}
  Call <- RaceCall
SYMMETRY Symmetry
SPECIFICATION Spec
PROPERTY BaseVersionHonoured
