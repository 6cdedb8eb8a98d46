CONSTANTS
  o1 = o1
  o2 = o2
  alice = alice
  bob = bob
  carol = carol
  dave = dave
  NoVersion = NoVersion
  NoOrg = NoOrg
  Org = {o1, o2}
  Sub = {alice, bob, carol, dave}
  Name = {"a", "b", "c", "d"}
  Version <- MCVersion
  Rank <- MCRank
  FrameId <- MCFrameId
  IdsOf <- MCIdsOf
  Publication <- MCPublication
  Deletable = {"a"}
  Call <- MCCall
SPECIFICATION FairReader
 
PROPERTY StableResolution
 
 
PROPERTY WalkEnds
