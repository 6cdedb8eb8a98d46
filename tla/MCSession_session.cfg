CONSTANTS
  Proc = {"p", "q"}
  RefreshToken = {"r1", "r2", "r3"}
  NoRefresh = NoRefresh
  NoToken = NoToken
  Absent = Absent
  Empty = Empty
  Garbled = Garbled
  RefreshSkew = 1
  IdLife = 2
  DeviceLife = 0
  Setting <- MCSetting
SPECIFICATION FairSpec
 
PROPERTY FreshEnough
PROPERTY CredentialKept
 
 
