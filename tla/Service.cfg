SPECIFICATION FairSpec
CONSTANTS
  s1 = s1  s2 = s2
  u1 = u1  u2 = u2  v1 = v1  z1 = z1  n1 = n1
  c1 = c1
  g1 = g1  g2 = g2  g3 = g3
  Servers = {s1, s2}
  Requests = {u1, u2, v1, z1, n1}
  Shell = {c1}
  Registrations = {g1, g2, g3}
  ServerOf <- MCServerOf
  RecordOf <- MCRecordOf
  Registered <- MCRegistered
  KindOf <- MCKindOf
  KeyOf <- MCKeyOf
  CampaignOf <- MCCampaignOf
  Setups <- MCSetups
  Ttl = 1
  Timeout = 1
  MaxClock = 3
  MaxCrashes = 1
  MaxUpdates = 2
  MaxRemovals = 1
INVARIANTS
  TypeOK
  
PROPERTIES
  LeaseHolds
  LeaseWaitEnds
CHECK_DEADLOCK FALSE
