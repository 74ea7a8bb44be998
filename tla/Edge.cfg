SPECIFICATION Spec
CONSTANTS
  sender = sender
  outsider = outsider
  inner = inner
  outer = outer
  t1 = t1
  t2 = t2
  t3 = t3
  k1 = k1
  k2 = k2
  k3 = k3
  app = app
  other = other
  Hosts <- AllHosts
  Naming <- NamingHosts
  Malformed = Malformed
  Absent = Absent
  AnyOrigin = AnyOrigin
  NoOrigin = NoOrigin
  NoMethod = NoMethod
  Keys = {k1, k2, k3}
  NoKey = NoKey
  MaxInt = 3
  Honest <- HonestHosts
  Journeys <- Trips
  ForgedClaims <- Forgeries
  Candidates <- Variations
  NoToken = NoToken
  NoSnapshot = NoSnapshot
  Nothing = Nothing
  MaxReloads = 2
INVARIANTS ClientIsTheFirstOutsider  BodyIsWhole
INVARIANTS ReadableByTheBrowser DomainsApart
