SPECIFICATION ViewSpec
CONSTANTS
  v1 = v1  v2 = v2  r1 = r1  r2 = r2
  h1 = h1  h2 = h2
  u1 = u1
  x = x
  Visitors = {v1, v2}
  Catalogs = {c1}
  Hashes = {h1, h2}
  Offers <- MCOffers
  Capabilities = {x}
  Registrations = {u1}
  Fingerprint <- MCFingerprint
  Fits <- MCFits
  Prompts = {p1}
  Runs = {r1, r2}
  MaxId = 3
  MaxRecent = 1
  MaxCached = 1
  NoValue = NoValue
SYMMETRY Interchangeable
INVARIANTS PrivateToOwner SnapshotHolds FreshViewDelivers
CHECK_DEADLOCK FALSE
