CONSTANTS
  r1 = r1  r2 = r2  r3 = r3
  u1 = u1  u2 = u2  v1 = v1  v2 = v2  v3 = v3  c1 = c1  c2 = c2  c3 = c3
  NoUser = NoUser  None = None  Garbage = Garbage
  Requests = {r1, r2, r3}
  Users = {u1, u2}
  VOs = {v1, v2}
  Clusters = {c1, c2}
  DefaultCluster = c1
  Member <- MCMember
  Catalog <- MCCatalog
  SearchHits <- MCSearchHits
  Inputs <- TwoClusterInputs
  StoreFailures = {"add", "remove"}
  PartialReleases = TRUE
  MaxCrashes = 1
SPECIFICATION Spec
INVARIANT OneSuccessPerRelease
CHECK_DEADLOCK FALSE
