\* A restaurant's site that migrates from before release 0.4.0.
CONSTANTS
  Requests = {r1, r2}
  SnapshotIsolation = TRUE
  None = None
  Apps = {"vansalex", "vansalex_web", "zatgo_pos"}
  DefaultOn = {"vansalex", "zatgo_pos"}
  NeedsOf <- Catalog
  NewApps = {"vansalex", "zatgo_pos"}
  Adopted = {}
  Industries = {"restaurant", "gym"}
  Restaurant = "restaurant"
  KeepsRestaurant = TRUE
SPECIFICATION AppSpec
CHECK_DEADLOCK FALSE
INVARIANT DefaultOnStays
