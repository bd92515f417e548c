\* One scheduled task under fairness, and the smaller modules of the backend.
CONSTANTS
  Requests = {r1, r2}
  SnapshotIsolation = TRUE
  None = None
  Plans = {p1}
  MaxTime = 1
  MaxJobs = 1
  MaxEdits = 2
  Hosts = {h1, h2, h3}
  PlanSize = {1}
  Pool = 1
  Revives = FALSE
  Tickets = {x1, x2}
  Stations = {s1}
  StationOf <- OneStation
  ReturnIds = {c1, c2}
  Lines = {1, 2, 3}
  ItemOf <- TwiceListed
  Sold <- Quantities
  MaxAsk = 2
  Vouchers = {v1}
  MaxAmount = 2
  Stops = {t1}
  Sales = {s1}
  MaxSeq = 2
  Records = {d1, d2}
  Names = {1, 2}
  Exact = {1}
  Submittable = TRUE
  MaxDay = 2
  MaxGrace = 1
  TimeToLive <- Lifetimes
  MaxClock = 4
  Values = {1, 2}
  Series = {"S-.#", "S-1.#", "S-RET-.#", "S-.f.##"}
  Holders = {"u1", "u2"}
  PrefixesOf <- Taken
  FoundFor <- FoundThen
  LastDay = 1
  WidthOf <- Widths
  Base = 2
  MaxNumber = 3
  Apps = {"vansalex", "vansalex_web", "tracker"}
  DefaultOn = {"vansalex"}
  NeedsOf <- Catalog
  NewApps = {"vansalex", "tracker"}
  Adopted = {"tracker"}
  Industries = {"restaurant", "gym"}
  Restaurant = "restaurant"
  KeepsRestaurant = FALSE
SPECIFICATION ScheduledSpec
CHECK_DEADLOCK FALSE
INVARIANTS ScheduledTypeOK OccurrenceOnce FailingPlanIsOff PoolHolds
  ReturnedAsAsked NoTwins ServedIsCurrent NextNumberIsFree SwitchesAsAsked
PROPERTIES StuckPlanIsReleased OneStepAtATime VisitStands PostedEntryStands
  NoEditAfterTheEnd
