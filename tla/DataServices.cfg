SPECIFICATION MCSpec
CONSTANTS
  Parts = {"energy", "history", "runs", "outputs", "schedules", "reports",
           "catalog", "expression", "modbus", "assets",
           "queries", "calculators"}
  theTag = theTag
  None = None
  Tags = {"t", "u"}
  Clients = {"c"}
  Policies <- HistoryPolicies
  NoLimit = None
  MaxTime = 3
  MaxUpdates = 1
  MaxCrashes = 0
  BatchLimit = 1
  WriteLimit = 1
  Buffer = 1
  Gateways = {"g"}
  Devices = {"d"}
  Sources = {"s"}
  Parent <- CatalogParent
  Readings = {"r"}
  Calculated = {"k", "l"}
  Callers = {"c1", "c2"}
  Present = {"g", "d"}
  NoRow = None
  MaxEdits = 5
  RunClients = {"c", "d"}
  Periods <- RunPeriods
  Bucket = 2
  GridOffset <- RunGrids
  PerPage = 1
  MaxBatchTime = 5
  MaxRuns = 3
  MaxConfigs = 2
  MaxRunRequests = 2
  NoRun = None
  Assets = {"s", "b", "m", "n"}
  Site = "s"
  Planted <- AssetParents
  MeasurementSources = {"t", "u"}
  Units = {"kW", "W"}
  Canonical <- AssetUnit
  UnitOf <- SourceUnit
  Offers <- AssetOffers
  AssetCallers = {"c", "d"}
  NoAsset = NoAsset
  MaxDepth = 3
  MaxAsked = 3
\* Every part may come to rest: its bounds are used up.
CHECK_DEADLOCK FALSE
INVARIANTS CatalogSound RunsSound AssetsSound OutputsCovered TagsMean
           CapturesTheSchedule
PROPERTIES HistoryKept EnergyInOrder
