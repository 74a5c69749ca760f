SPECIFICATION AssetsSpec
CONSTANTS
  s = s
  b = b
  m = m
  n = n
  t1 = t1
  t2 = t2
  c = c
  Assets = {s, b, m, n}
  Site = s
  Planted <- MCPlanted
  MeasurementSources = {t1, t2}
  Units = {"kW", "W"}
  Canonical <- MCCanonical
  UnitOf <- MCUnitOf
  Offers <- MCOffers
  AssetCallers = {c}
  NoAsset = NoAsset
  MaxDepth = 3
  MaxAsked = 4
INVARIANTS BoundaryIsAncestor
\* Requests run out.
CHECK_DEADLOCK FALSE
