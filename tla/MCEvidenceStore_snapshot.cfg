\* One bundle committed while one reader is under way.
CONSTANTS
  w1 = w1
  w2 = w2
  w3 = w3
  r1 = r1
  r2 = r2
  a1 = a1
  a2 = a2
  k1 = k1
  k2 = k2
  k3 = k3
  f1 = f1
  f2 = f2
  f3 = f3
  d1 = d1
  d2 = d2
  d3 = d3
  p1 = p1
  p2 = p2
  p3 = p3
  None = None
  AssetOf <- ReadersAsset
  Writers = {w1, w2}
  Readers = {r1}
  Strict = {r1}
  Calls <- StoreCalls
SPECIFICATION Spec
INVARIANT SnapshotIsWhole
CHECK_DEADLOCK FALSE
