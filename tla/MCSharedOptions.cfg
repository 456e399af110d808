CONSTANTS
  c1 = c1
  c2 = c2
  sl1 = sl1
  sl2 = sl2
  p1 = p1
  f1 = f1
  v1 = v1
  v2 = v2
  NilPeer = NilPeer
  NoFilter = NoFilter
  Unset = Unset
  Calls <- MCCalls
  Slices <- MCSlices
  Arguments <- SharedWithRoom
  Peers <- MCPeers
  Filters <- MCFilters
  Values <- MCValues
  Left <- MCLeft
  Configured <- MCConfigured

SPECIFICATION Spec

INVARIANTS
  FilterIsPerRequest

\* Calls go on elsewhere when their context is there.
CHECK_DEADLOCK FALSE
