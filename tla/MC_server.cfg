\* Two posts, one of them with a key, and a readiness probe on one connection.
CONSTANTS
  p1 = p1
  p2 = p2
  probe = probe
  Posts = {p1, p2}
  Keyed = {p1}
  Probes = {probe}
  MaxConnections = 1
SPECIFICATION FairSpec
CHECK_DEADLOCK FALSE
INVARIANTS ReadinessHonest ReturnsClean GracefulStop
PROPERTIES RequestsEnd SignalEnds ImplementsRequestCycle
