SPECIFICATION Spec
CONSTANTS
  p1 = p1
  p2 = p2
  e1 = e1
  c1 = c1
  c2 = c2
  c3 = c3
  Projects = {p1, p2}
  Ids = {e1}
  Calls = {c1, c2, c3}
  Asks <- MCAsks
  Drivers = {"memory", "file", "postgres"}
  Founded = {p1}
  Founder = Founder
  MaxInFlight = 3
  MaxFaults = 2
  None = None
  Empty = Empty
  Torn = Torn
SYMMETRY Symmetry
CHECK_DEADLOCK FALSE
INVARIANT NoIdTwice
