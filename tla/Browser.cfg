SPECIFICATION Spec
CONSTANTS
  p1 = p1
  p2 = p2
  kim = kim
  choi = choi
  Tabs = {t1, t2}
  Opening = {t2}
  Actors = {kim, choi}
  Lawyers = {kim}
  Projects = {p1, p2}
  Members <- MCMembers
  Founded = {p1}
  Founder = Founder
  Flows = {c1, c2}
  Asks <- MCAsks
  MaxFaults = 2
  None = None
SYMMETRY Symmetry
CHECK_DEADLOCK FALSE
INVARIANT OwnWorkIsShown
INVARIANT LogIsWholeAtRest
INVARIANT ResetClearsTab
INVARIANT DownloadIsRecorded
