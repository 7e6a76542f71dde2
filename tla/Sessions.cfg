SPECIFICATION Spec
CONSTANTS
  kim = kim
  choi = choi
  s1 = s1
  s2 = s2
  short = short
  Browsers = {b1, b2}
  Users = {kim, choi}
  Passwords = {"right", "wrong"}
  SeedPasswords = {"right"}
  Managed = {choi}
  DefaultActor = kim
  Secrets = {s1, s2, short}
  StrongSecrets = {s1, s2}
  Environments <- MCEnvironments
  CookieNames = {"contractops_session", "contractops_demo_actor"}
  Calls = {c1, c2, c3}
  Asks <- MCAsks
  None = None
  DefaultMaxAge = 1
  MinMaxAge = 1
  DemoMaxAge = 2
  MaxInFlight = 2
  MaxTime = 1
  MaxBoots = 1
CHECK_DEADLOCK FALSE
SYMMETRY Interchangeable
INVARIANT TypeOK
INVARIANT SignOutIsComplete
PROPERTY ActsOnlyAsGranted
PROPERTY SessionsAreLogged
