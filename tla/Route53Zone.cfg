CONSTANTS
  i1 = i1  i2 = i2  web = web  mail = mail  h1 = h1  h2 = h2
  Instances = {i1, i2}
  Fqdns = {web, mail}
  Hosts = {h1, h2}
  LoadBalancer = lb
  None = none
  NameTag <- SharedName
  Lagging = TRUE
  Flaky = TRUE
  AdminCreates = {i1}
  CleanerRuns = TRUE
SYMMETRY HostSymmetry
SPECIFICATION Spec
INVARIANT OwnNamesOnly
PROPERTY CleanerSparesLiveHosts
