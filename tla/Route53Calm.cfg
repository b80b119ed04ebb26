CONSTANTS
  i1 = i1  i2 = i2  web = web  mail = mail  h1 = h1  h2 = h2
  Instances = {i1, i2}
  Fqdns = {web, mail}
  Hosts = {h1, h2}
  LoadBalancer = lb
  None = none
  NameTag <- OwnNames
  Lagging = FALSE
  Flaky = FALSE
  AdminCreates = {}
  CleanerRuns = FALSE
SPECIFICATION FairSpec
INVARIANT NamesFollowInstances
PROPERTY NameEventuallySet
