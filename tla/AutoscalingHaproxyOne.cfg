CONSTANTS
  Instances = {first, i1}
  FirstInstance = first
  NoInstance = none
  Consumers = {c1}
  NotRunning = notrunning
  MaxName = 5
  MaxCrashes = 1
SPECIFICATION FairSpec
INVARIANT LaunchNotLost
INVARIANT NoDeadHost
INVARIANT NamesUnique
INVARIANT StaleByAtMostOneEdit
PROPERTY ImplementsRegistry
PROPERTY LaunchEventuallyWritten
