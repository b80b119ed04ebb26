CONSTANTS
  i1 = i1  q1 = q1
  Instances = {i1}
  Queries = {q1}
  QueryOf <- OneGroup
  Length <- LinePerInstance
  Hole = hole
  Processes = {p1, p2}
  h1 = h1  h2 = h2  h3 = h3
  Pids = {h1, h2, h3}
  FirstPid = h1
  NoPid = nopid
  MaxEvents = 2
SPECIFICATION FairUpdateSpec
INVARIANT FileIsLoaded
 
PROPERTY ConvergesToRunning
