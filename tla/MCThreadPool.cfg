CONSTANTS
  a = a  b = b  c = c
  Workers = {"w1", "w2"}
  Clients = {"c1", "c2"}
  Main = "main"
  Tasks = {a, b, c}
  NoTask = NoTask
  Plans <- MCPlans
SPECIFICATION FairSpec
INVARIANTS CounterIsWork IdleMeansDone StopDrains
PROPERTIES EveryTaskRuns IdleReturns StopReturns
