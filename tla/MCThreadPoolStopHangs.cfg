\* Stop() while a running task submits another one.
CONSTANTS
  a = a  b = b  c = c
  Workers = {"w1", "w2"}
  Clients = {"c1"}
  Main = "main"
  Tasks = {a, b, c}
  NoTask = NoTask
  Plans <- MCImpatient
SPECIFICATION FairSpec
PROPERTY StopReturns
CHECK_DEADLOCK FALSE
