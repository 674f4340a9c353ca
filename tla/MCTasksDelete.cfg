\* Two fibers wait for the group that one of them deletes.
CONSTANTS
  Submitters = {s1, s2, s3}
  Runners = {r1, r2}
  Tasks = {t1, t2, t3}
  Main = Main
  Workers = {w1, w2}
  Nothing = Nothing
  AllFibers = {f1, f2, f3, f4}
  Carriers = {c1, c2, c3}
  Plans <- Untested
  Sleeping = {f1, f2, f3, f4}
  Naps <- Sleepers
  f1 = f1
  f2 = f2
  f3 = f3
  f4 = f4
SPECIFICATION Spec
INVARIANT TouchesLive
