CONSTANTS
  Main = Main
  Workers = {w1, w2}
  Threads = {Main, w1, w2}
  Futures = {0, 1, 2, 3, 11, 12, 13}
  Values <- Results
  Nothing = Nothing
  Chains <- Nested
  InnerErrors = TRUE
SPECIFICATION Spec
INVARIANT ErrorsArePassedOn
