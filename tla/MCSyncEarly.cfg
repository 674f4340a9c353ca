\* Wait() races with an Add() that is still between its two stores.
CONSTANTS
  Trio = {t1, t2, t3}
  Pair = {u1, u2}
  Other = {u3, u4}
  Values = {v1, v2}
  Null = Null
  Ring = 2
  Tickets = 2
  Adders = {a1, a2}
  Jobs = {j1, j2, j3}
  Joiners = {w1, w2}
  AdderOf <- MCAdderOf
  AddsFirst = FALSE
SPECIFICATION Spec
INVARIANT WaitBlocks
CHECK_DEADLOCK FALSE
