\* A retry made while the first call with its action_id is under way.
CONSTANTS
  c1 = c1
  c2 = c2
  c3 = c3
  click = click
  other = other
  Calls = {c1, c2, c3}
  Inspectors = {i1}
  ActionIds = {click, other}
  IdOf <- RetryIds
  Overlap = TRUE
  MaxMoves = 0
SPECIFICATION Spec
INVARIANTS DispatchedOnce
