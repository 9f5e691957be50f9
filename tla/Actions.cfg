\* A click, its retry after the first call is over, another action, and an inspector.
CONSTANTS
  c1 = c1
  c2 = c2
  c3 = c3
  click = click
  other = other
  Calls = {c1, c2, c3}
  Inspectors = {i1}
  ActionIds = {click, other}
  IdOf <- RetryIds
  Overlap = FALSE
  MaxMoves = 1
SPECIFICATION Spec
INVARIANTS OneDispatchPerEpoch NoReplay
PROPERTIES EveryCallEnds
