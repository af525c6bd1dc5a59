SPECIFICATION Safety
CONSTANTS
  N = 2
  Speed <- MCSpeed
INVARIANTS
  ErrorStopsServos
