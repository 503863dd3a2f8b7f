CONSTANTS
  Workers = {w1, w2, w3}
  NodeLimit = 4
  MinOpen = 3
  Keep = 2
  TreeNodes = 4
  Events = {"time", "interrupt", "iterations", "exception"}
SYMMETRY WorkerSymmetry
SPECIFICATION Spec
INVARIANTS NoEarlyExit NobodySleepsThrough
