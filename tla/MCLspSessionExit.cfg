SPECIFICATION Spec
CONSTANTS
  Initializes = {i1}
  Asks = {}
  Opens = {}
INVARIANTS
  ExitCodeAsPrescribed
CHECK_DEADLOCK FALSE
