SPECIFICATION Spec
CONSTANTS
  Writers = {w1}
  NoWriter = NoWriter
  MaxId = 2
  Bodies <- Numbers
INVARIANTS HonestLogVerifies
