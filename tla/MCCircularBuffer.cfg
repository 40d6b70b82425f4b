SPECIFICATION Spec
CONSTANTS
  Capacity = 3
  Byte = {b0, b1}
  Zero = b0
  MaxBytes = 4
INVARIANT IndexInv
PROPERTY ImplementsFifo
