CONSTANTS
  Depth = 4
  Zero = w0
  Data = {w0, w1, w2}
  Nothing = nothing
SPECIFICATION Spec
PROPERTY IsQueue
