CONSTANTS
  NumTopics = 2
  Callers = {c1, c2}
  TaskIds = {k1}
  MaxRetries = 0
  ReviewLimit = 1
  Faults = {}
SYMMETRY Symmetry
SPECIFICATION Spec
PROPERTY ImplementsLifecycle
