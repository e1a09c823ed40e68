SPECIFICATION Spec
CONSTANTS
  Worker = {w1, w2}
  Clients = 2
  Keys = 2
  None = None
INVARIANTS TypeOK PostsAreBounded SkippedHaveFailed
PROPERTIES CallEnds
