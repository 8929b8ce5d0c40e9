\* Two connections, two descriptors, two tasks sending frames of two pieces.
SPECIFICATION FairSpec
CONSTANTS
  Tasks <- TwoTasks
  NumFds = 2
  MaxConns = 2
  MaxCommands = 2
  MaxFrames = 1
  Parts = 2
INVARIANTS
  NoSocketLeak
  FramesWhole
PROPERTIES
  ConnectionTakesOver
  RxComesBack
CHECK_DEADLOCK FALSE
