SPECIFICATION FairSpec
CONSTANTS
  Names = {"can0", "can1"}
  Registered = {"can0", "can1"}
  ObdPort = "can1"
  Links = {"can0", "can1"}
  Fold <- AsTyped
  Order <- MapOrder
  FirstFd = 3
  LastFd = 5
  MaxPending = 1
INVARIANTS TypeOK OpenIsWatched LoopIsSafeWithoutStop FramesGoWhereMeant
PROPERTIES FramesAreRead
CHECK_DEADLOCK FALSE
