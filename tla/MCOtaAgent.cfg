CONSTANTS
  Callers = {c1, c2}
  MaxFrames = 2
  ImageSize = 1
  Nobody = Nobody
SPECIFICATION Spec
INVARIANTS DoneOnceWithVerdict SnapshotFollowsSession StopMeansStopped
PROPERTIES EveryStopReturns DoneOrStopped
