CONSTANTS
  RegisterMap <- MCRegisterMap
  RateRegisters = {"rate"}
  Values = {1, 2}
  Demo = 1
  QueueDepth = 2
  None = None
SPECIFICATION Spec
INVARIANT CleanStopLosesNothing
PROPERTIES StopEnds FollowsDevice
