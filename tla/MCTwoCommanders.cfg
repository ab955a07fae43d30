CONSTANTS
  Threads = {gui, net}
  Gui = gui
  Remote = {"state"}
  Lines <- MCLines
  BLine = "line"
  Checkpoints <- MCCheckpoints
  Operations = 1
  DemoStatus <- MCDemoStatus
  DemoRate <- MCDemoRate
  DemoCompleted = 0
SPECIFICATION ProductionSpec
INVARIANT FaultIsAlarmed
