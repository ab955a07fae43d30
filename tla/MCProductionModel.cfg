CONSTANTS
  Threads = {gui, net}
  Gui = gui
  Remote = {"supply", "rate"}
  Lines <- MCLines
  BLine = "line"
  Checkpoints <- MCCheckpoints
  Operations = 1
  DemoStatus <- MCDemoStatus
  DemoRate <- MCDemoRate
  DemoCompleted = 0
SPECIFICATION ProductionSpec
INVARIANT AlarmsTellTheTruth
PROPERTY QualityAlarmHeals
