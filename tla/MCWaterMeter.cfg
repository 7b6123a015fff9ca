SPECIFICATION Spec
CONSTANTS
  TimerSpan = 16
  ByteSpan = 8
  PulsesPerDecilitre = 3
  TIMER_HZ = 2
  HALL_WAIT = 1
  SEND_DELAY = 2
  SEND_DELAY_BATTERY = 6
  EdgesPerTurn = 2
  MaxEdges = 12
INVARIANTS
  TypeOK
  NoOverCount
  LossBounded
  NotCutOff
  OnePacketPerWake
PROPERTIES
  OverflowIsMetered
  ReportsKeepComing
