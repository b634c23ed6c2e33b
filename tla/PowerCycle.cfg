CONSTANTS
  TicksPerMinute = 2
  MinutesPerDay = 3
  DaysPerWeek = 2
  ScheduleItems = 1
  TimerCountMax = 2
  Lag = 1
  Intervals <- MCIntervals
  Offered <- MCOffered
  SyncTimes <- MCSyncTimes
SPECIFICATION FairSpec
INVARIANTS
  TypeOK
  RtcAgreesWithContext
PROPERTIES
  NeverOversleeps
  NoScheduleSleptThrough
  NoStaleAlarm
  SleepEnds
