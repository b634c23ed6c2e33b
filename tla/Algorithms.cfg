CONSTANTS
  TicksPerMinute = 2
  MinutesPerDay = 3
  DaysPerWeek = 3
  ScheduleItems = 2
SPECIFICATION AlgorithmsSpec
INVARIANTS
  SearchIsRight
  WordFieldsApart
  SyncReadsBack
  RecordsApart
