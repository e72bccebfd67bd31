SPECIFICATION MCSpec
CONSTANTS
  Starts <- MCStarts
  Times <- MCTimes
  MaxTicks = 2
  Entries <- Plain
  OtherYears = {}
  SkippedHours <- NoSkippedHours
  DateOfDisposalYearsIntoThePast = 2
  LineMaxLength = 2
  HolderLength = 2
  MaxLength = 1
  MaxLines = 2
PROPERTY WindowAsDocumented
CHECK_DEADLOCK FALSE
