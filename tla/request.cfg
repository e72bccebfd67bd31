SPECIFICATION MCSpec
CONSTANTS
  Starts <- MCStarts
  Times <- MCTimes
  MaxTicks = 2
  Entries <- MCEntries
  OtherYears = {999, 2019}
  SkippedHours <- MCSkippedHours
  DateOfDisposalYearsIntoThePast = 2
  LineMaxLength = 2
  HolderLength = 2
  MaxLength = 5
  MaxLines = 5
INVARIANTS
  AcceptedDatesConvert
  SentInWindow
  LinesFit
  CutOnlyWhenFull
  ReadsAsEntered
PROPERTY RefusedOnlyOutside
CHECK_DEADLOCK FALSE
