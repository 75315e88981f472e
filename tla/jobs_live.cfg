\* One cron process over jobs that may run again at once.
SPECIFICATION FairCronSpec
CONSTANTS
  p1 = p1 p2 = p2 c1 = c1 c2 = c2 timed = timed queued = queued plain = plain
  twin = twin off = off gone = gone i1 = i1 i2 = i2 i3 = i3 i4 = i4
  i5 = i5 i6 = i6 i7 = i7
  NoId = NoId NoRow = NoRow
  Process = {p1} Client = {} Id = {i1, i2, i3, i4, i5, i6, i7}
  Class = {timed, queued, plain, twin, off, gone}
  ClassOf <- MCClassOf KeyOf <- MCKeyOf Key <- MCKeys
  Timed = {timed, twin} Queued = {queued} Exclusive = {twin} Off = {off} Gone = {gone}
  Interval <- MCZero Listed = {{i1, i7, i2}, {i3, i4}, {i1, i5, i6}} Filters <- MCAll Modes = {"cron", "web"} Calls = {}
  SixHours = 1 TwelveHours = 2 TwoDays = 2 FourteenMinutes = 1 Start = 6
  MaxTime = 2 MaxCalls = 0 MaxCrashes = 0
PROPERTIES CronEnds EveryJobRuns
