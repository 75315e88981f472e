\* Queued jobs of an exclusive class with the same argument, a timed job that may be added, or a job of a vanished class;
\* calls and a killed process meet two cron runs.
SPECIFICATION Spec
CONSTANTS
  p1 = p1 p2 = p2 c1 = c1 c2 = c2 timed = timed queued = queued plain = plain
  twin = twin off = off gone = gone i1 = i1 i2 = i2 i3 = i3 i4 = i4
  i5 = i5 i6 = i6 i7 = i7
  NoId = NoId NoRow = NoRow
  Process = {p1, p2} Client = {c1, c2} Id = {i1, i3, i4, i6}
  Class = {timed, queued, plain, twin, off, gone}
  ClassOf <- MCClassOf KeyOf <- MCSame Key <- MCKeys
  Timed = {timed} Queued = {queued, twin} Exclusive = {twin} Off = {off} Gone = {gone}
  Interval <- MCShort Listed = {{i3}, {i6}} Filters <- MCAll Modes = {"cron"} Calls = {"add", "remove", "execute"}
  SixHours = 1 TwelveHours = 2 TwoDays = 2 FourteenMinutes = 1 Start = 6
  MaxTime = 1 MaxCalls = 2 MaxCrashes = 1
INVARIANTS QueuedOnce NoJobLost
CONSTRAINT FewEvents
SYMMETRY Symmetric
