\* Two tasks of either kind, two workers, two processes and a user who cancels
\* or deletes one.
CONSTANTS
  Task = {t1, t2}
  NoTask = NoTask
  Worker = {w1, w2}
  Process = {p1, p2}
  Client = {c1}
  MaxCalls = 1
  MaxCrashes = 1
SPECIFICATION FairSpec
INVARIANTS TypeOK OneWorker
PROPERTIES FinalStays EveryTaskEnds
CHECK_DEADLOCK FALSE
