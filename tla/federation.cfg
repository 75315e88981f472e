\* Two servers, one of which runs two cron processes; a request or an answer is
\* lost or late, a day passes, a job runs twice, a row is removed, or a process
\* is killed.
CONSTANTS
  Server = {a, b}
  a = a
  b = b
  k1 = k1
  k2 = k2
  k3 = k3
  Cron = {k1, k2, k3}
  Home <- MCHome
  Token = {1, 2}
  NoToken = NoToken
  NoRow = NoRow
  Secret = {1, 2, 3, 4, 5, 6}
  NoSecret = NoSecret
  MaxAttempts = 1
  Lifespan = 0
  MaxSecond = 1
  MaxTime = 1
  MaxLosses = 1
  MaxMishaps = 1
SPECIFICATION FairSpec
INVARIANTS TypeOK SecretsAgree OneFetches
PROPERTIES EventuallyAgreed
CHECK_DEADLOCK FALSE
