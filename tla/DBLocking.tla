----------------------------- MODULE DBLocking -----------------------------
(***************************************************************************)
(* lib/private/Lock/DBLockingProvider.php: file locks kept as rows of the  *)
(* table file_locks, used where no locking memcache is configured.         *)
(*                                                                         *)
(* Every SQL statement is one step.  acquireLock needs two (INSERT IGNORE, *)
(* then UPDATE), so other requests and the cleanup of expired rows come    *)
(* in between.  Web requests keep one shared lock per path until they end  *)
(* and reuse it (cacheSharedLocks); command line processes do not.         *)
(***************************************************************************)
EXTENDS Integers, Tally

CONSTANTS
  Request, Path,
  NoPath,             \* the path field of a request that is inside no call
  NoRow,              \* row[p]: file_locks has no row with this key
  Ttl,                \* filelocking.ttl
  Web,                \* the requests with cacheSharedLocks; the others are
                      \* command line processes
  MaxShared,          \* bound: shared holds one request takes on one path
  MaxTime,            \* bound: seconds the clock runs
  MaxCrashes          \* bound: requests that are killed

ASSUME ConstantsAssumption ==
  /\ IsFiniteSet(Request)
  /\ NoPath \notin Path /\ NoRow \notin Int
  /\ Ttl \in Nat /\ MaxShared \in Nat \ {0}
  /\ Web \subseteq Request
  /\ MaxTime \in Nat /\ MaxCrashes \in Nat

VARIABLES
  row,      \* row[p]: column lock; -1 is exclusive, n >= 0 counts shared locks
  ttl,      \* ttl[p]: column ttl, the second after which the row may go
  now,      \* the clock, in seconds
  own,      \* own[r][p]: acquiredLocks['shared'][p] of request r
  ownX,     \* ownX[r]: the keys of acquiredLocks['exclusive'] of request r
  cached,   \* cached[r]: the paths with sharedLocks[p] = true in request r
  call,     \* call[r]: the acquireLock whose INSERT was ignored
  ending,   \* the requests that run releaseAll() as shutdown function
  crashes,  \* how many requests were killed
  lapsed,   \* history: paths whose row lost what a request still relies on: the
            \* row was cleaned, the lock given back by a process that did not
            \* hold it, or freed by the very request that keeps it; until
            \* nobody relies on the path any more (Recover)
  stray     \* history: paths with a row a killed request left behind

mine == <<own, ownX, cached>>
vars == <<row, ttl, now, own, ownX, cached, call, ending, crashes, lapsed, stray>>

Idle == [op |-> "none", path |-> NoPath, expire |-> 0, existing |-> 0]

Types ==
  /\ row \in [Path -> Int \cup {NoRow}]
  /\ ttl \in [Path -> Int]
  /\ now \in 0..MaxTime
  /\ own \in [Request -> [Path -> 0..MaxShared]]
  /\ ownX \in [Request -> SUBSET Path]
  /\ cached \in [Request -> SUBSET Path]
  /\ call \in [Request -> [op : {"none", "share", "exclude"}, path : Path \cup {NoPath},
                           expire : Int, existing : {0, 1}]]
  /\ ending \in SUBSET Request /\ crashes \in 0..MaxCrashes
  /\ lapsed \in SUBSET Path /\ stray \in SUBSET Path

\* Every variable has its type; a call that waits for its UPDATE names a path,
\* and what it computed before the INSERT about the own shared lock still holds.
TypeOK ==
  /\ Types
  /\ \A r \in Request :
       /\ call[r].op = "none" <=> call[r] = Idle
       /\ call[r].op # "none" => call[r].path \in Path
       /\ call[r].op = "share" => /\ own[r][call[r].path] < MaxShared
                                  /\ call[r].path \notin cached[r]
       /\ call[r].op = "exclude" => call[r].existing =
            IF own[r][call[r].path] = 0 /\ call[r].path \in cached[r] THEN 1 ELSE 0

\* What request r contributes to the counter in the row.
Counted(r, p) == IF r \in Web THEN IF p \in cached[r] THEN 1 ELSE 0
                 ELSE own[r][p]
Counts(p) == [r \in Request |-> Counted(r, p)]
Total(p)  == Tally(Request, MaxShared, Counts(p))

InUse(p) == \E r \in Request : Counted(r, p) > 0 \/ p \in ownX[r]

-----------------------------------------------------------------------------
(* Statements and marks.                                                   *)

Ready(r) == call[r] = Idle

Write(p, v, t) == /\ row' = [row EXCEPT ![p] = v]
                  /\ ttl' = [ttl EXCEPT ![p] = t]
Keep == UNCHANGED <<row, ttl>>

Return(r)  == call' = [call EXCEPT ![r] = Idle]
Throw(r)   == Keep /\ UNCHANGED mine /\ Return(r)

MarkShared(r, p) ==
  /\ own' = [own EXCEPT ![r][p] = @ + 1]
  /\ cached' = IF r \in Web THEN [cached EXCEPT ![r] = @ \cup {p}] ELSE cached
  /\ UNCHANGED ownX

MarkExclusive(r, p) == /\ ownX' = [ownX EXCEPT ![r] = @ \cup {p}]
                       /\ UNCHANGED <<own, cached>>

Rest == UNCHANGED <<now, ending, crashes, lapsed, stray>>

-----------------------------------------------------------------------------
(* acquireLock.                                                            *)

\* Fault: the kept lock is taken again without looking whether it is kept.
ReuseShared_Always(r, p) ==
  /\ Ready(r) /\ r \notin ending /\ own[r][p] < MaxShared
  /\ r \in Web
  /\ MarkShared(r, p)
  /\ Keep /\ UNCHANGED call /\ Rest

\* A shared lock that was kept is taken again without asking the database.
ReuseShared(r, p) ==
  /\ Ready(r) /\ r \notin ending /\ own[r][p] < MaxShared
  /\ p \in cached[r]
  /\ MarkShared(r, p)
  /\ Keep /\ UNCHANGED call /\ Rest

\* insertIgnoreConflict: a new row is the lock, an existing one needs UPDATE.
InsertShared(r, p) ==
  /\ Ready(r) /\ r \notin ending /\ own[r][p] < MaxShared
  /\ p \notin cached[r]
  /\ \/ /\ row[p] = NoRow
        /\ Write(p, 1, now + Ttl) /\ MarkShared(r, p) /\ UNCHANGED call
     \/ /\ row[p] # NoRow
        /\ call' = [call EXCEPT ![r] = [op |-> "share", path |-> p,
                                        expire |-> now + Ttl, existing |-> 0]]
        /\ Keep /\ UNCHANGED mine
  /\ Rest

UpdateShared(r) ==
  LET p == call[r].path IN
  /\ call[r].op = "share"
  /\ \/ /\ row[p] # NoRow /\ row[p] >= 0
        /\ Write(p, row[p] + 1, call[r].expire) /\ MarkShared(r, p) /\ Return(r)
     \/ row[p] \in {NoRow, -1} /\ Throw(r)
  /\ Rest

\* A kept shared lock is in the row although nobody holds it: the row must then
\* count exactly that one.  The flag that it is kept stays set.
InsertExclusive(r, p) ==
  /\ Ready(r) /\ r \notin ending
  /\ \/ /\ row[p] = NoRow
        /\ Write(p, -1, now + Ttl) /\ MarkExclusive(r, p) /\ UNCHANGED call
     \/ /\ row[p] # NoRow
        /\ call' = [call EXCEPT ![r] =
             [op |-> "exclude", path |-> p, expire |-> now + Ttl,
              existing |-> IF own[r][p] = 0 /\ p \in cached[r] THEN 1 ELSE 0]]
        /\ Keep /\ UNCHANGED mine
  /\ Rest

\* Fault: the row must count at most one shared lock, instead of exactly the
\* own kept one.
UpdateExclusive_AtMostOne(r) ==
  LET p == call[r].path IN
  /\ call[r].op = "exclude" /\ Rest
  /\ \/ row[p] \in {0, 1} /\ Write(p, -1, call[r].expire) /\ MarkExclusive(r, p) /\ Return(r)
     \/ row[p] \notin {0, 1} /\ Throw(r)

UpdateExclusive(r) ==
  LET p == call[r].path IN
  /\ call[r].op = "exclude"
  /\ \/ row[p] = call[r].existing
        /\ Write(p, -1, call[r].expire) /\ MarkExclusive(r, p) /\ Return(r)
     \/ row[p] # call[r].existing /\ Throw(r)
  /\ Rest

-----------------------------------------------------------------------------
(* releaseLock; the bookkeeping is updated first.                          *)

Decremented(v) == IF v # NoRow /\ v > 0 THEN v - 1 ELSE v

\* Fault: markRelease runs before the statement and again after it.
ReleaseShared_MarksTwice(r, p) ==
  /\ Ready(r) /\ own[r][p] > 0
  /\ own' = [own EXCEPT ![r][p] = @ - 2]
  /\ row' = IF r \in Web THEN row ELSE [row EXCEPT ![p] = Decremented(@)]
  /\ UNCHANGED <<ttl, ownX, cached, call>> /\ Rest

\* Fault: web requests give back the lock in the row that they go on keeping.
ReleaseShared_GivesKeptBack(r, p) ==
  /\ Ready(r) /\ own[r][p] > 0
  /\ own' = [own EXCEPT ![r][p] = @ - 1]
  /\ row' = [row EXCEPT ![p] = Decremented(@)]
  /\ UNCHANGED <<ttl, ownX, cached, call>> /\ Rest

\* markRelease ignores a lock the request does not hold, the statement of a
\* command line process does not: it takes a count that is somebody else's.
ReleaseShared(r, p) ==
  /\ Ready(r) /\ (r \in ending => own[r][p] > 0)
  /\ own' = [own EXCEPT ![r][p] = IF @ > 0 THEN @ - 1 ELSE 0]
  /\ row' = IF r \in Web THEN row ELSE [row EXCEPT ![p] = Decremented(@)]
  /\ lapsed' = IF own[r][p] = 0 /\ row' # row /\ Total(p) >= row[p]
               THEN lapsed \cup {p} ELSE lapsed
  /\ UNCHANGED <<ttl, ownX, cached, call, now, ending, crashes, stray>>

\* The row is free, also where the request goes on keeping a shared lock.
ReleaseExclusive(r, p) ==
  /\ Ready(r) /\ p \in ownX[r]
  /\ r \in ending => \A x \in Path : own[r][x] = 0
  /\ ownX' = [ownX EXCEPT ![r] = @ \ {p}]
  /\ row' = [row EXCEPT ![p] = IF @ = -1 THEN 0 ELSE @]
  /\ lapsed' = IF p \in cached[r] THEN lapsed \cup {p} ELSE lapsed
  /\ UNCHANGED <<ttl, own, cached, call, now, ending, crashes, stray>>

-----------------------------------------------------------------------------
(* changeLock.                                                             *)

ChangeToShared(r, p) ==
  /\ Ready(r) /\ r \notin ending /\ p \in ownX[r] /\ own[r][p] < MaxShared
  /\ \/ /\ row[p] = -1
        /\ Write(p, 1, now + Ttl)
        /\ own' = [own EXCEPT ![r][p] = @ + 1]
        /\ ownX' = [ownX EXCEPT ![r] = @ \ {p}]
        /\ cached' = IF r \in Web THEN [cached EXCEPT ![r] = @ \cup {p}] ELSE cached
     \/ row[p] # -1 /\ Keep /\ UNCHANGED mine
  /\ UNCHANGED call /\ Rest

\* More than one own shared lock: the row cannot tell, so the code checks.
ChangeToExclusive(r, p) ==
  /\ Ready(r) /\ r \notin ending /\ own[r][p] > 0
  /\ \/ /\ own[r][p] = 1 /\ row[p] = 1
        /\ Write(p, -1, now + Ttl)
        /\ own' = [own EXCEPT ![r][p] = 0]
        /\ ownX' = [ownX EXCEPT ![r] = @ \cup {p}]
        /\ cached' = IF r \in Web THEN [cached EXCEPT ![r] = @ \ {p}] ELSE cached
     \/ /\ own[r][p] > 1 \/ row[p] # 1
        /\ Keep /\ UNCHANGED mine
  /\ UNCHANGED call /\ Rest

-----------------------------------------------------------------------------
(* The request's end, a crash, cleanup and time.                           *)

BeginReleaseAll(r) ==
  /\ Ready(r) /\ r \notin ending
  /\ ending' = ending \cup {r}
  /\ Keep /\ UNCHANGED <<mine, call, now, crashes, lapsed, stray>>

Fresh(r) == /\ own' = [own EXCEPT ![r] = [p \in Path |-> 0]]
            /\ ownX' = [ownX EXCEPT ![r] = {}]
            /\ cached' = [cached EXCEPT ![r] = {}]
            /\ call' = [call EXCEPT ![r] = Idle]
            /\ ending' = ending \ {r}

\* Fault: the kept shared locks are not given back.
ReleaseCached_Forgets(r) ==
  /\ Ready(r) /\ r \in ending
  /\ ownX[r] = {} /\ \A p \in Path : own[r][p] = 0
  /\ Fresh(r) /\ Keep
  /\ UNCHANGED <<now, crashes, lapsed, stray>>

\* After the parent's releaseAll one UPDATE gives the kept shared locks back
\* (one per hundred paths), and the worker takes its next request.
ReleaseCached(r) ==
  /\ Ready(r) /\ r \in ending
  /\ ownX[r] = {} /\ \A p \in Path : own[r][p] = 0
  /\ row' = [p \in Path |-> IF p \in cached[r] THEN Decremented(row[p]) ELSE row[p]]
  /\ Fresh(r)
  /\ UNCHANGED <<ttl, now, crashes, lapsed, stray>>

Crash(r) ==
  /\ crashes < MaxCrashes /\ crashes' = crashes + 1
  /\ stray' = stray \cup {p \in Path : Counted(r, p) > 0 \/ p \in ownX[r]}
  /\ Fresh(r)
  /\ Keep /\ UNCHANGED <<now, lapsed>>

\* The background job CleanupFileLocks.
CleanExpiredLocks ==
  LET S == {p \in Path : row[p] # NoRow /\ ttl[p] < now} IN
  /\ S # {}
  /\ row' = [p \in Path |-> IF p \in S THEN NoRow ELSE row[p]]
  /\ ttl' = [p \in Path |-> IF p \in S THEN 0 ELSE ttl[p]]
  /\ lapsed' = lapsed \cup {p \in S : InUse(p)}
  /\ stray' = stray \ S
  /\ UNCHANGED <<now, mine, call, ending, crashes>>

Tick == now < MaxTime /\ now' = now + 1
        /\ Keep /\ UNCHANGED <<mine, call, ending, crashes, lapsed, stray>>

\* The history forgets a loss when nobody relies on the path any more.
Recover(p) ==
  /\ p \in lapsed /\ ~InUse(p) /\ row[p] \in {NoRow, 0}
  /\ lapsed' = lapsed \ {p}
  /\ Keep /\ UNCHANGED <<now, mine, call, ending, crashes, stray>>

-----------------------------------------------------------------------------
Init ==
  /\ row = [p \in Path |-> NoRow] /\ ttl = [p \in Path |-> 0] /\ now = 0
  /\ own = [r \in Request |-> [p \in Path |-> 0]]
  /\ ownX = [r \in Request |-> {}] /\ cached = [r \in Request |-> {}]
  /\ call = [r \in Request |-> Idle]
  /\ ending = {} /\ crashes = 0 /\ lapsed = {} /\ stray = {}

ClientStep(r, p) ==
  \/ ReuseShared(r, p) \/ InsertShared(r, p) \/ InsertExclusive(r, p)
  \/ ReleaseShared(r, p) \/ ReleaseExclusive(r, p)
  \/ ChangeToShared(r, p) \/ ChangeToExclusive(r, p)

RequestStep(r) ==
  \/ UpdateShared(r) \/ UpdateExclusive(r)
  \/ BeginReleaseAll(r) \/ ReleaseCached(r) \/ Crash(r)

Next ==
  \/ \E r \in Request : RequestStep(r) \/ \E p \in Path : ClientStep(r, p)
  \/ CleanExpiredLocks \/ Tick
  \/ \E p \in Path : Recover(p)

Spec == Init /\ [][Next]_vars

-----------------------------------------------------------------------------
(* Properties.                                                             *)

\* The row agrees with what requests rely on: it is exclusive only for one
\* holder, who may be a web request that also keeps a shared lock, and its
\* counter is never below the shared locks that are held or, in web requests,
\* kept for reuse.  It speaks of every path but those where the row lost a lock
\* somebody relies on (lapsed), and of these again once nobody does.
CountCovers ==
  \A p \in Path \ lapsed :
    /\ row[p] = NoRow => ~InUse(p)
    /\ row[p] \in Int /\ row[p] # -1 =>
         Total(p) <= row[p] /\ \A r \in Request : p \notin ownX[r]
    /\ row[p] = -1 =>
         /\ \A r \in Request : Counted(r, p) > 0 => r \in Web /\ p \in ownX[r]
         /\ \A r, q \in Request : p \in ownX[r] /\ p \in ownX[q] => r = q

\* An exclusive lock excludes every lock of another request, of those that take
\* a kept lock again without asking the database too, on every path whose row
\* has not lost a lock somebody relies on.
MutualExclusion ==
  \A p \in Path \ lapsed : \A r, q \in Request :
    r # q /\ p \in ownX[r] => p \notin ownX[q] /\ own[q][p] = 0

\* Nothing leaks, whatever was cleaned, given back twice or freed too early: the
\* counter is never above the locks held or kept and 'exclusive' has a holder,
\* so a path is free once all requests that used it have ended.  Only a killed
\* request leaves a lock that nobody has.
NothingLeaks ==
  \A p \in Path \ stray :
    /\ row[p] # NoRow /\ row[p] > 0 => row[p] <= Total(p)
    /\ row[p] = -1 => \E r \in Request : p \in ownX[r]

\* "if we have a shared lock we kept open locally but it's released we always
\* have at least 1 shared lock in the db" (comment in isLocked), at least until
\* the first row can have expired.
KeptLockIsInDb ==
  now <= Ttl => \A p \in Path : \A r \in Request :
    p \in cached[r] /\ own[r][p] = 0 /\ p \notin ownX[r] => row[p] # NoRow /\ row[p] >= 1

\* Web and command line together, the statements implement the abstract lock
\* table; a kept lock that is not held is nothing a caller can see.
Table == INSTANCE RWLock WITH readers <- own, writers <- ownX
ImplementsRWLock == Table!Spec
=============================================================================
