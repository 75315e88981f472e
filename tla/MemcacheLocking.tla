-------------------------- MODULE MemcacheLocking --------------------------
(***************************************************************************)
(* lib/private/Lock/MemcacheLockingProvider.php over                       *)
(* lib/private/Memcache/Redis.php: file locks kept as Redis keys.          *)
(*                                                                         *)
(* Every Redis command is one step, so other requests, the clock and a     *)
(* crash fall between any two commands of one acquireLock, releaseLock or  *)
(* changeLock.  A key holds a counter of shared locks or the string        *)
(* 'exclusive'.  The bookkeeping a request keeps of its own locks          *)
(* (acquiredLocks, oldTTLs) is written after the commands it reports on.   *)
(***************************************************************************)
EXTENDS Integers, Tally

CONSTANTS
  Request,     \* concurrent PHP requests
  Path,        \* lock keys
  NoPath,      \* the path field of a request that is inside no call
  NoKey,       \* lock[p]: Redis has no such key
  Exclusive,   \* lock[p]: the string 'exclusive'
  NoTtl,       \* expiry[p]: the key never expires; also "nothing saved"
  Ttl,         \* the provider's ttl (filelocking.ttl)
  DefaultTtl,  \* the TTL of a key written by add() without one
  MaxShared,   \* bound: shared holds one request takes on one path
  MaxTime,     \* bound: seconds the clock runs
  MaxCrashes   \* bound: requests that are killed

ASSUME ConstantsAssumption ==
  /\ IsFiniteSet(Request)
  /\ NoPath \notin Path
  /\ {NoKey, Exclusive, NoTtl} \cap Int = {}
  /\ NoKey # Exclusive
  /\ Ttl \in Nat \ {0} /\ DefaultTtl \in Nat \ {0}
  /\ MaxShared \in Nat \ {0} /\ MaxTime \in Nat /\ MaxCrashes \in Nat

VARIABLES
  lock,    \* lock[p]: value of the Redis key
  expiry,  \* expiry[p]: second at which the key expires
  now,     \* the clock, in seconds
  own,     \* own[r][p]: acquiredLocks['shared'][p] of request r
  ownX,    \* ownX[r]: the keys of acquiredLocks['exclusive'] of request r
  saved,   \* saved[r][p]: oldTTLs[p] of request r
  call,    \* call[r]: the provider call r is in and where it stands
  ending,  \* the requests that run releaseAll() as shutdown function
  crashes, \* how many requests were killed
  lapsed,  \* history: keys that vanished while a live request held them,
           \* until all who had to do with them are done (Recover)
  stray    \* history: keys with a hold, or an excess release, of a crashed request

redis == <<lock, expiry>>
mine  == <<own, ownX>>
vars  == <<lock, expiry, now, own, ownX, saved, call, ending, crashes, lapsed,
           stray>>

-----------------------------------------------------------------------------
(* Types.                                                                  *)

NoSaved == [ttl |-> NoTtl, time |-> 0]
Idle    == [op |-> "none", at |-> "idle", path |-> NoPath,
            seen |-> NoKey, elapsed |-> 0]

LockValue == {NoKey, Exclusive} \cup Int
Calls == [op : {"none", "share", "exclude", "release", "up", "down"},
          at : {"idle", "inc", "cas", "stamp", "dec", "get", "ttl", "set",
                "reset"},
          path : Path \cup {NoPath}, seen : LockValue, elapsed : Int]

Types ==
  /\ lock \in [Path -> LockValue]
  /\ expiry \in [Path -> Int \cup {NoTtl}]
  /\ now \in 0..MaxTime
  /\ own \in [Request -> [Path -> 0..MaxShared]]
  /\ ownX \in [Request -> SUBSET Path]
  /\ saved \in [Request -> [Path -> {NoSaved} \cup [ttl : Int, time : Int]]]
  /\ call \in [Request -> Calls]
  /\ ending \in SUBSET Request /\ crashes \in 0..MaxCrashes
  /\ lapsed \in SUBSET Path /\ stray \in SUBSET Path

-----------------------------------------------------------------------------
(* What a request holds in Redis.  While a call is between the command     *)
(* that changes the key and markAcquire / markRelease / markChange, the    *)
(* bookkeeping is one behind; the change due is added here.                *)

Gaining(c) == c.op \in {"share", "down"} /\ c.at = "stamp"
Losing(c)  == \/ c.op = "up" /\ c.at = "stamp"
              \/ c.op = "release" /\ c.at \in {"get", "ttl", "set", "reset"}
Due(c, p)  == IF c.path # p THEN 0
              ELSE IF Gaining(c) THEN 1 ELSE IF Losing(c) THEN -1 ELSE 0

Held(r, p) == own[r][p] + Due(call[r], p)

HasX(r, p) ==
  \/ call[r].path = p /\ call[r].op \in {"exclude", "up"} /\ call[r].at = "stamp"
  \/ p \in ownX[r] /\ ~(call[r].path = p /\ call[r].op = "down" /\ call[r].at = "stamp")

Holds(p) == [r \in Request |-> Held(r, p)]
Total(p) == Tally(Request, MaxShared, Holds(p))
InUse(p) == \E r \in Request : Held(r, p) > 0 \/ HasX(r, p)

\* Where a call stands agrees with the bookkeeping of its request.
CallConsistent(r) ==
  LET c == call[r]  p == call[r].path IN
  /\ c.at = "idle" => c = Idle
  /\ c.at # "idle" => p \in Path
  /\ c.at = "inc" => c.op = "share"
  /\ c.at = "cas" => c.op = "exclude"
  /\ c.at = "stamp" => c.op \in {"share", "exclude", "up", "down"}
  /\ c.at \in {"inc", "stamp"} /\ c.op \in {"share", "down"} => own[r][p] < MaxShared
  /\ c.at = "stamp" /\ c.op = "up" => own[r][p] > 0
  /\ c.at = "stamp" /\ c.op = "down" => p \in ownX[r]
  /\ c.at \in {"dec", "reset"} => c.op = "release" /\ own[r][p] > 0
  /\ c.at \in {"get", "ttl", "set"} =>
       c.op \in {"release", "up"} /\ own[r][p] > 0 /\ saved[r][p] # NoSaved

\* Every variable has its type, and no call stands at a command that the
\* bookkeeping of its request does not allow.
TypeOK == Types /\ \A r \in Request : CallConsistent(r)

-----------------------------------------------------------------------------
(* Redis commands (Memcache/Redis.php).                                    *)

\* getTTL: seconds left, -1 where Redis reports no key or no TTL.
GetTtl(p) == IF lock[p] = NoKey \/ expiry[p] = NoTtl THEN -1 ELSE expiry[p] - now

\* SET without EX, and INCRBY on a new key, leave the key without a TTL.
Put(p, v, e) == /\ lock' = [lock EXCEPT ![p] = v]
                /\ expiry' = [expiry EXCEPT ![p] = e]
                /\ UNCHANGED <<lapsed, stray>>

Keep == UNCHANGED <<lock, expiry, lapsed, stray>>

\* The keys in S are gone; a live holder's lock is lost with its key.
Drop(S) == /\ lock' = [p \in Path |-> IF p \in S THEN NoKey ELSE lock[p]]
           /\ expiry' = [p \in Path |-> IF p \in S THEN NoTtl ELSE expiry[p]]
           /\ stray' = stray \ S

\* cad on a key whose lock the caller gives up in the same call.
DropOwn(p) == Drop({p}) /\ UNCHANGED lapsed

DropAny(S) == Drop(S) /\ lapsed' = lapsed \cup {p \in S : InUse(p)}

-----------------------------------------------------------------------------
(* Control of a call.                                                      *)

Ready(r)  == call[r] = Idle
InCall(r, at) == call[r].at = at

Goto(r, p, op, at) ==
  call' = [call EXCEPT ![r] = [op |-> op, at |-> at, path |-> p,
                               seen |-> NoKey, elapsed |-> 0]]

Return(r) == call' = [call EXCEPT ![r] = Idle]

Forget(r, p) == saved' = [saved EXCEPT ![r][p] = NoSaved]

MarkRelease(r, p) == /\ own' = [own EXCEPT ![r][p] = @ - 1]
                     /\ UNCHANGED ownX

\* Fault: trusts the comment in acquireLock that the TTL comes with the set.
Stamp_TrustsSet(r) ==
  LET p == call[r].path  op == call[r].op IN
  /\ InCall(r, "stamp")
  /\ expiry' = IF op = "exclude" THEN expiry ELSE [expiry EXCEPT ![p] = now + Ttl]
  /\ own' = [own EXCEPT ![r][p] = @ + Due(call[r], p)]
  /\ ownX' = [ownX EXCEPT ![r] = IF op \in {"exclude", "up"} THEN @ \cup {p} ELSE @ \ {p}]
  /\ Return(r)
  /\ UNCHANGED <<lock, now, saved, ending, crashes, lapsed, stray>>

\* setTTL, then markAcquire or markChange, at the end of a call that locked.
Stamp(r) ==
  LET p == call[r].path  op == call[r].op IN
  /\ InCall(r, "stamp")
  /\ expiry' = [expiry EXCEPT ![p] = IF lock[p] = NoKey THEN NoTtl ELSE now + Ttl]
  /\ own' = [own EXCEPT ![r][p] = @ + Due(call[r], p)]
  /\ ownX' = [ownX EXCEPT ![r] = IF op \in {"exclude", "up"} THEN @ \cup {p}
                                 ELSE IF op = "down" THEN @ \ {p} ELSE @]
  /\ Return(r)
  /\ UNCHANGED <<lock, now, saved, ending, crashes, lapsed, stray>>

-----------------------------------------------------------------------------
(* acquireLock.                                                            *)

\* Shared: remember the TTL the key has now, for restoreTTL.
SaveOldTtl(r, p) ==
  /\ Ready(r) /\ r \notin ending /\ own[r][p] < MaxShared
  /\ saved' = [saved EXCEPT ![r][p] = [ttl |-> GetTtl(p), time |-> now]]
  /\ Goto(r, p, "share", "inc")
  /\ UNCHANGED <<redis, now, mine, ending, crashes, lapsed, stray>>

\* inc fails on 'exclusive'; a counter that becomes 0 is falsy, so that
\* also throws LockedException.
Inc(r) ==
  LET p == call[r].path
      n == IF lock[p] = NoKey THEN 1 ELSE lock[p] + 1 IN
  /\ InCall(r, "inc")
  /\ \/ lock[p] = Exclusive /\ Keep /\ Return(r)
     \/ /\ lock[p] # Exclusive
        /\ Put(p, n, expiry[p])
        /\ IF n = 0 THEN Return(r) ELSE Goto(r, p, "share", "stamp")
  /\ UNCHANGED <<now, mine, saved, ending, crashes>>

\* Fault: set() in place of add().
AddZero_Overwrites(r, p) ==
  /\ Ready(r) /\ r \notin ending
  /\ Put(p, 0, now + DefaultTtl) /\ Goto(r, p, "exclude", "cas")
  /\ UNCHANGED <<now, mine, saved, ending, crashes>>

\* Exclusive: first make sure that the key exists.
AddZero(r, p) ==
  /\ Ready(r) /\ r \notin ending
  /\ IF lock[p] = NoKey THEN Put(p, 0, now + DefaultTtl) ELSE Keep
  /\ Goto(r, p, "exclude", "cas")
  /\ UNCHANGED <<now, mine, saved, ending, crashes>>

\* Fault: set() in place of cas().
CasExclusive_Unchecked(r) ==
  LET p == call[r].path IN
  /\ InCall(r, "cas")
  /\ Put(p, Exclusive, NoTtl) /\ Forget(r, p) /\ Goto(r, p, "exclude", "stamp")
  /\ UNCHANGED <<now, mine, ending, crashes>>

CasExclusive(r) ==
  LET p == call[r].path IN
  /\ InCall(r, "cas")
  /\ \/ /\ lock[p] = 0
        /\ Put(p, Exclusive, NoTtl) /\ Forget(r, p)
        /\ Goto(r, p, "exclude", "stamp")
     \/ lock[p] # 0 /\ Keep /\ UNCHANGED saved /\ Return(r)
  /\ UNCHANGED <<now, mine, ending, crashes>>

-----------------------------------------------------------------------------
(* releaseLock.                                                            *)

\* Faults: remove() in place of cad(); no dec() after a cad() that failed.
ReleaseLast_Removes(r, p) ==
  /\ Ready(r) /\ own[r][p] = 1
  /\ DropOwn(p) /\ MarkRelease(r, p) /\ Forget(r, p) /\ Return(r)
  /\ UNCHANGED <<now, ending, crashes>>

ReleaseLast_NoDec(r, p) ==
  /\ Ready(r) /\ own[r][p] = 1
  /\ IF lock[p] = 1 THEN DropOwn(p) ELSE Keep
  /\ MarkRelease(r, p) /\ Forget(r, p) /\ Return(r)
  /\ UNCHANGED <<now, ending, crashes>>

\* The only own shared lock: delete the key if the counter is 1.
ReleaseLast(r, p) ==
  /\ Ready(r) /\ own[r][p] = 1
  /\ \/ /\ lock[p] = 1
        /\ DropOwn(p) /\ MarkRelease(r, p) /\ Forget(r, p) /\ Return(r)
     \/ /\ lock[p] # 1
        /\ Keep /\ UNCHANGED <<mine, saved>> /\ Goto(r, p, "release", "dec")
  /\ UNCHANGED <<now, ending, crashes>>

\* dec; it answers false for a missing key and for 'exclusive'.
Decrement(r, p) ==
  /\ lock[p] \in Int
  /\ Put(p, lock[p] - 1, expiry[p])
  /\ \/ /\ lock[p] > 1 /\ saved[r][p] # NoSaved
        /\ Goto(r, p, "release", "get") /\ UNCHANGED <<mine, saved>>
     \/ /\ lock[p] > 1 /\ saved[r][p] = NoSaved
        /\ MarkRelease(r, p) /\ Return(r) /\ UNCHANGED saved
     \/ /\ lock[p] = 1
        /\ MarkRelease(r, p) /\ Return(r) /\ Forget(r, p)
     \/ /\ lock[p] < 1 /\ Forget(r, p) /\ UNCHANGED mine
        /\ call' = [call EXCEPT ![r] = [op |-> "release", at |-> "reset",
                      path |-> p, seen |-> lock[p] - 1, elapsed |-> 0]]

DecrementNothing(r, p) ==
  /\ lock[p] \notin Int
  /\ Keep /\ MarkRelease(r, p) /\ Return(r) /\ Forget(r, p)

\* Reached at once when the request holds several, else after ReleaseLast.
Dec(r, p) ==
  /\ \/ InCall(r, "dec") /\ call[r].path = p
     \/ Ready(r) /\ own[r][p] > 1
  /\ Decrement(r, p) \/ DecrementNothing(r, p)
  /\ UNCHANGED <<now, ending, crashes>>

\* Fault: the counter stays below zero.
ResetNegative_Keeps(r) ==
  /\ InCall(r, "reset")
  /\ Keep /\ MarkRelease(r, call[r].path) /\ Return(r)
  /\ UNCHANGED <<now, saved, ending, crashes>>

\* More locks released than existed: cad(path, newValue).
ResetNegative(r) ==
  LET p == call[r].path IN
  /\ InCall(r, "reset")
  /\ IF lock[p] = call[r].seen THEN DropAny({p}) ELSE Keep
  /\ MarkRelease(r, p) /\ Return(r)
  /\ UNCHANGED <<now, saved, ending, crashes>>

\* releaseAll releases the shared locks before the exclusive ones.
ReleaseExclusive(r, p) ==
  /\ Ready(r) /\ p \in ownX[r]
  /\ r \in ending => \A x \in Path : own[r][x] = 0
  /\ \/ lock[p] = Exclusive /\ DropOwn(p)
     \/ lock[p] # Exclusive /\ Keep
  /\ ownX' = [ownX EXCEPT ![r] = @ \ {p}]
  /\ UNCHANGED <<now, own, saved, call, ending, crashes>>

-----------------------------------------------------------------------------
(* changeLock.                                                             *)

ChangeToShared(r, p) ==
  /\ Ready(r) /\ r \notin ending /\ p \in ownX[r] /\ own[r][p] < MaxShared
  /\ \/ lock[p] = Exclusive /\ Put(p, 1, NoTtl) /\ Goto(r, p, "down", "stamp")
     \/ lock[p] # Exclusive /\ Keep /\ UNCHANGED call
  /\ UNCHANGED <<now, mine, saved, ending, crashes>>

ChangeToExclusive_NoIsset(r, p) ==
  /\ Ready(r) /\ r \notin ending /\ own[r][p] > 0
  /\ IF lock[p] = 1
     THEN Put(p, Exclusive, NoTtl) /\ Forget(r, p) /\ Goto(r, p, "up", "stamp")
     ELSE Keep /\ UNCHANGED saved /\ Goto(r, p, "up", "get")
  /\ UNCHANGED <<now, mine, ending, crashes>>

ChangeToExclusive(r, p) ==
  /\ Ready(r) /\ r \notin ending /\ own[r][p] > 0
  /\ \/ /\ lock[p] = 1
        /\ Put(p, Exclusive, NoTtl) /\ Forget(r, p) /\ Goto(r, p, "up", "stamp")
     \/ /\ lock[p] # 1 /\ Keep /\ UNCHANGED saved
        /\ IF saved[r][p] # NoSaved THEN Goto(r, p, "up", "get")
           ELSE UNCHANGED call
  /\ UNCHANGED <<now, mine, ending, crashes>>

-----------------------------------------------------------------------------
(* restoreTTL, called by a release that leaves the key to others and by a  *)
(* failed change to exclusive.  Its caller ends right after it: a release  *)
(* marks, a change throws LockedException.                                 *)

Conclude(r) ==
  /\ IF call[r].op = "release" THEN MarkRelease(r, call[r].path) ELSE UNCHANGED mine
  /\ Return(r)

RestoreGet(r) ==
  LET p == call[r].path IN
  /\ InCall(r, "get")
  /\ call' = [call EXCEPT ![r].at = "ttl", ![r].seen = lock[p],
                          ![r].elapsed = now - saved[r][p].time]
  /\ UNCHANGED <<redis, now, mine, saved, ending, crashes, lapsed, stray>>

\* Only if the TTL is not longer than ours would be by now, lower it.
RestoreGetTtl(r) ==
  LET p == call[r].path
      expected == Ttl - call[r].elapsed + 1 IN
  /\ InCall(r, "ttl")
  /\ \/ /\ GetTtl(p) <= expected
        /\ call' = [call EXCEPT ![r].at = "set"] /\ UNCHANGED mine
     \/ GetTtl(p) > expected /\ Conclude(r)
  /\ UNCHANGED <<redis, now, saved, ending, crashes, lapsed, stray>>

Remaining(r) == saved[r][call[r].path].ttl - call[r].elapsed

\* EXPIRE; with a TTL that is not positive it deletes the key.
Expire(p, ttl) == IF ttl <= 0 THEN DropAny({p}) ELSE Put(p, lock[p], now + ttl)

\* setTTL without a value to compare with: get() saw no key, and null is also
\* what setTTL takes for "do not compare".  Redis::setTTL reads 0 as "default".
SetAnyTtl(p, ttl) ==
  IF lock[p] = NoKey THEN Keep
  ELSE Expire(p, IF ttl = 0 THEN DefaultTtl ELSE ttl)

\* compareSetTTL.
SetSameTtl(p, seen, ttl) == IF lock[p] = seen THEN Expire(p, ttl) ELSE Keep

RestoreSetTtl(r) ==
  LET p == call[r].path  seen == call[r].seen IN
  /\ InCall(r, "set")
  /\ \/ seen = NoKey /\ SetAnyTtl(p, Remaining(r))
     \/ seen # NoKey /\ SetSameTtl(p, seen, Remaining(r))
  /\ Conclude(r)
  /\ UNCHANGED <<now, saved, ending, crashes>>

-----------------------------------------------------------------------------
(* The request's end, a crash, and time.                                   *)

\* The shutdown function releaseAll starts; from here on r only releases.
BeginReleaseAll(r) ==
  /\ Ready(r) /\ r \notin ending
  /\ ending' = ending \cup {r}
  /\ UNCHANGED <<redis, now, mine, saved, call, crashes, lapsed, stray>>

Fresh(r) ==
  /\ own' = [own EXCEPT ![r] = [p \in Path |-> 0]]
  /\ ownX' = [ownX EXCEPT ![r] = {}]
  /\ saved' = [saved EXCEPT ![r] = [p \in Path |-> NoSaved]]
  /\ call' = [call EXCEPT ![r] = Idle]
  /\ ending' = ending \ {r}

\* Nothing left to release; the worker takes its next request.
FinishRequest(r) ==
  /\ Ready(r) /\ r \in ending
  /\ ownX[r] = {} /\ \A p \in Path : own[r][p] = 0
  /\ Fresh(r)
  /\ UNCHANGED <<redis, now, crashes, lapsed, stray>>

\* What r would still have to take back: a hold, or a counter below zero.
Leaves(r, p) == \/ Held(r, p) > 0 \/ HasX(r, p)
                \/ call[r].path = p /\ InCall(r, "reset")

\* The PHP process is killed: no shutdown function runs, its locks stay.
Crash(r) ==
  /\ crashes < MaxCrashes /\ crashes' = crashes + 1
  /\ stray' = stray \cup {p \in Path : Leaves(r, p)}
  /\ Fresh(r)
  /\ UNCHANGED <<redis, now, lapsed>>

Tick ==
  /\ now < MaxTime
  /\ now' = now + 1
  /\ DropAny({p \in Path : lock[p] # NoKey /\ expiry[p] # NoTtl /\ expiry[p] <= now + 1})
  /\ UNCHANGED <<mine, saved, call, ending, crashes>>

\* Nobody holds p and nobody is inside a call about it.
Quiet(p) == ~InUse(p) /\ \A r \in Request : call[r].path # p

\* The history forgets a loss when its last witness is done.
Recover(p) ==
  /\ p \in lapsed /\ Quiet(p) /\ lock[p] \in {NoKey, 0}
  /\ lapsed' = lapsed \ {p}
  /\ UNCHANGED <<redis, now, mine, saved, call, ending, crashes, stray>>

-----------------------------------------------------------------------------
Init ==
  /\ lock = [p \in Path |-> NoKey]
  /\ expiry = [p \in Path |-> NoTtl]
  /\ now = 0
  /\ own = [r \in Request |-> [p \in Path |-> 0]]
  /\ ownX = [r \in Request |-> {}]
  /\ saved = [r \in Request |-> [p \in Path |-> NoSaved]]
  /\ call = [r \in Request |-> Idle]
  /\ ending = {} /\ crashes = 0 /\ lapsed = {} /\ stray = {}

CallStep(r) ==
  \/ Stamp(r) \/ Inc(r) \/ CasExclusive(r) \/ ResetNegative(r)
  \/ RestoreGet(r) \/ RestoreGetTtl(r) \/ RestoreSetTtl(r)

ClientStep(r, p) ==
  \/ SaveOldTtl(r, p) \/ AddZero(r, p)
  \/ ReleaseLast(r, p) \/ Dec(r, p) \/ ReleaseExclusive(r, p)
  \/ ChangeToShared(r, p) \/ ChangeToExclusive(r, p)

Next ==
  \/ \E r \in Request : \/ CallStep(r)
                        \/ \E p \in Path : ClientStep(r, p)
                        \/ BeginReleaseAll(r) \/ FinishRequest(r) \/ Crash(r)
  \/ Tick
  \/ \E p \in Path : Recover(p)

Spec == Init /\ [][Next]_vars

-----------------------------------------------------------------------------
(* Properties.                                                             *)

\* The counter in Redis never promises less than the live requests hold, and
\* 'exclusive' stands for at most one of them, with every interleaving of the
\* commands of acquireLock, releaseLock and changeLock and with crashes.  It
\* speaks of every key but one that vanished under a live holder (lapsed: a
\* lease ended, or another request's restoreTTL or reset deleted it), and of
\* that key again once all who held it or were in a call about it are done.
CountCovers ==
  \A p \in Path \ lapsed :
    /\ lock[p] = NoKey => ~InUse(p)
    /\ lock[p] \in Int => Total(p) <= lock[p] /\ \A r \in Request : ~HasX(r, p)
    /\ lock[p] = Exclusive =>
         /\ \A r \in Request : Held(r, p) = 0
         /\ \A r, q \in Request : HasX(r, p) /\ HasX(q, p) => r = q

\* Unless the key vanished under one of them, a request that holds a path
\* exclusively is the only one that holds it, although acquireLock needs two
\* commands (add, cas) and changeLock takes over somebody's counter.
MutualExclusion ==
  \A p \in Path \ lapsed : \A r, q \in Request :
    r # q /\ HasX(r, p) => ~HasX(q, p) /\ Held(q, p) = 0

\* No release is lost and none is made twice: unless a holder crashed or the
\* key vanished under one, the key counts exactly the shared holds, and
\* 'exclusive' has its holder, so releasing everything always frees the path.
CounterExact ==
  \A p \in Path \ (lapsed \cup stray) :
    /\ Total(p) = IF lock[p] \in Int THEN lock[p] ELSE 0
    /\ lock[p] = Exclusive => \E r \in Request : HasX(r, p)

\* A key that vanished under its holders does not stay wrong: once nobody holds
\* the path and nobody is inside a call about it, the key is gone or 0, whatever
\* leases ended, counters fell below zero or deletions came late before that
\* ("if we somehow release more locks then exists, reset the lock").
FreeWhenReleased ==
  \A p \in Path \ stray : Quiet(p) => lock[p] \in {NoKey, 0}

\* A key that no crashed request left behind has a TTL, except while the
\* request that wrote it is on its way to setTTL: neither cas (whose SET drops
\* the TTL) nor inc on a new key leaves a lock that never expires.
KeyHasTtl ==
  \A p \in Path \ stray :
    lock[p] # NoKey /\ expiry[p] = NoTtl =>
      \E r \in Request : call[r].path = p /\ InCall(r, "stamp")

\* "Locks older than this are automatically cleaned up" (config.sample.php,
\* filelocking.ttl): the key of a crashed request has a TTL.
StrayLockExpires ==
  \A p \in stray : lock[p] # NoKey => expiry[p] # NoTtl

\* "*only* if nobody else got a shared lock after we did" (the comment on
\* restoreTTL): the TTL is not lowered while another request holds a shared
\* lock it acquired in a later second.
RestoreOnlyIfLast ==
  [][\A r \in Request :
       InCall(r, "set") /\ call'[r] = Idle /\ expiry' # expiry =>
         \A q \in Request \ {r} : Held(q, call[r].path) > 0 =>
           saved[q][call[r].path].time <= saved[r][call[r].path].time]_vars

\* "old value to compare to when setting ttl in case someone else changes the
\* lock in the middle of this function" (restoreTTL): setting the TTL takes no
\* key from a request that holds it.  Where get() saw no key nothing is
\* compared, and the key may be one that another request has taken since.
RestoreSparesOthers ==
  [][\A r \in Request : LET p == call[r].path IN
       InCall(r, "set") /\ call'[r] = Idle /\ lock[p] # call[r].seen =>
         \/ lock'[p] = lock[p]
         \/ \A q \in Request \ {r} : Held(q, p) = 0 /\ ~HasX(q, p)]_vars

\* The calls behave as the atomic operations of the abstract lock table.
Table == INSTANCE RWLock
  WITH readers <- [r \in Request |-> [p \in Path |-> Held(r, p)]],
       writers <- [r \in Request |-> {p \in Path : HasX(r, p)}]

ImplementsRWLock == Table!Spec
=============================================================================
