# A TLA+ model of the Nextcloud server and its settings SPA

This directory holds specifications of the concurrent parts of this repository
(the Nextcloud server, with the settings pages turned into a single-page
application), the TLC runs that check them on small instances, and theorems that
TLAPS proves for all instances. `README_SPA-Changes-To-Settings` in the root of
the repository describes the SPA and is quoted below as README_SPA.

The repository is large; what is here are the parts where several processes,
requests, servers or browser tasks meet in one place: two providers of file
locks and the view that takes them, the list of background jobs, the processing
of tasks, the handshake of federated servers, the settings store of the SPA with
the page that shows it, and the declarative forms. Section 1 is the inventory of
the system, section 2 the plan, sections 3 to 7 describe what is modelled, checked
and proved, section 8 lists the promises of comments, tests and documents which
the code does not keep, and section 9 what is left out.

## 1. Inventory

| component | state | operations | what is hard | what makes it correct |
|---|---|---|---|---|
| Memcache locks: `lib/private/Lock/MemcacheLockingProvider.php` over `Memcache/Redis.php` | a Redis key per path (a counter or `exclusive`) with a TTL; `acquiredLocks` and `oldTTLs` of each request | `acquireLock`, `releaseLock`, `changeLock`, `releaseAll`, `restoreTTL` | each call is up to five Redis commands; leases end; requests are killed | an exclusive lock is the only one; the counter agrees with the holders; every key gets a TTL |
| Database locks: `lib/private/Lock/DBLockingProvider.php` | a row of `file_locks` per path; `acquiredLocks` and `sharedLocks` of each request | the same, and `cleanExpiredLocks` from a background job | INSERT, then UPDATE; web requests keep shared locks and take them again without a statement | the same, with kept locks counted once |
| Path locks of a view: `lib/private/Files/View.php` | nothing of its own: locks on a path and its parents | `basicOperation`, streams, `rename`, `copy`, `lockFile`, `unlockFile`, `changeLock` | a path is locked before its parents, call by call; hooks veto, storages throw, locks are refused half way | who writes a path is alone in it and below it; an operation gives back what it took, also when it is refused or fails |
| Background jobs: `lib/private/BackgroundJob/JobList.php`, `core/Service/CronService.php`, `Job`, `TimedJob`, `QueuedJob`, occ | a row of `jobs` per job with `reserved_at`, `last_checked`, `last_run` | `add`, `scheduleAfter`, `remove`, `getNext`, `setLastJob`, the cron loops, `background-job:execute` | SELECT, then compare-and-set with a resolution of a second; rows freed by id; reservations that expire | one process per row; a queued job runs once; no row stays blocked or hidden; loops end |
| Task processing: `lib/private/TaskProcessing`, `core/Controller/TaskProcessingApiController.php` | a row per task with its status; one row for the job that processes tasks | `scheduleTask`, `runTask`, `getNextScheduledTask`, `lockTask`, `setTaskProgress`, `setTaskResult`, `cancelTask`, `deleteTask`, `SynchronousBackgroundJob` | read, then write the whole row; workers that vanish; a job row that is removed when the job starts | one worker per task; a final status stays; every task ends |
| Federation handshake: `apps/federation` | token, secret and status of the peer in `trusted_servers`; jobs of two classes | `addServer`, `removeServer`, `RequestSharedSecret`, `GetSharedSecret`, both endpoints | both servers start at times of their own; requests time out, arrive late or twice; answers are lost | both end with one secret, one of them fetches it, and they get there |
| Settings store: `apps/settings/src/store/settings-store.ts` and the views | cached content and navigation, loading flags, errors, subscriptions | `loadSectionContent`, `loadSections`, prefetch, clearing, `handleAppStateChange`, navigation | answers overtake each other and the clearing of the cache | no orphaned spinner, no leaked handler, nothing stale in the cache |
| The page and its legacy forms: `PersonalSettings.vue`, `AdminSettings.vue`, `LegacySettingsForm.vue` | loading and error of the mounted form; script tags of the document | mounting, the watcher of the HTML, `initialize`, `loadScripts` | an initialization per change of the HTML, none of which is cancelled; tags shared by sections | spinners end; the user comes to see a section or an error |
| Declarative forms: `DeclarativeSection.vue`, `DeclarativeManager.php` | the form's data, the cached response it came from, a debounce timer, requests in flight, the stored values | typing, choosing, Enter, password dialog, saving, leaving and coming back | one timer for all fields; cached objects changed in place; unawaited saves | the last value given is the value stored and shown |
| Snowflake ids: `lib/private/Snowflake` | a sequence per second, server and process | `nextId` | processes within a millisecond | ids are unique |
| Login flow v2, OAuth and app tokens, AppConfig cache, chunked uploads, trash bin and versions, file cache, sharing, DAV, user status | rows in the database, caches of a process | one request at a time, mostly | stale caches, two requests on one row | see PROJECT.json |

How they meet: every file operation of `Files/View.php` takes locks from one of
the two providers; `CleanupFileLocks`, a background job, calls the database
provider; cron runs the jobs, among them `SynchronousBackgroundJob` and both jobs
of the federation handshake; the page shows what the settings store holds, which is
also the response in which a declarative form finds its fields; app management
enables and disables apps and announces it to the store by an event. `PROJECT.json`
lists every component, also those that are not modelled, with the reason, and
the hazards with the line where they bite and the properties about them.

## 2. Plan

The order is: locks first (everything that touches a file depends on them), then
jobs, then the SPA, then what is built on those. Done:

1. `RWLock`, `Tally`, `MemcacheLocking`, `DBLocking`: the two providers
   implement one abstract lock table.
2. `TallyProofs`, `MemcacheLockingProofs`: types, counter, exclusion, exactness, TTLs and
   the refinement of `RWLock` proved; also of the paths whose key vanished under a holder,
   once they are quiet again.
3. `JobList`, `SettingsStore`, `DeclarativeForm`.
4. `SettingsProofs`: all safety invariants of the store proved.
5. `SettingsPage`: the page and its legacy forms, composed with the store.
6. `ViewLocks`: the locks of operations on files, composed with the abstract
   lock table that the providers implement.
7. `FederationHandshake` and `TaskProcessing`, both on top of the job list.
8. `TaskProcessingProofs`: types, one worker per task, final statuses.
9. `DBLockingProofs`: types, counter, exclusion, that nothing leaks, and refinement of the
   database provider, for web requests and command line processes.
10. `JobListProofs`: types, who answers for a row, and how often a job is run; then,
   where no call interferes, that what a process selected is what it reserves and that no
   job stays hidden.
11. `SettingsProofs`, continued: the page runs the store, types of the page; the
   declarative forms store and show what the user gave.
12. `ViewLocksProofs`: operations give back what they take unless a call fails outside of
   every try, who writes is alone, and each step of a view is one of the lock table.
13. `FederationHandshakeProofs`: one side fetches, and the secrets come to agree.

With these every safety property of every passing run is a theorem. What would come next, in this
order: `LoginFlow` and `Snowflake`; failing Redis commands and SQL statements as actions
of the lock modules; what still holds of a selected row after a call or a crash.

## 3. Modules

| module | models | extends or instantiates |
|---|---|---|
| `RWLock` | what both providers promise: a table of shared and exclusive holds that are leases | |
| `Tally` | the sum of shared holds over all requests, as the cardinality of a set of tokens | |
| `MemcacheLocking` | the memcache provider, command by command | `Tally`; refines `RWLock` |
| `DBLocking` | the database provider, statement by statement | `Tally`; refines `RWLock` |
| `ViewLocks` | the operations of a view, call by call of a provider | `RWLock`, as its table of locks |
| `JobList` | the job table and the processes that work on it, statement by statement | |
| `TaskProcessing` | tasks, the actors that process and cancel them, statement by statement | |
| `FederationHandshake` | two servers, their jobs, endpoints and the requests between them | |
| `SettingsStore` | the store and its views, each HTTP request split in sent, answered and delivered | |
| `SettingsPage` | what the page renders from the store, and the script loading of its legacy forms | `SettingsStore` |
| `DeclarativeForm` | the forms of one section, from the cached response to the server | |
| `MC...` | instances for TLC: who has which class, kind or form, symmetry, bounds | the module of the same name |
| `TallyProofs`, `MemcacheLockingProofs`, `DBLockingProofs`, `ViewLocksProofs`, `JobListProofs`, `TaskProcessingProofs`, `FederationHandshakeProofs` | theorems and proofs | the module of that name, TLAPS |
| `SettingsProofs` | theorems and proofs about the store, the page and the declarative forms | `SettingsPage`, `DeclarativeForm`, TLAPS |

`PROJECT.json` maps every definition that stands for code to its lines. A
definition `Name_Fault` that stands directly before `Name` is not part of the
specification: it is `Name` with a plausible bug, and the list of mutants says
which property finds that bug.

### MemcacheLocking

`lock` and `expiry` are the Redis keys. `own`, `ownX` and `saved` are
`acquiredLocks` and `oldTTLs`; PHP keeps them per request and shares nothing, so
they are indexed by request. `call` is where a request stands in a provider
call. The commands of a call are one action each: a shared lock is `SaveOldTtl`
(getTTL), `Inc` (inc) and `Stamp` (setTTL, then markAcquire); an exclusive one is
`AddZero` (add), `CasExclusive` (cas) and `Stamp`; a release is `ReleaseLast`
(cad of 1) or `Dec`, then `RestoreGet`, `RestoreGetTtl`, `RestoreSetTtl`, and
`ResetNegative` where the counter went below zero. The bookkeeping changes after
the last command, as in the code, so `Held` and `HasX` add what is due for a call
in between. `BeginReleaseAll` is the shutdown function, which releases with the
same actions; `Crash` is a killed worker; `Tick` is a second, with the keys that
expire in it.

`setTTL` compares with the value that was read before, but for null it does not compare:
where `RestoreGet` found no key, `RestoreSetTtl` sends an EXPIRE without a condition
(`SetAnyTtl`), which deletes the key when the saved TTL is spent, whoever has taken it since.
`lapsed` remembers the paths whose key vanished while a live request held it: its lease
ended, that EXPIRE hit it, or `ResetNegative` deleted a counter that others share. `DropAny`
is what these three have in common, and `RWLock` calls it a loss (`Lapse`). For such a path
only `FreeWhenReleased` and the TTL are promised; `Recover` takes it off the list when
nobody holds it and nobody is inside a call about it, and from then on all is promised
again.

### DBLocking

`row` and `ttl` are the columns. `Web` is the set of requests with
`cacheSharedLocks`; they keep a released shared lock (`cached`) until
`ReleaseCached`, the others subtract it at once. INSERT IGNORE and UPDATE of
`acquireLock` are `InsertShared`, `UpdateShared`, `InsertExclusive` and
`UpdateExclusive`; everything else is one statement and one action.
`CleanExpiredLocks` is the background job. `lapsed` are the paths whose row lost a lock that
somebody relies on. There are three ways to that:

- the row is cleaned while a holder is slower than the TTL;
- a web request takes a path exclusively of which it keeps a shared lock, as
  `files_versions/lib/Storage.php` does (a shared lock at line 370, an exclusive one at
  419): `UpdateExclusive` then asks that the row counts exactly the kept lock, the
  release frees the row, and the flag that it keeps a lock stays (`ReleaseExclusive`);
- a command line process gives back a shared lock it does not hold, as the finally block
  of `View::rename` does for a target that was refused: `markRelease` ignores it, the
  UPDATE does not, and takes a count from the row (`ReleaseShared`). It is a loss only
  when somebody has that count, not when a killed request left it.

`Recover` takes a path off that list when nobody relies on it any more. `NothingLeaks` is
promised of lapsed paths as well.

### ViewLocks

An operation is the sequence of provider calls that `basicOperation`, `rename`,
`copy`, `file_put_contents` and the callbacks of streams make (`Read`, `Write`, `Put`,
`Rename`, `Copy`; `Stored` is what the writing ones share), and every call
carries what the catch and finally blocks around it do when it fails
(`otherwise`): nothing for a call that no try block surrounds. `todo` is what is left of it.
The calls are actions: `Share`
(acquireLock or its refusal), `Raise` and `Lower` (changeLock), `Unshare` and
`Unlock` (releaseLock); `Proceed` and `Object` are the hooks, the storage and the updates of
the cache, which do their work or throw (a hook may also veto: `Ask` is a hook that throws
outside of any try, and then its answer), and `End` is the end of a request, also in the
middle of an operation, with `releaseAll`.
The locks are the variables of `RWLock`, and each call that succeeds is an action of it: the
module composes the view with what the providers are shown to implement, as long as no lock
is lost (`lapsed` is empty). What a
provider does beyond the abstract table is added: a release of a shared lock that the request
does not hold does nothing, and nobody asks whose exclusive lock is released. The former is
so in the memcache provider and in the database provider for web requests; for a
command line process over the database it is not, and what this module shows is not
shown of those. `cut` remembers that a call failed where no try block surrounds it:
`lockFile` at a parent, a hook that throws, `removeUpdate` or `writeUpdate`, or the
`changeLock` after them. All of these leave locks until the request ends.
A stream is like a write whose exclusive lock is lowered and then given back, where the code
gives it back at once when it is closed. An `\Error` passes by the `catch (\Exception)` blocks;
it is not modelled.

### JobList

`jobs` is the table, `proc[p]` what a process has selected and where it stands:
`Select`, `Drop` (a class that is gone), `CheckParallel` and `Bump` (exclusive
classes), `Postpone` (not due), `Reserve` (the compare-and-set), `Reset` (disabled
apps), then `Revisit`, `Skip`, `RunKept` or `RunQueued`, `Finish` or `Throw`, and
`SetLastJob`. `proc[p].seen` is the copy of the row that was selected; `TimedJob`
compares the clock with the `last_run` of that copy. `BeginAdd`, `Insert`,
`AddAgain` are the two statements of `add`; `Execute`, `Load`, `Executed` are
`occ background-job:execute`, and `ExecuteGone` is that command for a row whose class has
vanished, which `getById` removes. An hour, or six, is one tick: only the order of
the constants six and twelve hours, two days and the intervals matters.
`touched` remembers why a row was given away under its holder.

### TaskProcessing

`status` is the column of the table; `doing[a]` is the task that a worker, a PHP process or a
request of a user has and the statement it stands at. Every operation of the manager
reads the row and writes all of it back later, so it is two actions: `ReadProgress` and
`WriteProgress`, `ReadResult` and `WriteResult`, `ReadCancel` and `WriteCancel`; `Select`
and `LockTask` are the two of the endpoint for workers. The lock is the exception: one
UPDATE that compares, but with `running` only. The background job is `StartJob` (its row
is removed), `GetNext`, `SetRunning`, and `Recheck`, which lists the job again;
`unlisted` are tasks that are stored while `jobList->add` is still to come. `overtaken`
and `relocked` are history: a task ended while somebody had an older copy, or was locked
although it had ended.

### FederationHandshake

`row[s]` is what server s stores about the other, `jobs[s]` and `reserved[s]` are the
rows of both job classes in its job table, `work[k]` is the job that a cron process of
it runs: the HTTP request is sent (`Start`), handled by the other server (`Handle`), or
given up (`GiveUp`): then it is lost, arrives later (`HandleLate`), or was handled and
the answer is lost. `Apply` is the rest of `run`, `Remove` and `ReAdd` are the statements
after it. `InsertServer`, `StoreToken`, `ListRequest` are the statements of the
administrator's `addServer`. `Verdict` is the comparison of tokens of either endpoint.
Tokens are numbers in the order of strcmp; a secret is one that nobody knows yet. The job that
fetches the secret carries the second it was created in, so that one token can have two such
rows.
`blame` is history and names what the properties make an exception of.

### SettingsStore

What the server would send is a version number that grows with every app state
change. A request is `Send`, `Answer` (the server reads the version now) and one
of `LoadSucceeded`, `LoadFailed`, `PrefetchDone`, `SectionsDone` when the promise is settled;
the synchronous parts of the store's actions are atomic, as they are in a
browser. `overtaken` remembers the keys that had a request in flight when an app
state change was handled.

The handler of app state changes is registered by `SettingsNavigation` and only
while it is mounted; the event is emitted by `rebuildNavigation`, which runs on
the route of app management, where that component is not mounted. A page in
which both happen needs the event from somebody else (another app emits
`nextcloud:app-menu.refresh`). The model lets the event come at any time
(`AppEvents`), whether or not the handler is registered. No component uses the
composable `useSettings`, so the operations that only it offers are switched by
`Composable`.

### SettingsPage

The page takes every step of the store and renders in it: `Html` is what the template
shows, `Render` mounts, updates or unmounts the legacy form and starts an
initialization (`Begin`) at every mount and every change of the HTML. `loop` holds the
initializations that are under way, each a timeout of 0 ms (`Timeout`) and then one script
after another (`Loaded`, `ScriptFailed`); `tag` is what became of the script tags of the
document, which outlive every form. An unmounted form's initialization goes on
without effect on the page (`live`).

The view is `PersonalSettings.vue`. `AdminSettings.vue` has the same template but for an
`NcEmptyContent` that is not closed (lines 10 to 15), so that what follows is its content; and going
from one view to the other mounts the form anew where the model goes on with it.
`SettingsApiController` answers `scripts: []` for every section (lines 128 and 159); such a
section is one of the run's, and what the component does with scripts is what it does for
a server that sends some. No property is about scripts only.

### DeclarativeForm

`fields` is the set of fields of the section that is visited. `cache` is the
section's content in the settings store, `shown` the data of the mounted forms,
`timer` the pending debounced save: one for all fields of all forms, since
`debounce` wraps one method of the component's options. `Post` and `Saved` are a
save request and its arrival; requests are handled in any order. `dropped`,
`raced`, `failed` and `reported` are history: they name the ways in which a value can
get lost, so that `LastChoiceSaved` can say that there is no other.

## 4. Runs

Every run is listed in `PROJECT.json` with its properties; `x.cfg` belongs to run
`x`.

| run | instance | shows |
|---|---|---|
| `memcache_locking` | 2 requests, 1 path, nested shared locks, leases that end, 1 crash, 2 seconds | `CountCovers`, `MutualExclusion`, `CounterExact` while no key vanished under a holder; `KeyHasTtl` and, also behind such a loss, `FreeWhenReleased`; the provider implements `RWLock` |
| `db_locking` | 2 web requests and a command line process, 1 path, 1 crash, 2 seconds, the cleanup job, kept locks taken exclusively, releases of locks not held | `CountCovers`, `MutualExclusion` while the row lost nothing, `NothingLeaks` always, and `RWLock` is implemented |
| `view_locks` | 2 requests, a folder with a file and a folder with a file, 2 operations each | who writes a path is alone in it and below it (`Isolated`); operations give back what they took, unless a call failed outside of every try (in `TypeOK`) |
| `jobs_cron` | 2 cron processes, limited to a class or not; a timed and a queued job, or jobs of a disabled and a vanished app; 3 ticks | `SingleHolder`, `NoOrphan`, `SelectionHolds`, `HiddenUntilDue` |
| `jobs_calls` | 2 processes, 2 requests that call add, remove or execute (twice, or once and a crash); two queued jobs of an exclusive class with one argument and a timed job, of which one queued job is there at the start, or a row of a vanished class | `QueuedOnce`, `NoJobLost` also under calls |
| `jobs_live` | 1 cron or web cron process, started again for ever; timed jobs with interval 0, plain and queued ones, two of an exclusive class (with one process neither blocks the other), disabled and vanished ones | `CronEnds`, `EveryJobRuns` |
| `tasks` | 2 tasks of either kind, 2 workers, 2 PHP processes, 1 cancellation or deletion, 1 killed actor | `OneWorker`, `FinalStays`, `EveryTaskEnds` |
| `federation` | 2 servers, 3 cron processes, 1 request that is lost or late, 1 mishap (a day, a job that runs twice, a killed process, a removed server) | `SecretsAgree`, `OneFetches`, `EventuallyAgreed` |
| `settings_store` | 2 sections, 2 requests in flight, 2 app state changes, failures, all operations | `SpinnerHasRequest`, `HandlersMatch`, `StaleOnlyIfOvertaken`, `SectionsRefreshed` |
| `settings_page` | 2 sections, one without scripts and one with two, of which one may fail; 2 initializations, 1 app state change, fair | `SpinnerEnds`, `PageSettles` |
| `settings_stale_content` | 2 sections, no failures | violation, see section 8 |
| `declarative_form` | 4 sections: two texts in one form, a text and a password in two, fields that are saved at once; 2 requests in flight, failures, revisits | `LastChoiceSaved`, `RevisitShowsChoice` |

### Bounds, and why they are enough

- One path in the provider runs: a call touches only its own key or row, and the paths
  interact only in `releaseAll`, which releases them one by one. The theorems hold for
  any set of paths.
- Two requests, or three where kept locks and plain ones meet: each check is about
  a pair of holders, and a third only stands for what the counter says.
- `MaxShared` 2: a nested lock is the difference between the last and any release.
- `MaxTime` is two seconds with leases of one: a lease can end and be
  renewed. In `JobList` three ticks with an expiry of two: a job outlives its
  reservation.
- `Scope` of `MCMemcacheLocking` goes on behind a state in which no key has vanished under a
  holder and, after a crash, the last second has not come; behind a key that vanished only without a
  crash, before the last second and with one hold of each request. These restrictions are about
  combinations: each of crash, loss and nesting is explored.
- Two requests are enough for the EXPIRE that hits a key somebody else has taken: the one
  that released last takes the path again. That such a loss brings a third and a
  fourth request to an exclusive lock each is a matter of the lapsed path, of which only
  `FreeWhenReleased` and `KeyHasTtl` speak; the theorems are about any number of requests.
- One crash: a second one would be of the same kind, since nobody recovers. The
  other faults of `tasks` and `federation` are bounded by one each for the same reason.
- `view_locks`: four paths, so that an operation can be on a path, its parent, its
  grandparent and beside it. A request does two operations before it ends, since
  one that failed outside of every try leaves locks to the next; `Scope` looks at second ones only
  behind such a failure, of one request at a time, and while nobody is in the deepest path. Ended
  requests come back as new ones.
- `federation`: two tokens, one for each server. A server that is removed and added
  again, with a new token and jobs that still carry the old one, is not reached
  where both tokens are used up. `MaxSecond` 1: jobs are created in two different seconds.
- Two requests in flight in the store: an answer can be overtaken by another one. With a
  third the invariants are the same; the state space is not. With the page, failures
  of requests are left out and one app state change is enough to clear what is shown; two
  initializations are the least with which one can meet the tags of another.
- Two values of a field, and two requests: a newer and an older save that race.
- `CHECK_DEADLOCK FALSE` stands where everything may be over: in the lock runs, where
  time and crashes are bounded and requests end; in `federation` when both sides have
  the secret and in `tasks` when all tasks have ended. The other models always go on or are
  in a cycle of the user's doing.

## 5. Fairness

- `SettingsPage!PageFairness`: every request is answered or fails, its promise is settled,
  timeouts fire and script tags load or fail. axios rejects on a network error and browsers
  end requests; nothing is assumed of the user or of app state changes. Delivery is strongly
  fair only because the bound `Loop` can make a response wait that would start an
  initialization; in a browser nothing disables it.
- `JobList!FairSpec`: a process that began goes on. `FairCronSpec` adds that cron starts
  again and again, as an operator's crontab does. The clock may stand still: nothing is
  assumed of `Tick`. Liveness is checked for one process, because with two the loop of one
  need not end: within one second, another process that is restarted for ever can steal
  every row between SELECT and UPDATE, and getNext calls itself again. A clock that moves on
  ends that, as a row whose `last_checked` grows is selected later.
- `FederationHandshake!Fairness`: some job that can be started is started again and again,
  and some job that runs goes on, on one server or the other: less than what two crontabs
  give. All but `MaxLosses` requests are answered. Nothing is assumed of the administrators,
  of `Unblock` and of late requests.
- `TaskProcessing!Fairness`: a scheduling or cancelling request that read goes on to write;
  each worker keeps asking for tasks and reports, as a worker does by design, and each
  process runs the job when it is listed and goes on. No worker has to tell progress and
  nobody has to cancel.

## 6. Proofs

`TallyProofs` says what one more or one fewer hold does to the tally: the tally is
the cardinality of the set of pairs <<request, k>> with k up to the holds of the
request, so that no induction over the set of requests is needed. The lemmas rest on
`FiniteSetTheorems`.

`MemcacheLockingProofs` proves, for any finite set of requests, any set of paths, any
TTLs and any bounds (the assumptions are `ConstantsAssumption` of the module):

- `TypeCorrect`: `Spec => []TypeOK`.
- `CounterCovers`: `Spec => []CountCovers`.
- `Exclusion`: `Spec => []MutualExclusion`.
- `KeyExact`: `Spec => []CounterExact`.
- `LostKeyEnds`: `Spec => []FreeWhenReleased`.
- `TtlFollows`: `Spec => []KeyHasTtl`.
- `Implements`: `Spec => ImplementsRWLock`, the refinement of the abstract table.

`CountCovers`, `MutualExclusion` and `CounterExact` speak of the paths whose key did not vanish
under a live holder, by a lease that ended or by what another request did, and of the others
again when `Recover` takes them off the list. `FreeWhenReleased` speaks of all of them. The
inductive invariant is `Covering`, the conjunction of `TypeOK` and, per path, of `CountCovers`,
`CounterExact` and `Ends`. Exclusion alone is not inductive: whether cas may
set `exclusive` depends on the counter, so the counter must cover what is held;
whether dec may be sent depends on the bookkeeping of a call that is under way, so
`TypeOK` says where a call may stand (`CallConsistent`), and `Held` counts what is due.
Both halves of the agreement need the history variable `lapsed`: after a key vanished under a
holder the counter can be too low, and `exclusive` can be somebody else's. What holds of it
then is `Ends`: it counts no more than is held; `exclusive` is still somebody's; and a counter
below zero has somebody who will bring it up again or delete the key, because he holds a lock
that the counter does not count, or because he made it negative and no other request has
changed it since (`Pending`). `FreeWhenReleased` follows from `Ends`, and `Exclusion` from
`CountCovers`, without another induction.

Each action has a lemma `...Keeps`, which concludes that types and the counter are kept and
that the step is one of `RWLock` or a stutter (`Keeps`). They share one argument: an action
changes the key and the holds of one path (`Effect`), or nothing of them (`Same`), and
leaves everything else alone (`Frame`, `Confined`); `ConfinedKeeps` and `FrameKeeps`
derive the conclusion from that. The change of the holds of one request is a `Turn`, and
`TurnSimulates` names the action of `RWLock` that makes it. The lemmas `...Facts` state what
an operator such as `Put`, `Goto` or `MarkRelease` does to the holds, so that the long
definitions need not be expanded again. `Tick` is the one step that changes many paths, and
has an argument per path (`LapseSimulates`).

`KeyHasTtl` is inductive relative to the types: `Timed` says of each action that a key keeps
its TTL, or is gone, or is waited for by a call that stands before its setTTL
(`Stamping`), and a request that is killed there is remembered.

`DBLockingProofs` proves for any finite set of requests, whichever of them are web requests,
any paths, TTL and bounds:

- `TypeCorrect`: `Spec => []TypeOK`.
- `RowCovers`: `Spec => []CountCovers`.
- `Exclusion`: `Spec => []MutualExclusion`.
- `RowLeaksNothing`: `Spec => []NothingLeaks`.
- `Implements`: `Spec => ImplementsRWLock`.

The invariant is `Known /\ Covers`, and `Covers` is `CountCovers /\ NothingLeaks`. `Known`
adds to the types how the two books of a request agree (`Consistent`): a web request keeps
every shared lock it holds, the others keep none, and what `acquireLock` computed before its
INSERT is still so when its UPDATE comes. `CountCovers` speaks of the paths whose row lost
nothing, `NothingLeaks` of all that no killed request left a lock on. `CountCovers` allows the
holder of an exclusive row one kept shared lock: that is the lock it used up, and when the row is
freed under it the path is lapsed. What is shown per action is as above:
what it does to the row and to the holds on one path, and that everything else is untouched.
`ReleaseCached` and `CleanExpiredLocks` change many rows at once and have an argument of
their own per path. The refinement is a simulation as above: a statement is one step of the
table for its request and path, or a stutter.

`JobListProofs` proves for any finite set of processes, any finite set of ids, any clients,
classes and intervals:

- `TypeCorrect`: `Spec => []TypeOK`.
- `NoneOrphaned`: `Spec => []NoOrphan`.
- `NoneLost`: `Spec => []NoJobLost`.
- `OneHolder`: `Spec => []SingleHolder`.
- `RunOnce`: `Spec => []QueuedOnce`.

`Inv` is the conjunction of `Types`, of `Local` for each process and of three facts per row.
`Local` says what its place in the code tells about the row in a process' hand: what it has
selected was free for twelve hours, only a disabled or vanished class is reset, and a
command line call has put the row on record. `Owned` and `Kept` are `NoOrphan` and
`NoJobLost` with the process that answers for the row. `Sole` is the strengthening of the
other two: a row that nobody gave away (`Excused`) has one process that works on it, and as
long as that does the row is reserved or gone. This is why a compare-and-set on
`reserved_at` is enough, although it is sent after the SELECT: a row that was free when it
was selected and still looks so has no holder, and a row whose old reservation is taken over
has none or one that is put on record. For a queued job `Sole` also says that it was run at
most once and that its row is gone since: so a late `setLastJob`, which frees the row of
whoever has it by now, finds no row, and only expiry and calls are excuses in `QueuedOnce`.
Steps of a process touch the row in its hand only; `OwnRowKeeps` is what they share, and
`RowsKeep` the same for calls and the clock.

Two more hold where only cron processes run, nobody is killed and nobody calls `add` or
`execute` (`CronOnly`; `remove` may be called):

- `HiddenNoLonger`: `CronOnly => (Spec => []HiddenUntilDue)`.
- `SelectedIsCurrent`: `CronOnly => (Spec => SelectionHolds)`.

`getNext` compares `reserved_at` and `last_checked` of a row with what it selected, and
nothing else. That suffices because every write but the one that frees a row and the one
that starts a job sets `last_checked` to the present or later: a row that looks unchanged was
either selected in that very second or only freed or started since. The latter two need
somebody who held the row when it was selected, hence a reservation that had expired,
and taking that over puts the row on record. `Known` is this as an invariant: `Chosen` says how the
row may differ from the one in a process' hand, `Dated` and `Hidden` bound the two
timestamps; `Deed` says of each action what it does to a row and to the hand.
All of the hypothesis is needed for `SelectionHolds`, and TLC shows it when `jobs_cron` is given
more: `execute` sets `last_run` to zero and leaves `last_checked` alone; `add` of a listed job
does the same with a `last_checked` it read from the clock before; and when a process that
started a job was killed, nobody is on record for it.

`SettingsProofs` proves, for any set of sections, any finite set of request slots and
any number of app state changes:

- `TypeCorrect`: `Spec => []TypeOK`, with the fact that no data is newer than the server.
- `SpinnersAreBacked`: `Spec => []SpinnerHasRequest`, which is inductive relative to types.
- `NoHandlerLeaks`: `Spec => []HandlersMatch`. Its inductive form `Subscribed` ties the flag
  `registered` to the route as well: `unregisterEventListeners` only unsubscribes when
  the flag is set.
- `StaleWasOvertaken` and `NavigationRefreshes`: `StaleOnlyIfOvertaken` and
  `SectionsRefreshed`. Both fail as inductive invariants, since what an answer carries is
  stored without a look: `Fresh` adds `AnswersFresh`, that an answer in flight which was not
  overtaken is not older than the last handled change. `Calm` and `Flying` name what all
  steps but three have in common: they bring no answer, and they take no request away.

About the page, for any scripts, any number of initializations and any sections:

- `PageRunsStore`: `PageSpec => Spec`. Each step of the page is a step of the store or
  leaves it alone, so that all theorems about the store hold of the page.
- `PageTypeCorrect`: `PageSpec => []PageTypeOK`. `PageTypes` adds that a script tag that is
  loading is awaited by exactly one initialization.

About the declarative forms, for any fields, forms, kinds, values and number of saves in flight:

- `FormsTypeCorrect`: `FormsSpec => []FormsTypeOK`.
- `LastChoiceIsSaved`: `FormsSpec => []LastChoiceSaved`. The property only speaks of a page
  where nothing is under way; inductive is what is on its way (`Traced`): a field that did
  not race has one request in flight at most (`OnePost`); an open password dialog asks for
  the last value (`AskedFor`); and while neither timer nor dialog is about the field, the
  request in flight carries the last value, or there is none and the value is stored
  (`Settles`). `UpdateTraces` is the step that `Choose`, `Submit` and the timer share: a new
  save either races and is on record, or is the only one.
- `RevisitsShow`: `FormsSpec => []RevisitShowsChoice`. `Displays` relates what a form shows
  to the cached object it shares, and `BrokenHasReason` a form that threw to the structured
  field that made it.

`ViewLocksProofs` proves, for any requests and any tree of paths:

- `TypeCorrect`: `Spec => []TypeOK`, with it that an operation that is over has given back
  every lock, unless a call of its request failed outside of every try.
- `Isolation`: `Spec => []Isolated`.
- `UsesTheTable`: `Spec => Lock!Spec`. What a view does to the locks is a behaviour of `RWLock`,
  the specification that the providers implement, provided that the release of a shared lock the
  request does not hold does nothing (section 3). Nothing checks whose exclusive lock is freed;
  the theorem says that no operation comes to free one it does not have.

The invariant is about what is left of an operation. `Run(G, s, h, g)` says that the calls
`s`, one after another, turn the holds `h` into `g`, each call being one that `G` allows
with the holds it meets. `Good(op)` allows what may go wrong nowhere: a call that can fail
has a fallback that is itself such a run to no holds at all, with `Good1` and `Good0` for
the fallbacks and their fallbacks; a call that works has the locks it works under
(`Secured`). `Inv` says that types hold, that exclusive locks exclude, and that every
request holds what the run of its `todo` begins with, and locks beyond that only when
`cut`. A step goes on by one link, or onto the fallback. What is left to show is that the
operations are such runs (`ReadRuns`, `StoredRuns`, `RenameRuns`, `CopyRuns`; `BareRuns` and
`AskRuns` are about their parts outside of a try); runs are
joined by `RunJoin`. How many locks a list of parents takes on a path is a cardinality, so
that no recursion over the list is needed. `RenameRuns` needs the guard of `rename` that the
target is not below the source: otherwise the parents of the one would be locked exclusively
as the other.

`TaskProcessingProofs` proves for any set of tasks and any finite sets of workers, processes
and clients:

- `TypeCorrect`: `Spec => []TypeOK`.
- `OneWorkerOnly`: `Spec => []OneWorker`. The inductive invariant is `TypeOK /\ Locked /\
  Sole`: a task that a worker has locked is not `scheduled` any more (`Locked`), so that the
  lock of a second worker fails or counts as `relocked` (`Sole`).
- `FinalStaysSo`: `Spec => FinalStays`, an action property. `Fresh` says who has
  a copy of a task that has ended and was not overtaken: nobody but those that work
  on a cancelled one, and they read the row again before they write.

`FederationHandshakeProofs` proves for any number of cron processes on either server, any
finite sets of tokens and secrets large enough to draw a new one, and any number of losses,
late requests and mishaps:

- `TypeCorrect`: `Spec => []TypeOK`.
- `OneSideFetches`: `Spec => []OneFetches`. `Tokens` says that no two rows carry one token
  and that a row has none while one is about to be drawn; `Gets`, that a job which fetches
  the secret has a token no less than that of its server, unless a job outlived its row. Of
  two different tokens only one is the greater.
- `SecretsComeToAgree`: `Spec => []SecretsAgree`. `Agreement` follows a secret from where it
  is given to where it is stored: one secret at a time is under way, and it is the one its
  giver stores (`OneOk`, `OkFits`); no two processes run one job (`RunOnce`); and wherever
  the two secrets differ, a server knows that the exchange failed, or somebody is fetching
  with the token the other side accepts, or such a job is listed and nobody runs it
  (`Agree`). Each part names the mishaps in `blame` that it does not survive. Proving it
  showed that one of the exemptions of `SecretsAgree`, for a job that outlives its row, was
  not needed, and the property is stated without it.

Each action has a lemma `...Effect` that says what it does to rows, jobs and processes, and a lemma
`...Keeps` that derives the invariant from it.

## 7. What is only model-checked

Every safety property of a passing run is a theorem. Liveness under fairness stays with TLC:
`SpinnerEnds`, `PageSettles`, `CronEnds`, `EveryJobRuns`, `EventuallyAgreed` and
`EveryTaskEnds`, since what the fairness of an action gives rests on ENABLED, which is out
of the prover's reach, as is induction over data. The modules are written so that no safety
property needs such an induction, and none uses RECURSIVE.

`SelectionHolds` and `HiddenUntilDue` of the job list are proved under a hypothesis that
`jobs_cron` meets, `CronOnly`; section 6 says what goes wrong without it. All other assumptions are
about the constants (finite sets, intervals that are numbers) and are evaluated by TLC in
every run. What the properties make an exception of is listed in section 8.

## 8. Promises the code does not keep

One has a run and is listed as a finding: `settings_stale_content` /
`NothingStaleCached`, a response from before an app state change is cached after
the cache was cleared.

The others are definitions at the end of their modules. Put the definition as the only
INVARIANT or PROPERTY (those marked P) into the configuration named here and TLC shows the
behaviour.

| promise | where it is made | configuration | what happens |
|---|---|---|---|
| `RestoreOnlyIfLast` (P) | comment in `restoreTTL` | `memcache_locking` | the TTL is lowered, or the key deleted, under a reader that came up to a second later, as the comparison allows a second of rounding. This is one of the ways a path becomes `lapsed` |
| `RestoreSparesOthers` (P) | comment in `restoreTTL`: "old value to compare to when setting ttl in case someone else changes the lock in the middle of this function" | `memcache_locking` | two requests share a key; the one fails to delete it and decrements, then the other deletes it; the first reads no key, somebody takes the key again, and the EXPIRE of the first, with nothing to compare with and a spent TTL, deletes that lock. Nobody died and no lease ended: it happens with `MaxTime = 0` and `MaxCrashes = 0` too |
| `StrayLockExpires` | `config.sample.php`, filelocking.ttl: "Locks older than this are automatically cleaned up" | `memcache_locking` | a request killed between the command that takes the lock and setTTL leaves a key without TTL |
| `KeptLockIsInDb` | comment in `DBLockingProvider::isLocked`: "we always have at least 1 shared lock in the db" | `db_locking` | a request takes a path exclusively of which it keeps a shared lock (`files_versions/lib/Storage.php`, lines 370 and 419): its release sets the row free, the flag stays, and `releaseAll` later subtracts a lock that is somebody else's |
| `NothingLeft` | `View::lockFile` and the finally blocks around it | `view_locks` | what fails outside of every try leaves its locks until `releaseAll` at the end of the request: a hook that throws, before or after the operation; `removeUpdate` or `writeUpdate`, or the `changeLock` after them; a parent that `lockFile` is refused |
| `SkipsReserved` | `JobListTest.php:181` | `jobs_cron` | setLastJob frees by id, also the row another process has reserved since |
| `IntervalKept` (P) | `IJobList.php:24`: "a TimedJob will only run at a specific interval" | `jobs_cron` | a row that is selected in the second of its `last_checked` looks unchanged after it was run, and the job runs again |
| `ExclusiveClass` | `IParallelAwareJob.php:15` | `jobs_calls` | `hasReservedJob` and the reservation are two statements |
| `NoJobLost` with a crash | `QueuedJob.php:20`: "Run the job, then remove it" | drop `crashes = 0` from it, `jobs_calls` | the row is removed first, and a killed process takes the job |
| `CancelSticks` (P) | `Manager.php:1127`: "finished but was cancelled in the mean time. Moving on without storing result." | `tasks` | the result, or the progress, is written by somebody who read the task before it was cancelled |
| `RefusedWillInitiate` (P) | `OCSAuthAPIController.php:110`: "We will initiate the exchange of the shared secret" | `federation` with `SPECIFICATION Spec` | the server that says so has its token stored and its job not listed yet, or not any more |
| `NavigationPicksUp` | comment in `handleAppStateChange` | `settings_store` | a section response from before the change brings the old navigation back |
| `NeverBlank` | README_SPA:14 | `settings_store` | the visible section is cleared and not loaded again |
| `RetrySends` | README_SPA:125 | `settings_store` | two loads of a section overlap, the second fails over the content of the first, and Retry returns early |
| `EveryChoiceSaved` | README_SPA:154: "Declarative forms render and save" | `declarative_form` | typing into a second field within a second drops the save of the first |
| `FormsRender` | README_SPA:154 | `declarative_form` | the second visit decodes a decoded value, and beforeMount throws |
| `SavedIsShown` | README_SPA:151 | `declarative_form` | the second visit shows the value from before the user's change |
| `FailureReported` | "Failed to save setting" in `DeclarativeSection.vue:241` | `declarative_form` | the promise of axios.post is not awaited inside the try block |
| `MaskNotStored` | README_SPA:118 | `declarative_form` | Enter in an untouched sensitive field stores the mask |

`Isolated` rests on a guard: "if we are not holding the lock, don't try to release it"
(`MemcacheLockingProvider`), which `DBLockingProvider` has for web requests, where a release
only changes its own books. On the command line it subtracts without a look at them.
`DBLocking` models that (`ReleaseShared`), and calls the path lapsed that loses a lock by it;
in `ViewLocks` the definition `Unshare_Unguarded` does it, and with it `Isolated` fails: an
operation that gives back a lock it was refused takes one from somebody else.

Some properties make an exception of what the code lets happen and remember it in a history
variable. What they except is not covered by them:

| variable | module | what it excuses |
|---|---|---|
| `lapsed` | the lock modules | the locks of a path whose key or row was lost under a holder; all but `FreeWhenReleased`, `NothingLeaks` and `KeyHasTtl` are silent about it |
| `stray` | the lock modules | a lock or a kept count that a killed request left, until its key or row is gone |
| `cut` | `ViewLocks` | what an operation left that failed outside of every try |
| `overtaken` | `SettingsStore`, `TaskProcessing` | a response, or a copy of a task, from before a change |
| `relocked`, `crashes` | `TaskProcessing` | a task that a worker locked although it had ended; tasks that wait after a process was killed |
| `dropped`, `raced`, `failed` | `DeclarativeForm` | a save that the shared timer dropped, that was handled after a later one, or that the server refused |
| `touched`, `crashes` | `JobList` | a row that was given away under its holder, because its reservation had expired, a late `setLastJob` unlocked it or a call reset it; and a row that was removed before its process was killed |
| `blame`, `now` | `FederationHandshake` | a request handled beside its repetition (`overlap`), two processes on one job, a killed process, a job that outlives its row, and for `EventuallyAgreed` a row that is removed or an exchange that takes longer than `Lifespan` |

`HiddenUntilDue` holds for the intervals of these runs; with an interval longer than the
bound of the clock, `Execute` breaks it: `resetBackgroundJob` clears `last_run` and leaves
`last_checked` in the future, so that a reset job does not run "on the next trigger"
(`IJobList.php:153`). The theorem excludes such calls. Two more things were seen while reading and have no model:
`Snowflake\Generator::nextId` passes its arguments to the sequence in another order than
the sequence declares them, and the template of `AdminSettings.vue` has an
`NcEmptyContent` that is not closed (lines 10 to 15).

These hazards are real and have no property of a run:

- `MemcacheLockingProvider.php:94`: a RedisException between dec and markRelease leaves the
  hold in the books, and releaseAll releases it a second time.
- `DBLockingProvider.php:235`: releaseAll subtracts in chunks of a hundred paths; an
  exception in one chunk leaves the rest counted until their rows expire.
- `SettingsNavigation.vue:91`: the handler of app state changes is there only while the
  navigation is mounted (see SettingsStore in section 3).

## 9. Not modelled

- Redis and SQL errors, transactions around a lock, and a Redis that restarts.
- Mount points, nested operations of one request and paths that are not locked, in
  `View`; leases that end under an operation, which `RWLock` allows with `lapsed` and
  `ViewLocks` leaves empty.
- The cron option `background-job:worker` (the same calls in a loop without a set of
  executed jobs) and the column `time_sensitive` (it only orders what a cron mode asks for).
- Validation of the input and output of tasks, `getNextScheduledTaskBatch`, triggerable
  providers, webhooks and events.
- What uses the secret of the federation (`SyncFederationAddressBooks`, `FedAuth`), and the
  check of the remote version.
- `setInitialContent` (nothing calls it), the flag `initialized`, and HTTP 404 of the API;
  the sanitizing of legacy HTML and what its scripts do.
- Registration, validation and permissions of declarative settings; storage handlers
  of apps; a reload of the page.
- `LoginFlowV2` and `Snowflake`, which wait for their turn in the plan.
- Everything PROJECT.json lists as not_modelled: parts that handle one request at a time,
  or that are mostly I/O with other systems.
