------------------------------ MODULE JobList ------------------------------
(***************************************************************************)
(* lib/private/BackgroundJob/JobList.php and the loops that drive it       *)
(* (core/Service/CronService.php, occ background-job:execute): background  *)
(* jobs are rows of the table jobs, a cron process reserves one with a     *)
(* compare-and-set on what it has selected, runs it and frees it again.    *)
(*                                                                         *)
(* Every SQL statement is one step; what a process has selected is a copy  *)
(* that other processes, requests and the clock overtake.                  *)
(***************************************************************************)
EXTENDS Integers, FiniteSets

CONSTANTS
  Process,          \* processes that run jobs: cron, web cron, occ
  Client,           \* requests and apps that call add() and remove()
  Id,               \* ids of rows; none is used twice (IGenerator::nextId)
  NoId, NoRow,      \* no row selected; the table has no such row
  Class, ClassOf,   \* ClassOf[i]: the job class of row i
  Key, KeyOf,       \* KeyOf[i]: class and argument of row i, what has() compares
  Timed, Queued,    \* subclasses of TimedJob and of QueuedJob, others are plain
  Exclusive,        \* IParallelAwareJob classes with allowParallelRuns = false
  Off, Gone,        \* classes of disabled apps, and classes that do not exist
  Interval,         \* Interval[c]: getInterval() of a timed class, in ticks
  Listed,           \* sets of rows the table may hold at the start
  Filters,          \* the sets of classes a cron process may be limited to
  Modes,            \* which of "cron" and "web" start
  Calls,            \* which of "add", "remove" and "execute" are called
  SixHours, TwelveHours, TwoDays, FourteenMinutes,   \* in ticks
  Start,            \* the clock at the start, far from the 0 of a new row
  MaxTime,          \* bound: ticks the clock runs
  MaxCalls,         \* bound: calls of add, remove and execute
  MaxCrashes        \* bound: processes that are killed

ASSUME ConstantsAssumption ==
  /\ IsFiniteSet(Process) /\ IsFiniteSet(Id) /\ NoId \notin Id
  /\ NoRow \notin [reserved : Nat, checked : Int, lastRun : Int]
  /\ ClassOf \in [Id -> Class] /\ KeyOf \in [Id -> Key]
  /\ Timed \subseteq Class /\ Queued \subseteq Class /\ Exclusive \subseteq Class
  /\ Timed \cap Queued = {} /\ Listed \subseteq SUBSET Id /\ Filters \subseteq SUBSET Class
  /\ Modes \subseteq {"cron", "web"}
  /\ Interval \in [Timed -> Nat] /\ \A c \in Timed : Interval[c] < Start
  /\ {SixHours, TwelveHours, TwoDays, FourteenMinutes, Start} \subseteq Nat
  /\ SixHours < TwelveHours /\ TwelveHours < Start
  /\ MaxTime \in Nat /\ MaxCalls \in Nat /\ MaxCrashes \in Nat

VARIABLES
  jobs,      \* jobs[i]: columns reserved_at, last_checked and last_run, or NoRow
  born,      \* the ids that were ever inserted
  now,       \* the clock
  mode,      \* the app value backgroundjobs_mode
  proc,      \* proc[p]: the local state of process p
  client,    \* client[c]: the add() that has asked has() and not written yet
  calls,     \* how many calls were made
  crashes,   \* how many processes were killed
  runs,      \* history: how often row i was run, up to two
  settled,   \* history: rows that were run to the end, dropped or withdrawn
  touched    \* history: <<why, i>>: row i was given away under its holder

history == <<runs, settled, touched>>
vars == <<jobs, born, now, mode, proc, client, calls, crashes, runs, settled, touched>>

Row == [reserved : Nat, checked : Int, lastRun : Int]
Causes == {"expired", "called", "unlocked"}
States == {"idle", "select", "drop", "parallel", "bump", "reserve", "reset",
           "load", "take", "running", "done"}

Idle == [at |-> "idle", how |-> "none", id |-> NoId, seen |-> NoRow, when |-> 0, asks |-> {},
         visited |-> [c \in Exclusive |-> NoId], executed |-> {}, end |-> 0]
NoCall == [does |-> "none", key |-> {}, check |-> 0]

\* Every variable has its type; a process between its SELECT and the end of
\* the job has a row in hand; ids in the table were issued.
TypeOK ==
  /\ \A i \in Id : jobs[i] # NoRow => jobs[i] \in Row /\ i \in born
  /\ DOMAIN jobs = Id /\ born \subseteq Id
  /\ now \in Start..(Start + MaxTime) /\ mode \in {"ajax", "cron"}
  /\ \A p \in Process :
       /\ proc[p].at \in States /\ proc[p].how \in {"none", "cron", "web", "occ"}
       /\ proc[p].at = "idle" <=> proc[p] = Idle
       /\ proc[p].when \in 0..now /\ proc[p].executed \subseteq Id /\ proc[p].asks \subseteq Class
       /\ proc[p].visited \in [Exclusive -> Id \cup {NoId}]
       /\ proc[p].at \notin {"idle", "select"} => proc[p].id \in Id
       /\ proc[p].at \notin {"idle", "select", "load"} => proc[p].seen \in Row
       /\ proc[p].at = "parallel" => ClassOf[proc[p].id] \in Exclusive
  /\ \A c \in Client : client[c].does \in {"none", "insert", "update"}
  /\ calls \in 0..MaxCalls /\ crashes \in 0..MaxCrashes
  /\ runs \in [Id -> 0..2] /\ settled \subseteq born
  /\ touched \subseteq Causes \X Id

-----------------------------------------------------------------------------
(* Statements.  An UPDATE or DELETE of a row that is gone changes nothing.  *)

Update(i, row) == jobs' = IF jobs[i] = NoRow THEN jobs ELSE [jobs EXCEPT ![i] = row]
Free(i)        == Update(i, [jobs[i] EXCEPT !.reserved = 0])
Delete(S)      == jobs' = [i \in Id |-> IF i \in S THEN NoRow ELSE jobs[i]]
Table(S)       == {i \in S : jobs[i] # NoRow}

Go(p, where) == proc' = [proc EXCEPT ![p].at = where]
Leave(p)     == proc' = [proc EXCEPT ![p] = Idle]

Job(p)      == proc[p].id
JobClass(p) == ClassOf[proc[p].id]

\* A process that has reserved row i, or was handed it by occ, and not finished.
Holds(p, i) == proc[p].at \in {"take", "running"} /\ proc[p].id = i
Held(S)     == {i \in S : \E p \in Process : Holds(p, i)}
Others(p)   == {i \in {Job(p)} : \E q \in Process \ {p} : Holds(q, i)}
Unfreed(p)  == {i \in {Job(p)} : \E q \in Process \ {p} :
                  proc[q].at \in {"take", "running", "done"} /\ proc[q].id = i}
Blame(why, S) == touched' = touched \cup ({why} \X S)

Outside == UNCHANGED <<born, now, mode, client, calls, crashes>>

-----------------------------------------------------------------------------
(* getNext.                                                                 *)

Selectable(i) == /\ jobs[i].reserved <= now - TwelveHours
                 /\ jobs[i].checked <= now

\* Fault: every class is asked whether another job of it is reserved.
AfterSelect_AnyClass(c) == IF c \in Gone THEN "drop" ELSE "parallel"

\* What buildJob and the checks that follow it do with a row of this class.
AfterSelect(c) == IF c \in Gone THEN "drop"
                  ELSE IF c \in Exclusive /\ c \notin Off THEN "parallel" ELSE "reserve"

\* Fault: the order of last_checked is dropped.
Select_AnyOrder(p) ==
  LET free == {i \in Table(Id) : ClassOf[i] \in proc[p].asks /\ Selectable(i)} IN
  /\ proc[p].at = "select"
  /\ \/ free = {} /\ Leave(p)
     \/ \E i \in free : proc' = [proc EXCEPT ![p] =
          [@ EXCEPT !.at = AfterSelect(ClassOf[i]), !.id = i, !.seen = jobs[i],
                                                   !.when = now]]
  /\ UNCHANGED jobs /\ Outside /\ UNCHANGED history

\* Fault: rows in use are not left out.
Select_Reserved(p) ==
  LET free == {i \in Table(Id) : ClassOf[i] \in proc[p].asks /\ jobs[i].checked <= now} IN
  /\ proc[p].at = "select"
  /\ \/ free = {} /\ Leave(p)
     \/ \E i \in free : proc' = [proc EXCEPT ![p] =
          [@ EXCEPT !.at = AfterSelect(ClassOf[i]), !.id = i, !.seen = jobs[i],
                                                   !.when = now]]
  /\ UNCHANGED jobs /\ Outside /\ UNCHANGED history

\* SELECT the free row that was checked longest ago; none ends the cron run.
Select(p) ==
  LET free == {i \in Table(Id) : ClassOf[i] \in proc[p].asks /\ Selectable(i)} IN
  /\ proc[p].at = "select"
  /\ \/ free = {} /\ Leave(p)
     \/ \E i \in free :
          /\ \A j \in free : jobs[i].checked <= jobs[j].checked
          /\ proc' = [proc EXCEPT ![p] = [@ EXCEPT !.at = AfterSelect(ClassOf[i]),
                                                   !.id = i, !.seen = jobs[i],
                                                   !.when = now]]
  /\ UNCHANGED jobs /\ Outside /\ UNCHANGED history

\* buildJob removes a row whose class does not exist.
Drop(p) ==
  /\ proc[p].at = "drop"
  /\ Delete({Job(p)}) /\ settled' = settled \cup {Job(p)}
  /\ Go(p, "reserve") /\ Outside /\ UNCHANGED <<runs, touched>>

Blocked(c) == \E i \in Table(Id) : ClassOf[i] = c /\ jobs[i].reserved > now - SixHours

\* hasReservedJob of the class of the selected row.
CheckParallel(p) ==
  LET c == JobClass(p)  first == proc[p].visited[c] IN
  /\ proc[p].at = "parallel"
  /\ \/ /\ ~Blocked(c)
        /\ proc' = [proc EXCEPT ![p].at = "reserve", ![p].visited[c] = NoId]
     \/ Blocked(c) /\ first = Job(p) /\ Leave(p)
     \/ /\ Blocked(c) /\ first # Job(p)
        /\ proc' = [proc EXCEPT ![p].at = "bump",
                      ![p].visited[c] = IF first = NoId THEN Job(p) ELSE first]
  /\ UNCHANGED jobs /\ Outside /\ UNCHANGED history

Bump(p) ==
  /\ proc[p].at = "bump"
  /\ Update(Job(p), [jobs[Job(p)] EXCEPT !.checked = now + 1])
  /\ Go(p, "select") /\ Outside /\ UNCHANGED history

NotDue(p) == /\ JobClass(p) \in Timed \ (Off \cup Gone)
             /\ now < proc[p].seen.lastRun + Interval[JobClass(p)]

\* Fault: the cap of two days is the time of the next check.
Postpone_AlwaysTwoDays(p) ==
  /\ proc[p].at = "reserve" /\ NotDue(p)
  /\ Update(Job(p), [jobs[Job(p)] EXCEPT !.checked = now + TwoDays])
  /\ Go(p, "select") /\ Outside /\ UNCHANGED history

\* A timed job that is not due is put off to when it is, at most two days.
Postpone(p) ==
  LET next == proc[p].seen.lastRun + Interval[JobClass(p)] IN
  /\ proc[p].at = "reserve" /\ NotDue(p)
  /\ Update(Job(p), [jobs[Job(p)] EXCEPT
       !.checked = IF next < now + TwoDays THEN next ELSE now + TwoDays])
  /\ Go(p, "select") /\ Outside /\ UNCHANGED history

Unchanged(p) == /\ jobs[Job(p)] # NoRow
                /\ jobs[Job(p)].reserved = proc[p].seen.reserved
                /\ jobs[Job(p)].checked = proc[p].seen.checked

\* Fault: the UPDATE compares the id only.
Reserve_Unguarded(p) ==
  LET i == Job(p) IN
  /\ proc[p].at = "reserve" /\ ~NotDue(p)
  /\ \/ /\ jobs[i] # NoRow
        /\ Update(i, [jobs[i] EXCEPT !.reserved = now, !.checked = now])
        /\ Go(p, IF JobClass(p) \in Off \cup Gone THEN "reset" ELSE "take")
     \/ jobs[i] = NoRow /\ UNCHANGED jobs /\ Go(p, "select")
  /\ Blame("expired", {}) /\ Outside /\ UNCHANGED <<runs, settled>>

\* UPDATE reserved_at where the row is as it was selected; else select again.
Reserve(p) ==
  LET i == Job(p) IN
  /\ proc[p].at = "reserve" /\ ~NotDue(p)
  /\ \/ /\ Unchanged(p)
        /\ Update(i, [jobs[i] EXCEPT !.reserved = now, !.checked = now])
        /\ Go(p, IF JobClass(p) \in Off \cup Gone THEN "reset" ELSE "take")
        /\ Blame("expired", IF jobs[i].reserved \in 1..(now - TwelveHours) THEN Unfreed(p) ELSE {})
     \/ ~Unchanged(p) /\ UNCHANGED <<jobs, touched>> /\ Go(p, "select")
  /\ Outside /\ UNCHANGED <<runs, settled>>

\* Fault: the row of a disabled app is put off but stays reserved.
Reset_StaysReserved(p) ==
  LET i == Job(p) IN
  /\ proc[p].at = "reset"
  /\ Update(i, [jobs[i] EXCEPT !.checked = now + TwelveHours])
  /\ Go(p, "select") /\ Outside /\ UNCHANGED history

\* The job of a disabled app is not looked at for twelve hours.
Reset(p) ==
  LET i == Job(p) IN
  /\ proc[p].at = "reset"
  /\ Update(i, [jobs[i] EXCEPT !.reserved = 0, !.checked = now + TwelveHours])
  /\ Go(p, "select") /\ Outside /\ UNCHANGED history

-----------------------------------------------------------------------------
(* CronService and Job::start.                                              *)

StartCron(p) ==
  /\ proc[p] = Idle
  /\ \E how \in Modes, S \in Filters :
       /\ how = "web" => mode = "ajax" /\ S = Class
       /\ mode' = IF how = "cron" THEN "cron" ELSE mode
       /\ proc' = [proc EXCEPT ![p] = [@ EXCEPT !.at = "select", !.how = how,
                     !.asks = S, !.end = now + FourteenMinutes]]
  /\ UNCHANGED <<jobs, born, now, client, calls, crashes>> /\ UNCHANGED history

\* The loop is handed a job it has run: free it and end.
Revisit(p) ==
  /\ proc[p].at = "take" /\ proc[p].how = "cron" /\ Job(p) \in proc[p].executed
  /\ Free(Job(p)) /\ Leave(p) /\ Outside /\ UNCHANGED history

\* Fault: the loop runs what it is handed.
New_Always(p) == proc[p].at = "take"

New(p) == proc[p].at = "take" /\ ~(proc[p].how = "cron" /\ Job(p) \in proc[p].executed)

Elapsed(p) == now - proc[p].seen.lastRun > Interval[JobClass(p)]

\* TimedJob::start does nothing when the interval is not over.
Skip(p) ==
  /\ New(p) /\ JobClass(p) \in Timed /\ ~Elapsed(p)
  /\ Go(p, "done") /\ UNCHANGED jobs /\ Outside /\ UNCHANGED history

Count(i) == runs' = [runs EXCEPT ![i] = IF @ = 2 THEN 2 ELSE @ + 1]

\* TimedJob::start and Job::start: last_run is now, then the job runs.
RunKept(p) ==
  LET i == Job(p) IN
  /\ New(p) /\ JobClass(p) \notin Queued /\ (JobClass(p) \in Timed => Elapsed(p))
  /\ Update(i, [jobs[i] EXCEPT !.lastRun = now])
  /\ Go(p, "running") /\ Count(i) /\ Outside /\ UNCHANGED <<settled, touched>>

\* Fault: the job is removed by class and argument instead of by its id.
RunQueued_RemovesAlike(p) ==
  LET i == Job(p) IN
  /\ New(p) /\ JobClass(p) \in Queued
  /\ Delete({j \in Id : KeyOf[j] = KeyOf[i]})
  /\ Go(p, "running") /\ Count(i) /\ Outside /\ UNCHANGED <<settled, touched>>

\* Fault: the job is run as any other and not removed.
RunQueued_Keeps(p) ==
  LET i == Job(p) IN
  /\ New(p) /\ JobClass(p) \in Queued
  /\ Update(i, [jobs[i] EXCEPT !.lastRun = now])
  /\ Go(p, "running") /\ Count(i) /\ Outside /\ UNCHANGED <<settled, touched>>

\* QueuedJob::start: the row goes first, then the job runs.
RunQueued(p) ==
  /\ New(p) /\ JobClass(p) \in Queued
  /\ Delete({Job(p)})
  /\ Go(p, "running") /\ Count(Job(p)) /\ Outside /\ UNCHANGED <<settled, touched>>

\* run() returns: setExecutionTime frees the row.
Finish(p) ==
  /\ proc[p].at = "running"
  /\ Free(Job(p)) /\ Go(p, "done") /\ settled' = settled \cup {Job(p)}
  /\ Blame("unlocked", Others(p))
  /\ Outside /\ UNCHANGED runs

\* run() throws: the exception is logged and the row stays reserved.
Throw(p) ==
  /\ proc[p].at = "running"
  /\ Go(p, "done") /\ settled' = settled \cup {Job(p)}
  /\ UNCHANGED jobs /\ Outside /\ UNCHANGED <<runs, touched>>

\* setLastJob frees the row, whoever has it by now; cron asks for the next one.
SetLastJob(p) ==
  /\ proc[p].at = "done" /\ proc[p].how # "occ"
  /\ Free(Job(p)) /\ Blame("unlocked", Others(p))
  /\ IF proc[p].how = "cron" /\ now <= proc[p].end
     THEN proc' = [proc EXCEPT ![p].at = "select", ![p].executed = @ \cup {Job(p)}]
     ELSE Leave(p)
  /\ Outside /\ UNCHANGED <<runs, settled>>

-----------------------------------------------------------------------------
(* occ background-job:execute runs a row without reserving it.              *)

Called(what) == /\ what \in Calls /\ calls < MaxCalls
                /\ calls' = calls + 1
Quiet == UNCHANGED <<born, now, mode, crashes>>

\* getById has built the job: the row is there and its class can be used.
Execute(p, i) ==
  /\ Called("execute") /\ proc[p] = Idle
  /\ jobs[i] # NoRow /\ ClassOf[i] \notin Off \cup Gone
  /\ \/ UNCHANGED jobs
     \/ Update(i, [jobs[i] EXCEPT !.lastRun = 0, !.reserved = 0])  \* --force-execute
  /\ proc' = [proc EXCEPT ![p] = [@ EXCEPT !.at = "load", !.how = "occ", !.id = i]]
  /\ Blame("called", {i}) /\ Quiet /\ UNCHANGED <<client, runs, settled>>

Load(p) ==
  /\ proc[p].at = "load"
  /\ \/ /\ jobs[Job(p)] # NoRow
        /\ proc' = [proc EXCEPT ![p].at = "take", ![p].seen = jobs[Job(p)]]
     \/ jobs[Job(p)] = NoRow /\ Leave(p)
  /\ UNCHANGED jobs /\ Outside /\ UNCHANGED history

Executed(p) ==
  /\ proc[p].at = "done" /\ proc[p].how = "occ"
  /\ Leave(p) /\ UNCHANGED jobs /\ Outside /\ UNCHANGED history

-----------------------------------------------------------------------------
(* add, scheduleAfter and remove.                                           *)

\* has() decides between INSERT and UPDATE; the job is to run now or later.
BeginAdd(c, k) ==
  /\ Called("add") /\ client[c] = NoCall
  /\ \E i \in Id \ born : KeyOf[i] = k
  /\ \E t \in {now, now + 1} :
       client' = [client EXCEPT ![c] = [key |-> {i \in Id : KeyOf[i] = k}, check |-> t,
         does |-> IF \E i \in Table(Id) : KeyOf[i] = k THEN "update" ELSE "insert"]]
  /\ UNCHANGED <<jobs, proc>> /\ Quiet /\ UNCHANGED history

Insert(c) ==
  /\ client[c].does = "insert"
  /\ \E i \in client[c].key \ born :
       /\ jobs' = [jobs EXCEPT ![i] = [reserved |-> 0, checked |-> client[c].check, lastRun |-> 0]]
       /\ born' = born \cup {i}
  /\ client' = [client EXCEPT ![c] = NoCall]
  /\ UNCHANGED <<now, mode, proc, calls, crashes>> /\ UNCHANGED history

\* The row is as good as new, whether or not a process is running it.
AddAgain(c) ==
  LET S == client[c].key IN
  /\ client[c].does = "update"
  /\ jobs' = [i \in Id |-> IF i \in Table(S)
                THEN [reserved |-> 0, checked |-> client[c].check, lastRun |-> 0] ELSE jobs[i]]
  /\ Blame("called", Held(S))
  /\ client' = [client EXCEPT ![c] = NoCall]
  /\ UNCHANGED <<born, now, mode, proc, calls, crashes, runs, settled>>

Withdraw(S) ==
  /\ Table(S) # {}
  /\ Delete(S) /\ settled' = settled \cup Table(S)
  /\ UNCHANGED <<proc, client, runs, touched>> /\ Quiet

\* remove(class, argument), remove(class) and removeById(id).
Remove(S) == Called("remove") /\ Withdraw(S)

\* occ's getById removes the row of a class that does not exist, and ends.
ExecuteGone(i) == Called("execute") /\ ClassOf[i] \in Gone /\ Withdraw({i})

-----------------------------------------------------------------------------
Crash(p) ==
  /\ proc[p] # Idle /\ crashes < MaxCrashes
  /\ crashes' = crashes + 1 /\ Leave(p)
  /\ UNCHANGED <<jobs, born, now, mode, client, calls>> /\ UNCHANGED history

Tick ==
  /\ now < Start + MaxTime /\ now' = now + 1
  /\ UNCHANGED <<jobs, born, mode, proc, client, calls, crashes>> /\ UNCHANGED history

Init ==
  /\ born \in Listed
  /\ jobs = [i \in Id |-> IF i \in born THEN [reserved |-> 0, checked |-> 0, lastRun |-> 0]
                          ELSE NoRow]
  /\ now = Start /\ mode = "ajax"
  /\ proc = [p \in Process |-> Idle] /\ client = [c \in Client |-> NoCall]
  /\ calls = 0 /\ crashes = 0
  /\ runs = [i \in Id |-> 0] /\ settled = {} /\ touched = {}

GetNext(p) == \/ Select(p) \/ Drop(p) \/ CheckParallel(p) \/ Bump(p)
              \/ Postpone(p) \/ Reserve(p) \/ Reset(p)
RunJob(p)  == \/ Revisit(p) \/ Skip(p) \/ RunKept(p) \/ RunQueued(p)
              \/ Finish(p) \/ Throw(p) \/ SetLastJob(p) \/ Load(p) \/ Executed(p)
Work(p)    == GetNext(p) \/ RunJob(p)

Next ==
  \/ \E p \in Process : Work(p) \/ StartCron(p) \/ Crash(p)
  \/ \E p \in Process, i \in Id : Execute(p, i)
  \/ \E c \in Client : Insert(c) \/ AddAgain(c)
  \/ \E c \in Client, k \in Key : BeginAdd(c, k)
  \/ \E k \in Key : Remove({i \in Id : KeyOf[i] = k})
  \/ \E k \in Class : Remove({i \in Id : ClassOf[i] = k})
  \/ \E i \in Id : Remove({i}) \/ ExecuteGone(i)
  \/ Tick

Spec == Init /\ [][Next]_vars

\* A process that has begun goes on; no cron process has to be started, and
\* the clock may stand.
FairSpec == Spec /\ \A p \in Process : WF_vars(Work(p))

\* The clock moves no job; a cron process is started again and again.
FairCronSpec == FairSpec /\ \A p \in Process : WF_vars(StartCron(p))

-----------------------------------------------------------------------------
(* Properties.                                                              *)

Why(causes, i) == \E why \in causes : <<why, i>> \in touched
Two(i) == \E p, q \in Process : p # q /\ Holds(p, i) /\ Holds(q, i)

\* Two processes work on one row only if its reservation was twelve hours old,
\* a call reset it, or the late setLastJob of an earlier run freed it.
SingleHolder == \A i \in Id : Two(i) => Why(Causes, i)

\* Claim of testGetNextSkipReserved: getNext does not hand out a row another
\* process has reserved, unless the reservation is old or a call took it away.
SkipsReserved == \A i \in Id : Two(i) => Why({"expired", "called"}, i)

\* IJobList: "a QueuedJob will only run once", whatever two cron processes do
\* with what they selected, as long as no call or expiry takes it from them.
QueuedOnce == \A i \in Id :
  ClassOf[i] \in Queued /\ runs[i] > 1 => Why({"expired", "called"}, i)

\* The compare-and-set of Reserve succeeds on a row another process has run
\* since it was selected only if it was selected in the very second of its
\* last_checked, or its reservation expired or was freed by a late setLastJob,
\* as long as nobody is killed and no call resets last_run of the row.
SelectionHolds == [][\A p \in Process :
  proc[p].at = "reserve" /\ proc'[p].at = "take" =>
    \/ jobs[Job(p)].lastRun = proc[p].seen.lastRun
    \/ proc[p].when = proc[p].seen.checked
    \/ Why({"expired", "unlocked"}, Job(p))']_vars

\* IJobList: "a TimedJob will only run at a specific interval", also when the
\* process that starts it selected the row before another one ran it.
IntervalKept == [][\A p \in Process :
  LET i == Job(p) IN
    /\ proc[p].at = "take" /\ proc'[p].at = "running"
    /\ JobClass(p) \in Timed /\ jobs[i] # NoRow /\ ~Why(Causes, i)
    => now - jobs[i].lastRun > Interval[JobClass(p)]]_vars

\* A timed row is hidden from getNext (last_checked in the future) no longer
\* than until its job is due, though Postpone and Bump write it unguarded.
HiddenUntilDue == \A i \in Table(Id) :
  ClassOf[i] \in Timed \ (Off \cup Gone) =>
    \/ jobs[i].checked <= now + 1
    \/ jobs[i].checked <= jobs[i].lastRun + Interval[ClassOf[i]]

\* While nobody is killed, a reserved row has a process that will free it:
\* none stays blocked for twelve hours, not even after an exception.
NoOrphan == \A i \in Table(Id) :
  jobs[i].reserved # 0 /\ crashes = 0 =>
    \E p \in Process : proc[p].id = i /\ proc[p].at \in {"take", "running", "done", "reset"}

\* QueuedJob: "Run the job, then remove it from the joblist": a row leaves the
\* table only when its job has run, is being run, or was withdrawn.  (The row
\* goes first, contrary to the comment, so a killed process takes the job.)
NoJobLost == \A i \in born :
  jobs[i] = NoRow /\ crashes = 0 => i \in settled \/ \E p \in Process : Holds(p, i)

\* IParallelAwareJob: "to prevent two Jobs from the same class from running in
\* parallel".
ExclusiveClass == \A p, q \in Process :
  p # q /\ proc[p].at = "running" /\ proc[q].at = "running" /\ JobClass(p) \in Exclusive
    => JobClass(p) # JobClass(q)

\* The loop of a cron process ends although jobs that may run again at once
\* stay in the table: no row is selected for ever.
CronEnds == \A p \in Process : proc[p].at # "idle" ~> proc[p].at = "idle"

\* Every listed job of an existing, enabled class is run at last while cron is
\* started again and again, next to jobs that are always free to run.
EveryJobRuns == \A i \in Id :
  ClassOf[i] \notin Off \cup Gone /\ i \in born ~> runs[i] > 0 \/ i \in settled

=============================================================================
