--------------------------- MODULE TaskProcessing ---------------------------
(***************************************************************************)
(* lib/private/TaskProcessing: the status of tasks that users schedule and  *)
(* cancel and that providers work on.  A task of a synchronous provider is  *)
(* processed by the background job SynchronousBackgroundJob, or in the      *)
(* request that runs it; the others are fetched by workers over HTTP.       *)
(*                                                                         *)
(* Every operation of the Manager but the lock reads the task in one        *)
(* statement and writes the whole row in another.                           *)
(***************************************************************************)
EXTENDS Integers, FiniteSets

CONSTANTS
  Task, NoTask,
  Worker,        \* external providers, which fetch tasks over HTTP
  Process,       \* PHP processes that process tasks: cron, or a request
  Client,        \* requests of users
  MaxCalls,      \* bound: cancellations and deletions
  MaxCrashes     \* bound: killed processes and workers that vanish

Actor == Worker \cup Process \cup Client

ASSUME ConstantsAssumption ==
  /\ NoTask \notin Task /\ IsFiniteSet(Actor)
  /\ Worker \cap Process = {} /\ Client \cap (Worker \cup Process) = {}
  /\ MaxCalls \in Nat /\ MaxCrashes \in Nat

VARIABLES
  status,        \* status[t]: the column of the row, or that there is none
  sync,          \* the tasks whose provider is synchronous
  unlisted,      \* tasks that are stored, with jobList->add still to come
  listed,        \* SynchronousBackgroundJob is in the job list
  doing,         \* doing[a]: the task an actor has and the statement it is at
  calls, crashes,\* how many there were
  overtaken,     \* history: tasks that ended while somebody had an older copy
  relocked       \* history: tasks that were locked although not scheduled

vars == <<status, sync, unlisted, listed, doing, calls, crashes, overtaken, relocked>>

Final == {"successful", "failed", "cancelled"}
Status == {"none", "scheduled", "running", "deleted"} \cup Final

Idle == [at |-> "idle", task |-> NoTask, job |-> FALSE, told |-> FALSE, outcome |-> "none"]
Doing == [at : {"idle", "start", "picked", "work", "progress", "report", "cancel", "recheck"},
          task : Task \cup {NoTask}, job : BOOLEAN, told : BOOLEAN,
          outcome : {"none", "successful", "failed"}]

\* Every variable has its type, an actor that has a task knows it from a row,
\* workers have the tasks of asynchronous providers and processes the others.
TypeOK ==
  /\ status \in [Task -> Status] /\ sync \in SUBSET Task
  /\ unlisted \subseteq sync /\ listed \in BOOLEAN
  /\ doing \in [Actor -> Doing]
  /\ \A a \in Actor : LET d == doing[a] IN
       /\ d.at \in {"idle", "start", "recheck"} <=> d.task = NoTask
       /\ d.task # NoTask => status[d.task] # "none"
       /\ a \in Worker => d.task \notin sync
       /\ a \in Process /\ d.task # NoTask => d.task \in sync
       /\ d.at = "report" => d.outcome # "none"
  /\ calls \in 0..MaxCalls /\ crashes \in 0..MaxCrashes
  /\ overtaken \subseteq Task /\ relocked \subseteq Task

Go(a, d) == doing' = [doing EXCEPT ![a] = d]
Exists(t) == status[t] \notin {"none", "deleted"}

\* UPDATE of the whole row, which a deleted task does not have any more.
Update(t, s) == status' = IF Exists(t) THEN [status EXCEPT ![t] = s] ELSE status

\* Who will still write to a task that gets its final status: those between a
\* read and the write, and, unless it is cancelled, those that work on it.
Copies(t, s) == {b \in Actor : doing[b].task = t /\
  doing[b].at \in {"picked", "progress", "report", "cancel"} \cup IF s = "cancelled" THEN {} ELSE {"work"}}

End(a, t, s) ==
  /\ Update(t, s)
  /\ overtaken' = IF Copies(t, s) \ {a} # {} THEN overtaken \cup {t} ELSE overtaken

-----------------------------------------------------------------------------
(* Manager::scheduleTask and runTask.                                       *)

ScheduleTask(t) ==
  /\ status[t] = "none"
  /\ status' = [status EXCEPT ![t] = "scheduled"]
  /\ unlisted' = IF t \in sync THEN unlisted \cup {t} ELSE unlisted
  /\ UNCHANGED <<sync, listed, doing, calls, crashes, overtaken, relocked>>

\* jobList->add(SynchronousBackgroundJob::class, null): one row.
ListJob(t) ==
  /\ t \in unlisted /\ unlisted' = unlisted \ {t}
  /\ listed' = TRUE
  /\ UNCHANGED <<status, sync, doing, calls, crashes, overtaken, relocked>>

\* The row says scheduled, and other processes can see it.
RunTask(p, t) ==
  /\ status[t] = "none" /\ t \in sync /\ doing[p] = Idle
  /\ status' = [status EXCEPT ![t] = "scheduled"]
  /\ Go(p, [Idle EXCEPT !.at = "picked", !.task = t])
  /\ UNCHANGED <<sync, unlisted, listed, calls, crashes, overtaken, relocked>>

-----------------------------------------------------------------------------
(* TaskProcessingApiController::getNextScheduledTask.  A task whose lock     *)
(* failed is running or gone and is not selected again.                      *)

\* Fault: the query does not ask for the types of the worker.
Select_AnyType(w) ==
  /\ doing[w] = Idle
  /\ \E t \in Task : /\ status[t] = "scheduled"
                     /\ Go(w, [Idle EXCEPT !.at = "picked", !.task = t])
  /\ UNCHANGED <<status, sync, unlisted, listed, calls, crashes, overtaken, relocked>>

Select(w) ==
  /\ doing[w] = Idle
  /\ \E t \in Task \ sync : /\ status[t] = "scheduled"
                            /\ Go(w, [Idle EXCEPT !.at = "picked", !.task = t])
  /\ UNCHANGED <<status, sync, unlisted, listed, calls, crashes, overtaken, relocked>>

\* Fault: the UPDATE does not compare the status.
LockTask_Always(w) ==
  LET t == doing[w].task IN
  /\ doing[w].at = "picked"
  /\ Update(t, "running") /\ Go(w, IF Exists(t) THEN [doing[w] EXCEPT !.at = "work"] ELSE Idle)
  /\ relocked' = IF Exists(t) /\ status[t] \notin {"scheduled", "running"}
                 THEN relocked \cup {t} ELSE relocked
  /\ UNCHANGED <<sync, unlisted, listed, calls, crashes, overtaken>>

\* UPDATE ... SET status = running WHERE id = ... AND status <> running.
LockTask(w) ==
  LET t == doing[w].task  free == Exists(t) /\ status[t] # "running" IN
  /\ doing[w].at = "picked"
  /\ \/ /\ free /\ Update(t, "running")
        /\ Go(w, [doing[w] EXCEPT !.at = "work"])
     \/ /\ ~free /\ Go(w, Idle) /\ UNCHANGED status
  /\ relocked' = IF free /\ status[t] # "scheduled" THEN relocked \cup {t} ELSE relocked
  /\ UNCHANGED <<sync, unlisted, listed, calls, crashes, overtaken>>

-----------------------------------------------------------------------------
(* SynchronousBackgroundJob.                                                *)

\* The row of the job is removed before the job runs.
StartJob(p) ==
  /\ listed /\ doing[p] = Idle
  /\ listed' = FALSE
  /\ Go(p, [Idle EXCEPT !.at = "start", !.job = TRUE])
  /\ UNCHANGED <<status, sync, unlisted, calls, crashes, overtaken, relocked>>

Waiting == {t \in sync : status[t] = "scheduled"}

GetNext(p) ==
  /\ doing[p].at = "start"
  /\ \/ Waiting = {} /\ Go(p, [doing[p] EXCEPT !.at = "recheck"])
     \/ \E t \in Waiting : Go(p, [doing[p] EXCEPT !.at = "picked", !.task = t])
  /\ UNCHANGED <<status, sync, unlisted, listed, calls, crashes, overtaken, relocked>>

\* processTask: setTaskStatus writes the row that was read by getNextScheduledTask.
SetRunning(p) ==
  /\ doing[p].at = "picked"
  /\ Update(doing[p].task, "running")
  /\ Go(p, [doing[p] EXCEPT !.at = "work"])
  /\ UNCHANGED <<sync, unlisted, listed, calls, crashes, overtaken, relocked>>

\* What comes after a task: the worker asks for the next one, the job goes on.
Done(a) == IF doing[a].job THEN [Idle EXCEPT !.at = "recheck", !.job = TRUE] ELSE Idle

\* "Schedule again", when processTask failed, although the task has a result.
Again(a, outcome) == listed' = (listed \/ (doing[a].job /\ outcome = "failed"))

\* Fault: the job looks for tasks that are left before it has worked on one.
Recheck_Once(p) ==
  /\ doing[p].at = "recheck" /\ UNCHANGED listed
  /\ Go(p, Idle)
  /\ UNCHANGED <<status, sync, unlisted, calls, crashes, overtaken, relocked>>

Recheck(p) ==
  /\ doing[p].at = "recheck"
  /\ listed' = (listed \/ Waiting # {})
  /\ Go(p, Idle)
  /\ UNCHANGED <<status, sync, unlisted, calls, crashes, overtaken, relocked>>

-----------------------------------------------------------------------------
(* Manager::setTaskProgress, setTaskResult and cancelTask.                  *)

\* getTask of a task that is gone throws: a process goes on to report, which
\* throws as well, and a worker is told 404.
ReadProgress(a) ==
  LET t == doing[a].task IN
  /\ doing[a].at = "work" /\ ~doing[a].told
  /\ Exists(t) /\ status[t] # "cancelled"
  /\ Go(a, [doing[a] EXCEPT !.at = "progress"])
  /\ UNCHANGED <<status, sync, unlisted, listed, calls, crashes, overtaken, relocked>>

WriteProgress(a) ==
  /\ doing[a].at = "progress"
  /\ Update(doing[a].task, "running")
  /\ Go(a, [doing[a] EXCEPT !.at = "work", !.told = TRUE])
  /\ UNCHANGED <<sync, unlisted, listed, calls, crashes, overtaken, relocked>>

\* Fault: the result of a cancelled task is stored.
ReadResult_Stores(a, outcome) ==
  LET t == doing[a].task IN
  /\ \/ doing[a].at = "work"
     \/ (doing[a].at = "picked" /\ a \in Process /\ outcome = "failed")
  /\ \/ /\ ~Exists(t)
        /\ Go(a, Done(a)) /\ UNCHANGED listed
     \/ /\ Exists(t)
        /\ Go(a, [doing[a] EXCEPT !.at = "report", !.outcome = outcome]) /\ UNCHANGED listed
  /\ UNCHANGED <<status, sync, unlisted, calls, crashes, overtaken, relocked>>

\* From "picked": the input of the task cannot be prepared.
ReadResult(a, outcome) ==
  LET t == doing[a].task IN
  /\ \/ doing[a].at = "work"
     \/ (doing[a].at = "picked" /\ a \in Process /\ outcome = "failed")
  /\ \/ /\ ~Exists(t)
        /\ Go(a, Done(a)) /\ UNCHANGED listed
     \/ /\ status[t] = "cancelled"
        /\ Go(a, Done(a)) /\ Again(a, outcome)
     \/ /\ Exists(t) /\ status[t] # "cancelled"
        /\ Go(a, [doing[a] EXCEPT !.at = "report", !.outcome = outcome]) /\ UNCHANGED listed
  /\ UNCHANGED <<status, sync, unlisted, calls, crashes, overtaken, relocked>>

WriteResult(a) ==
  LET d == doing[a] IN
  /\ d.at = "report"
  /\ End(a, d.task, d.outcome)
  /\ Again(a, d.outcome) /\ Go(a, Done(a))
  /\ UNCHANGED <<sync, unlisted, calls, crashes, relocked>>

ReadCancel(c, t) ==
  /\ doing[c] = Idle /\ calls < MaxCalls /\ calls' = calls + 1
  /\ status[t] \in {"scheduled", "running"}
  /\ Go(c, [Idle EXCEPT !.at = "cancel", !.task = t])
  /\ UNCHANGED <<status, sync, unlisted, listed, crashes, overtaken, relocked>>

WriteCancel(c) ==
  /\ doing[c].at = "cancel"
  /\ End(c, doing[c].task, "cancelled")
  /\ Go(c, Idle)
  /\ UNCHANGED <<sync, unlisted, listed, calls, crashes, relocked>>

\* deleteTask, or the cleanup of old tasks.
DeleteTask(t) ==
  /\ Exists(t) /\ calls < MaxCalls /\ calls' = calls + 1
  /\ status' = [status EXCEPT ![t] = "deleted"]
  /\ UNCHANGED <<sync, unlisted, listed, doing, crashes, overtaken, relocked>>

Crash(a) ==
  /\ doing[a] # Idle /\ crashes < MaxCrashes /\ crashes' = crashes + 1
  /\ Go(a, Idle)
  /\ UNCHANGED <<status, sync, unlisted, listed, calls, overtaken, relocked>>

-----------------------------------------------------------------------------
Init ==
  /\ status = [t \in Task |-> "none"] /\ sync \in SUBSET Task
  /\ unlisted = {} /\ listed = FALSE
  /\ doing = [a \in Actor |-> Idle]
  /\ calls = 0 /\ crashes = 0 /\ overtaken = {} /\ relocked = {}

Report(a) == (\E o \in {"successful", "failed"} : ReadResult(a, o)) \/ WriteResult(a)
Fetch(w)  == Select(w) \/ LockTask(w)
Job(p)    == StartJob(p) \/ GetNext(p) \/ SetRunning(p) \/ Recheck(p)
Inform(a) == ReadProgress(a) \/ WriteProgress(a)

Next ==
  \/ \E t \in Task : \/ ScheduleTask(t) \/ ListJob(t) \/ DeleteTask(t)
                     \/ \E p \in Process : RunTask(p, t)
                     \/ \E c \in Client : ReadCancel(c, t)
  \/ \E w \in Worker : Fetch(w) \/ Inform(w) \/ Report(w) \/ Crash(w)
  \/ \E p \in Process : Job(p) \/ Inform(p) \/ Report(p) \/ Crash(p)
  \/ \E c \in Client : WriteCancel(c)

Spec == Init /\ [][Next]_vars

\* Workers keep asking for tasks and cron comes back; a request that has begun
\* is finished, and work on a task comes to an end.
Fairness ==
  /\ WF_vars(\E t \in Task : ListJob(t)) /\ WF_vars(\E c \in Client : WriteCancel(c))
  /\ \A w \in Worker : WF_vars(Fetch(w) \/ WriteProgress(w) \/ Report(w))
  /\ \A p \in Process : WF_vars(Job(p) \/ WriteProgress(p) \/ Report(p))
FairSpec == Spec /\ Fairness

-----------------------------------------------------------------------------
(* Properties.                                                              *)

\* A task that has ended keeps its status until it is deleted, unless somebody
\* had an older copy of it when it ended: in particular the result of a
\* cancelled task is not stored ("Moving on without storing result").
FinalStays == [][\A t \in Task :
  status[t] \in Final /\ t \notin overtaken => status'[t] \in {status[t], "deleted"}]_vars

Holders(t) == {w \in Worker : doing[w].task = t /\ doing[w].at \in {"work", "progress", "report"}}

\* Two workers never have one task, although each selects and locks in two
\* statements, unless it was locked a second time after it had ended.
OneWorker == \A t \in Task : Cardinality(Holders(t)) <= 1 \/ t \in relocked

\* Every task that was scheduled gets a result or is cancelled, whoever is
\* late, unless its worker or the job that should process it is killed.
EveryTaskEnds == \A t \in Task :
  status[t] \in {"scheduled", "running"} ~>
    status[t] \in Final \cup {"deleted"} \/ crashes > 0

-----------------------------------------------------------------------------
(* A promise that the code does not keep.                                   *)

\* "finished but was cancelled in the mean time. Moving on without storing
\* result": a cancelled task stays cancelled.
CancelSticks == [][\A t \in Task :
  status[t] = "cancelled" => status'[t] \in {"cancelled", "deleted"}]_vars
=============================================================================
