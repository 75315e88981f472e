------------------------ MODULE TaskProcessingProofs ------------------------
(***************************************************************************)
(* Proofs about TaskProcessing for any number of tasks, workers, processes, *)
(* cancellations and crashes.                                               *)
(***************************************************************************)
EXTENDS TaskProcessing, FiniteSetTheorems, TLAPS

\* What a step can be, one name for the actor and one for what it does.
ActorStep(a) ==
  \/ a \in Worker /\ (Select(a) \/ LockTask(a))
  \/ a \in Process /\ (StartJob(a) \/ GetNext(a) \/ SetRunning(a) \/ Recheck(a))
  \/ a \in Process /\ \E t \in Task : RunTask(a, t)
  \/ a \in Worker \cup Process /\ (ReadProgress(a) \/ WriteProgress(a))
  \/ a \in Worker \cup Process /\ \E o \in {"successful", "failed"} : ReadResult(a, o)
  \/ a \in Worker \cup Process /\ (WriteResult(a) \/ Crash(a))
  \/ a \in Client /\ WriteCancel(a)
  \/ a \in Client /\ \E t \in Task : ReadCancel(a, t)

OtherStep == \E t \in Task : ScheduleTask(t) \/ ListJob(t) \/ DeleteTask(t)

LEMMA Steps ==
  ASSUME Next PROVE OtherStep \/ \E a \in Actor : ActorStep(a)
  BY DEF Next, OtherStep, ActorStep, Actor, Fetch, Job, Inform, Report

-----------------------------------------------------------------------------
(* Types.                                                                   *)

\* What TypeOK says of one actor.
Knows(a, d, st) ==
  /\ d \in Doing
  /\ d.at \in {"idle", "start", "recheck"} <=> d.task = NoTask
  /\ d.task # NoTask => st[d.task] # "none"
  /\ a \in Worker => d.task \notin sync
  /\ a \in Process /\ d.task # NoTask => d.task \in sync
  /\ d.at = "report" => d.outcome # "none"

LEMMA TypeIs ==
  TypeOK <=>
    /\ status \in [Task -> Status] /\ sync \in SUBSET Task
    /\ unlisted \subseteq sync /\ listed \in BOOLEAN
    /\ doing \in [Actor -> Doing] /\ \A a \in Actor : Knows(a, doing[a], status)
    /\ calls \in 0..MaxCalls /\ crashes \in 0..MaxCrashes
    /\ overtaken \subseteq Task /\ relocked \subseteq Task
  BY DEF TypeOK, Knows

\* A task that an actor has is a task.
LEMMA HasTask ==
  ASSUME TypeOK, NEW a \in Actor, doing[a].at \notin {"idle", "start", "recheck"}
  PROVE  /\ doing[a] \in Doing
         /\ doing[a].task \in Task
         /\ status[doing[a].task] # "none"
  BY DEF TypeOK, Doing

\* What a status becomes: of the task of one actor, and never none again.
LEMMA Updated ==
  ASSUME TypeOK, NEW t \in Task, NEW s \in Status \ {"none"}, Update(t, s)
  PROVE  /\ status' \in [Task -> Status]
         /\ \A u \in Task : status[u] # "none" => status'[u] # "none"
         /\ \A u \in Task : u # t => status'[u] = status[u]
         /\ status'[t] = IF Exists(t) THEN s ELSE status[t]
  BY DEF TypeOK, Update, Exists

\* The frame: one actor moves, and no task is as new as before it was stored.
LEMMA MoveTypes ==
  ASSUME TypeOK, NEW a \in Actor, NEW d, Go(a, d), Knows(a, d, status'),
         status' \in [Task -> Status],
         \A u \in Task : status[u] # "none" => status'[u] # "none",
         sync' = sync, unlisted' = unlisted, listed' \in BOOLEAN,
         calls' \in 0..MaxCalls, crashes' \in 0..MaxCrashes,
         overtaken' \subseteq Task, relocked' \subseteq Task
  PROVE  TypeOK'
<1>1. /\ doing' \in [Actor -> Doing]
      /\ doing'[a] = d
      /\ \A b \in Actor : b # a => doing'[b] = doing[b]
  BY DEF TypeOK, Go, Knows
<1>2. ASSUME NEW b \in Actor PROVE Knows(b, doing'[b], status')
  <2>1. CASE b = a BY <2>1, <1>1
  <2>2. CASE b # a
    <3>1. doing'[b] = doing[b] BY <1>1, <2>2
    <3>2. Knows(b, doing[b], status) BY TypeIs
    <3>3. doing[b].task # NoTask => doing[b].task \in Task BY <3>2 DEF Knows, Doing
    <3> QED BY <3>1, <3>2, <3>3 DEF Knows
  <2> QED BY <2>1, <2>2
<1> QED BY <1>1, <1>2, TypeIs DEF TypeOK, Knows

LEMMA OtherTypes ==
  ASSUME TypeOK, OtherStep PROVE TypeOK'
<1>1. PICK t \in Task : ScheduleTask(t) \/ ListJob(t) \/ DeleteTask(t) BY DEF OtherStep
<1>2. ASSUME doing' = doing, sync' = sync, status' \in [Task -> Status],
             \A u \in Task : status[u] # "none" => status'[u] # "none"
      PROVE \A a \in Actor : Knows(a, doing'[a], status')
  <2> TAKE a \in Actor
  <2>1. Knows(a, doing[a], status) BY TypeIs
  <2> QED BY <1>2, <2>1 DEF Knows, Doing
<1>3. CASE ScheduleTask(t)
  <2>1. /\ status' \in [Task -> Status]
        /\ \A u \in Task : status[u] # "none" => status'[u] # "none"
    BY <1>3 DEF ScheduleTask, TypeOK, Status
  <2> QED BY <1>2, <1>3, <2>1, TypeIs DEF ScheduleTask, TypeOK
<1>4. CASE ListJob(t)
  <2>1. \A u \in Task : status[u] # "none" => status'[u] # "none" BY <1>4 DEF ListJob
  <2> QED BY <1>2, <1>4, <2>1, TypeIs DEF ListJob, TypeOK
<1>5. CASE DeleteTask(t)
  <2>1. /\ status' \in [Task -> Status]
        /\ \A u \in Task : status[u] # "none" => status'[u] # "none"
    BY <1>5 DEF DeleteTask, TypeOK, Status
  <2>2. calls' \in 0..MaxCalls BY <1>5, ConstantsAssumption DEF DeleteTask, TypeOK
  <2> QED BY <1>2, <1>5, <2>1, <2>2, TypeIs DEF DeleteTask, TypeOK
<1> QED BY <1>1, <1>3, <1>4, <1>5

\* Steps of an actor that leave the statuses alone.
LEMMA QuietTypes ==
  ASSUME TypeOK, NEW a \in Actor, NEW d, Go(a, d), Knows(a, d, status),
         UNCHANGED <<status, sync, unlisted, overtaken, relocked>>, listed' \in BOOLEAN,
         calls' \in 0..MaxCalls, crashes' \in 0..MaxCrashes
  PROVE  TypeOK'
<1>1. Knows(a, d, status') BY DEF Knows
<1> QED BY <1>1, MoveTypes DEF TypeOK

LEMMA ActorTypes ==
  ASSUME TypeOK, NEW a \in Actor, ActorStep(a) PROVE TypeOK'
<1>0. /\ Knows(a, doing[a], status)
      /\ doing[a] \in Doing
      /\ listed \in BOOLEAN /\ calls \in 0..MaxCalls /\ crashes \in 0..MaxCrashes
  BY TypeIs
<1>i. /\ Knows(a, Idle, status)
      /\ Knows(a, Done(a), status)
      /\ Knows(a, [Idle EXCEPT !.at = "start", !.job = TRUE], status)
  BY <1>0, TypeIs, ConstantsAssumption DEF Knows, Idle, Doing, Done
<1>p. ASSUME NEW t \in Task, status[t] # "none", a \in Worker => t \notin sync,
             a \in Process => t \in sync, NEW at \in {"picked", "cancel"}
      PROVE Knows(a, [Idle EXCEPT !.at = at, !.task = t], status)
  BY <1>p, ConstantsAssumption DEF Knows, Idle, Doing
<1>1. CASE a \in Worker /\ Select(a)
  BY <1>0, <1>1, <1>p, QuietTypes, ConstantsAssumption DEF Select, Actor
<1>3. CASE a \in Process /\ StartJob(a)
  BY <1>0, <1>3, <1>i, QuietTypes DEF StartJob
<1>q. ASSUME doing[a].at = "start"
      PROVE /\ Knows(a, [doing[a] EXCEPT !.at = "recheck"], status)
            /\ \A t \in Waiting : a \in Process => Knows(a, [doing[a] EXCEPT !.at = "picked", !.task = t], status)
  <2>1. Knows(a, [doing[a] EXCEPT !.at = "recheck"], status)
    BY <1>0, <1>q, ConstantsAssumption DEF Knows, Doing
  <2>2. ASSUME NEW t \in Waiting, a \in Process
        PROVE Knows(a, [doing[a] EXCEPT !.at = "picked", !.task = t], status)
    <3>1. t \in Task /\ t \in sync /\ status[t] = "scheduled" BY TypeIs DEF Waiting
    <3>2. a \notin Worker /\ t # NoTask BY <2>2, <3>1, ConstantsAssumption
    <3> QED BY <1>0, <2>2, <3>1, <3>2 DEF Knows, Doing
  <2> QED BY <2>1, <2>2
<1>4. CASE a \in Process /\ GetNext(a)
  BY <1>0, <1>4, <1>q, QuietTypes DEF GetNext
<1>5. CASE a \in Process /\ Recheck(a)
  BY <1>0, <1>5, <1>i, QuietTypes DEF Recheck
<1>7. CASE a \in Worker \cup Process /\ ReadProgress(a)
  <2>1. Knows(a, [doing[a] EXCEPT !.at = "progress"], status) BY <1>0, <1>7 DEF ReadProgress, Knows, Doing
  <2> QED BY <1>0, <1>7, <2>1, QuietTypes DEF ReadProgress
<1>8. CASE a \in Worker \cup Process /\ Crash(a)
  <2>1. crashes' \in 0..MaxCrashes BY <1>0, <1>8, ConstantsAssumption DEF Crash
  <2> QED BY <1>0, <1>8, <1>i, <2>1, QuietTypes DEF Crash
<1>9. CASE a \in Client /\ \E t \in Task : ReadCancel(a, t)
  <2>1. calls' \in 0..MaxCalls BY <1>0, <1>9, ConstantsAssumption DEF ReadCancel
  <2> QED BY <1>0, <1>9, <1>p, <2>1, QuietTypes, ConstantsAssumption DEF ReadCancel
<1>10. CASE a \in Worker \cup Process /\ \E o \in {"successful", "failed"} : ReadResult(a, o)
  <2> PICK o \in {"successful", "failed"} : ReadResult(a, o) BY <1>10
  <2>1. doing[a].at \in {"work", "picked"} BY DEF ReadResult
  <2>2. Knows(a, [doing[a] EXCEPT !.at = "report", !.outcome = o], status) BY <1>0, <2>1 DEF Knows, Doing
  <2>3. listed' \in BOOLEAN BY <1>0 DEF ReadResult, Again
  <2> QED BY <1>0, <1>i, <2>2, <2>3, QuietTypes DEF ReadResult
<1>11. CASE a \in Process /\ \E t \in Task : RunTask(a, t)
  <2> PICK t \in Task : RunTask(a, t) BY <1>11
  <2>1. /\ status' \in [Task -> Status] /\ status'[t] = "scheduled"
        /\ \A u \in Task : status[u] # "none" => status'[u] # "none"
    BY DEF RunTask, TypeOK, Status
  <2>2. Knows(a, [Idle EXCEPT !.at = "picked", !.task = t], status')
    BY <1>11, <2>1, ConstantsAssumption DEF RunTask, Knows, Idle, Doing
  <2> QED BY <1>0, <2>1, <2>2, MoveTypes DEF RunTask, TypeOK
<1>u. ASSUME NEW s \in Status \ {"none"}, doing[a].at \notin {"idle", "start", "recheck"},
             Update(doing[a].task, s), NEW d, Knows(a, d, status)
      PROVE  /\ status' \in [Task -> Status]
             /\ \A u \in Task : status[u] # "none" => status'[u] # "none"
             /\ Knows(a, d, status')
  BY <1>u, HasTask, Updated, ConstantsAssumption DEF Knows, Doing
<1>w. ASSUME doing[a].at \in {"picked", "progress"}
      PROVE /\ Knows(a, [doing[a] EXCEPT !.at = "work"], status)
            /\ Knows(a, [doing[a] EXCEPT !.at = "work", !.told = TRUE], status)
  BY <1>0, <1>w DEF Knows, Doing
<1>12. CASE a \in Worker /\ LockTask(a)
  <2>1. doing[a].at = "picked" /\ doing[a].task \in Task BY <1>12, HasTask DEF LockTask
  <2>2. relocked' \subseteq Task BY <1>12, <2>1 DEF LockTask, TypeOK
  <2>3. CASE Update(doing[a].task, "running") /\ Go(a, [doing[a] EXCEPT !.at = "work"])
    BY <1>0, <1>u, <1>w, <1>12, <2>1, <2>2, <2>3, MoveTypes DEF LockTask, TypeOK, Status
  <2>4. CASE Go(a, Idle) /\ UNCHANGED status
    BY <1>0, <1>i, <1>12, <2>2, <2>4, MoveTypes DEF LockTask, TypeOK, Knows
  <2> QED BY <1>12, <2>3, <2>4 DEF LockTask
<1>13. CASE a \in Process /\ SetRunning(a)
  BY <1>0, <1>u, <1>w, <1>13, MoveTypes DEF SetRunning, TypeOK, Status
<1>14. CASE a \in Worker \cup Process /\ WriteProgress(a)
  BY <1>0, <1>u, <1>w, <1>14, MoveTypes DEF WriteProgress, TypeOK, Status
<1>15. CASE a \in Worker \cup Process /\ WriteResult(a)
  <2>1. doing[a].at = "report" /\ doing[a].outcome \in Status \ {"none"}
    BY <1>0, <1>15 DEF WriteResult, Knows, Doing, Status, Final
  <2>2. overtaken' \subseteq Task BY <1>15, <2>1, HasTask DEF WriteResult, End, TypeOK
  <2>3. listed' \in BOOLEAN BY <1>0, <1>15 DEF WriteResult, Again
  <2> QED BY <1>0, <1>i, <1>u, <1>15, <2>1, <2>2, <2>3, MoveTypes DEF WriteResult, End, TypeOK
<1>16. CASE a \in Client /\ WriteCancel(a)
  <2>1. doing[a].at = "cancel" BY <1>16 DEF WriteCancel
  <2>2. overtaken' \subseteq Task BY <1>16, <2>1, HasTask DEF WriteCancel, End, TypeOK
  <2> QED BY <1>0, <1>i, <1>u, <1>16, <2>1, <2>2, MoveTypes DEF WriteCancel, End, TypeOK, Status, Final
<1> QED BY <1>1, <1>3, <1>4, <1>5, <1>7, <1>8, <1>9, <1>10, <1>11, <1>12, <1>13, <1>14, <1>15, <1>16 DEF ActorStep

LEMMA TypeStep == TypeOK /\ [Next]_vars => TypeOK'
<1> SUFFICES ASSUME TypeOK, [Next]_vars PROVE TypeOK' OBVIOUS
<1>1. CASE Next BY <1>1, Steps, OtherTypes, ActorTypes
<1>2. CASE UNCHANGED vars BY <1>2 DEF vars, TypeOK
<1> QED BY <1>1, <1>2

LEMMA TypeInit == Init => TypeOK
<1> SUFFICES ASSUME Init PROVE TypeOK OBVIOUS
<1>1. \A a \in Actor : Knows(a, doing[a], status)
  BY ConstantsAssumption DEF Init, Knows, Doing, Idle
<1>2. doing \in [Actor -> Doing] BY ConstantsAssumption DEF Init, Doing, Idle
<1>3. calls \in 0..MaxCalls /\ crashes \in 0..MaxCrashes BY ConstantsAssumption DEF Init
<1>4. status \in [Task -> Status] /\ unlisted \subseteq sync /\ overtaken \subseteq Task /\ relocked \subseteq Task
  BY DEF Init, Status
<1>5. sync \in SUBSET Task /\ listed \in BOOLEAN BY DEF Init
<1> QED BY <1>1, <1>2, <1>3, <1>4, <1>5, TypeIs

\* For all constants: types hold, an actor that has a task knows it from a row
\* of the table, and nobody gets a task of the other kind.
THEOREM TypeCorrect == Spec => []TypeOK
  BY TypeInit, TypeStep, PTL DEF Spec
-----------------------------------------------------------------------------
(* What a step does to the statuses and to who has a task.                  *)

LEMMA OneMoves ==
  ASSUME TypeOK, NEW a \in Actor, NEW d, Go(a, d)
  PROVE  doing'[a] = d /\ \A b \in Actor : b # a => doing'[b] = doing[b]
  BY DEF TypeOK, Go

\* An actor's step: one of the steps that leave the statuses alone, or a write
\* of the task it has or, with RunTask, begins to have.
Quiet(a) == UNCHANGED <<status, overtaken, relocked>>
Writes(a) ==
  \/ a \in Worker /\ LockTask(a) /\ Go(a, [doing[a] EXCEPT !.at = "work"])
  \/ a \in Process /\ SetRunning(a)
  \/ a \in Worker \cup Process /\ (WriteProgress(a) \/ WriteResult(a))
  \/ a \in Client /\ WriteCancel(a)

LEMMA WhatActorsDo ==
  ASSUME TypeOK, NEW a \in Actor, ActorStep(a)
  PROVE  \/ Quiet(a)
         \/ Writes(a)
         \/ a \in Process /\ \E t \in Task : RunTask(a, t)
<1>1. CASE a \in Worker /\ LockTask(a) /\ ~Go(a, [doing[a] EXCEPT !.at = "work"])
  <2>1. UNCHANGED status BY <1>1 DEF LockTask
  <2>2. ~(Exists(doing[a].task) /\ status[doing[a].task] # "running") BY <1>1 DEF LockTask
  <2> QED BY <1>1, <2>1, <2>2 DEF LockTask, Quiet
<1>2. ASSUME NEW t \in Task, ReadCancel(a, t) PROVE Quiet(a) BY <1>2 DEF ReadCancel, Quiet
<1>3. ASSUME NEW o \in {"successful", "failed"}, ReadResult(a, o) PROVE Quiet(a)
  BY <1>3 DEF ReadResult, Quiet
<1>4. ASSUME Select(a) \/ StartJob(a) \/ GetNext(a) \/ Recheck(a) \/ ReadProgress(a) \/ Crash(a)
      PROVE Quiet(a)
  BY <1>4 DEF Select, StartJob, GetNext, Recheck, ReadProgress, Crash, Quiet
<1> QED BY <1>1, <1>2, <1>3, <1>4 DEF ActorStep, Writes

\* What is written, and by whom.
LEMMA WhatIsWritten ==
  ASSUME TypeOK, NEW a \in Actor, Writes(a)
  PROVE  LET u == doing[a].task IN
         /\ doing[a].at \in {"picked", "progress", "report", "cancel"} /\ u \in Task
         /\ \E s \in {"running"} \cup Final : Update(u, s)
         /\ overtaken \subseteq overtaken' /\ relocked \subseteq relocked'
<1>1. doing[a].at \in {"picked", "progress", "report", "cancel"}
  BY DEF Writes, LockTask, SetRunning, WriteProgress, WriteResult, WriteCancel
<1>2. doing[a].task \in Task /\ doing[a] \in Doing BY <1>1, HasTask
<1>3. \E s \in {"running"} \cup Final : Update(doing[a].task, s)
  <2>1. CASE a \in Worker /\ LockTask(a) /\ Go(a, [doing[a] EXCEPT !.at = "work"])
    <3>1. [doing[a] EXCEPT !.at = "work"] # Idle BY <1>2, ConstantsAssumption DEF Doing, Idle
    <3>2. doing'[a] # Idle BY <2>1, <3>1, OneMoves
    <3> QED BY <2>1, <3>2, OneMoves DEF LockTask
  <2>2. CASE a \in Worker \cup Process /\ WriteResult(a)
    <3>1. doing[a].outcome \in Final
      BY <1>2, <2>2 DEF WriteResult, TypeOK, Doing, Final
    <3> QED BY <2>2, <3>1 DEF WriteResult, End
  <2> QED BY <2>1, <2>2 DEF Writes, SetRunning, WriteProgress, WriteCancel, End, Final
<1>4. overtaken \subseteq overtaken' /\ relocked \subseteq relocked'
  BY DEF Writes, LockTask, SetRunning, WriteProgress, WriteResult, WriteCancel, End
<1> QED BY <1>1, <1>2, <1>3, <1>4

New == {"none", "scheduled"}

\* A task is never waiting again, and the history is never forgotten.
LEMMA NeverBack ==
  ASSUME TypeOK, [Next]_vars
  PROVE  /\ \A t \in Task : status[t] \notin New => status'[t] \notin New
         /\ overtaken \subseteq overtaken' /\ relocked \subseteq relocked'
<1>1. CASE OtherStep
  BY <1>1 DEF OtherStep, ScheduleTask, ListJob, DeleteTask, TypeOK, New
<1>2. ASSUME NEW a \in Actor, Quiet(a) PROVE UNCHANGED <<status, overtaken, relocked>>
  BY <1>2 DEF Quiet
<1>3. ASSUME NEW a \in Actor, Writes(a)
      PROVE  /\ \A t \in Task : status[t] \notin New => status'[t] \notin New
             /\ overtaken \subseteq overtaken' /\ relocked \subseteq relocked'
  <2>1. PICK s \in {"running"} \cup Final : Update(doing[a].task, s) BY <1>3, WhatIsWritten
  <2>2. doing[a].task \in Task BY <1>3, WhatIsWritten
  <2> QED BY <1>3, <2>1, <2>2, WhatIsWritten, Updated DEF Status, Final, New
<1>4. ASSUME NEW a \in Actor, NEW t \in Task, RunTask(a, t)
      PROVE  /\ \A u \in Task : status[u] \notin New => status'[u] \notin New
             /\ overtaken \subseteq overtaken' /\ relocked \subseteq relocked'
  BY <1>4 DEF RunTask, TypeOK, New
<1>5. CASE UNCHANGED vars BY <1>5 DEF vars
<1> QED BY <1>1, <1>2, <1>3, <1>4, <1>5, Steps, WhatActorsDo

-----------------------------------------------------------------------------
(* One worker.                                                              *)

Working == {"work", "progress", "report"}

\* The invariant: the task of a worker is not waiting, so whoever locks it
\* again locks a task that was not scheduled; two workers have the same task
\* only then.
Locked == \A w \in Worker : doing[w].at \in Working => status[doing[w].task] \notin New
Sole == \A v, w \in Worker :
  v # w /\ doing[v].at \in Working /\ doing[w].at \in Working /\ doing[v].task = doing[w].task
  => doing[v].task \in relocked

Takes(w) == LET t == doing[w].task IN
  /\ LockTask(w) /\ doing[w].at = "picked"
  /\ doing'[w].task = t /\ status'[t] = "running"
  /\ status[t] # "scheduled" => t \in relocked'
  /\ \A v \in Actor : v # w => doing'[v] = doing[v]

\* A worker works on what it has worked on, or it has just locked it.
LEMMA WorkerMoves ==
  ASSUME TypeOK, [Next]_vars, NEW w \in Worker, doing'[w].at \in Working
  PROVE  \/ doing[w].at \in Working /\ doing'[w].task = doing[w].task
         \/ Takes(w)
<1>0. w \in Actor /\ w \notin Process /\ w \notin Client BY ConstantsAssumption DEF Actor
<1>1. CASE doing'[w] = doing[w] BY <1>1
<1>2. CASE OtherStep
  BY <1>1, <1>2 DEF OtherStep, ScheduleTask, ListJob, DeleteTask
<1>3. ASSUME NEW a \in Actor, ActorStep(a), a # w PROVE doing'[w] = doing[w]
  <2>1. PICK d : Go(a, d)
    BY <1>3 DEF ActorStep, Select, LockTask, StartJob, GetNext, SetRunning, Recheck, RunTask,
        ReadProgress, WriteProgress, ReadResult, WriteResult, Crash, WriteCancel, ReadCancel
  <2> QED BY <1>0, <1>3, <2>1, OneMoves
<1>4. CASE ActorStep(w)
  <2>0. doing[w] \in Doing BY <1>0 DEF TypeOK
  <2>1. CASE Select(w)
    <3>1. PICK t \in Task : Go(w, [Idle EXCEPT !.at = "picked", !.task = t])
      BY <2>1 DEF Select
    <3>2. doing'[w] = [Idle EXCEPT !.at = "picked", !.task = t] BY <1>0, <3>1, OneMoves
    <3> QED BY <3>2 DEF Idle, Working
  <2>2. CASE LockTask(w)
    <3>1. doing[w].at = "picked" /\ doing[w].task \in Task BY <1>0, <2>2, HasTask DEF LockTask
    <3>2. CASE Go(w, Idle) BY <1>0, <3>2, OneMoves DEF Idle, Working
    <3>3. CASE /\ Exists(doing[w].task) /\ status[doing[w].task] # "running"
               /\ Update(doing[w].task, "running") /\ Go(w, [doing[w] EXCEPT !.at = "work"])
      <4>1. doing'[w].task = doing[w].task /\ \A v \in Actor : v # w => doing'[v] = doing[v]
        BY <1>0, <2>0, <3>3, OneMoves DEF Doing
      <4>2. status'[doing[w].task] = "running" BY <3>1, <3>3, Updated DEF Status
      <4>3. status[doing[w].task] # "scheduled" => doing[w].task \in relocked'
        BY <2>2, <3>3 DEF LockTask
      <4> QED BY <2>2, <3>1, <4>1, <4>2, <4>3 DEF Takes
    <3> QED BY <2>2, <3>2, <3>3 DEF LockTask
  <2>3. CASE ReadProgress(w)
    BY <1>0, <2>0, <2>3, OneMoves DEF ReadProgress, Doing, Working
  <2>4. CASE WriteProgress(w)
    <3>1. doing'[w] = [doing[w] EXCEPT !.at = "work", !.told = TRUE]
      BY <1>0, <2>4, OneMoves DEF WriteProgress
    <3>2. doing[w].at = "progress" BY <2>4 DEF WriteProgress
    <3> QED BY <2>0, <3>1, <3>2 DEF Doing, Working
  <2>5. CASE \E o \in {"successful", "failed"} : ReadResult(w, o)
    <3> PICK o \in {"successful", "failed"} : ReadResult(w, o) BY <2>5
    <3>1. doing[w].at = "work" BY <1>0 DEF ReadResult
    <3>2. CASE Go(w, Done(w))
      <4>1. doing'[w] = Done(w) BY <1>0, <3>2, OneMoves
      <4> QED BY <4>1 DEF Done, Idle, Working
    <3>3. CASE Go(w, [doing[w] EXCEPT !.at = "report", !.outcome = o])
      <4>1. doing'[w] = [doing[w] EXCEPT !.at = "report", !.outcome = o] BY <1>0, <3>3, OneMoves
      <4> QED BY <2>0, <3>1, <4>1 DEF Doing, Working
    <3> QED BY <3>2, <3>3 DEF ReadResult
  <2>6. CASE WriteResult(w)
    <3>1. doing'[w] = Done(w) BY <1>0, <2>6, OneMoves DEF WriteResult
    <3> QED BY <3>1 DEF Done, Idle, Working
  <2>7. CASE Crash(w)
    BY <1>0, <2>7, OneMoves DEF Crash, Idle, Working
  <2> QED BY <1>0, <1>4, <2>1, <2>2, <2>3, <2>4, <2>5, <2>6, <2>7 DEF ActorStep
<1>5. CASE UNCHANGED vars BY <1>1, <1>5 DEF vars
<1> QED BY <1>1, <1>2, <1>3, <1>4, <1>5, Steps

LEMMA SoleStep ==
  TypeOK /\ Locked /\ Sole /\ [Next]_vars => Locked' /\ Sole'
<1> SUFFICES ASSUME TypeOK, Locked, Sole, [Next]_vars PROVE Locked' /\ Sole' OBVIOUS
<1>0. \A w \in Worker : doing[w].at \in Working => doing[w].task \in Task
  BY HasTask DEF Working, Actor
<1>1. Locked'
  <2> SUFFICES ASSUME NEW w \in Worker, doing'[w].at \in Working
               PROVE  status'[doing'[w].task] \notin New
    BY DEF Locked
  <2>1. CASE doing[w].at \in Working /\ doing'[w].task = doing[w].task
    BY <1>0, <2>1, NeverBack DEF Locked
  <2>2. CASE Takes(w) BY <2>2 DEF Takes, New
  <2> QED BY <2>1, <2>2, WorkerMoves
<1>2. Sole'
  <2> SUFFICES ASSUME NEW v \in Worker, NEW w \in Worker, v # w, doing'[v].at \in Working,
                      doing'[w].at \in Working, doing'[v].task = doing'[w].task
               PROVE  doing'[v].task \in relocked'
    BY DEF Sole
  <2>1. ASSUME NEW x \in Worker, NEW y \in Worker, x # y, Takes(x), doing'[y].at \in Working,
               doing'[x].task = doing'[y].task
        PROVE  doing'[x].task \in relocked'
    <3>1. doing'[y] = doing[y] BY <2>1 DEF Takes, Actor
    <3>2. status[doing[x].task] \notin New BY <2>1, <3>1 DEF Takes, Locked
    <3> QED BY <2>1, <3>2 DEF Takes, New
  <2>2. CASE Takes(v) BY <2>1, <2>2
  <2>3. CASE Takes(w) BY <2>1, <2>3
  <2>4. CASE /\ doing[v].at \in Working /\ doing'[v].task = doing[v].task
             /\ doing[w].at \in Working /\ doing'[w].task = doing[w].task
    BY <2>4, NeverBack DEF Sole
  <2> QED BY <2>2, <2>3, <2>4, WorkerMoves
<1> QED BY <1>1, <1>2

LEMMA SoleIsOne ==
  ASSUME Sole PROVE OneWorker
<1> SUFFICES ASSUME NEW t \in Task, t \notin relocked PROVE Cardinality(Holders(t)) <= 1
  BY DEF OneWorker
<1>1. \A v, w \in Holders(t) : v = w BY DEF Holders, Sole, Working
<1>2. CASE Holders(t) = {} BY <1>2, FS_EmptySet
<1>3. CASE Holders(t) # {}
  <2>1. PICK w \in Holders(t) : TRUE BY <1>3
  <2>2. Holders(t) = {w} BY <1>1, <2>1
  <2> QED BY <2>2, FS_Singleton
<1> QED BY <1>2, <1>3

\* However many workers fetch, and however their statements interleave, two of
\* them have the same task only if it was locked after it had ended.
THEOREM OneWorkerOnly == Spec => []OneWorker
<1>1. Init => TypeOK /\ Locked /\ Sole
  BY TypeInit DEF Init, Locked, Sole, Working, Idle, Actor
<1>2. TypeOK /\ Locked /\ Sole /\ [Next]_vars => (TypeOK /\ Locked /\ Sole)'
  BY TypeStep, SoleStep
<1>3. TypeOK /\ Locked /\ Sole => OneWorker BY SoleIsOne
<1> QED BY <1>1, <1>2, <1>3, PTL DEF Spec

-----------------------------------------------------------------------------
(* Final statuses.                                                          *)

\* The invariant: nobody holds a copy of a task that has ended and was not
\* overtaken, but those that work on one that was cancelled; they look at the
\* row once more before they write.
Fresh == \A t \in Task : status[t] \in Final /\ t \notin overtaken =>
  \A b \in Actor : doing[b].task = t => doing[b].at = "work" /\ status[t] = "cancelled"

\* Reading a task that has ended and that nobody holds a copy of leaves nobody
\* with a copy.
LEMMA QuietReads ==
  ASSUME TypeOK, Fresh, NEW a \in Actor, ActorStep(a), ~Writes(a), Quiet(a),
         NEW t \in Task, status[t] \in Final, t \notin overtaken
  PROVE  doing'[a].task # t
<1>0. t # NoTask /\ Idle.task # t /\ Done(a).task # t
  BY ConstantsAssumption DEF Idle, Done
<1>f. doing[a].task = t => doing[a].at = "work" /\ status[t] = "cancelled" BY DEF Fresh
<1>d. doing[a] \in Doing BY DEF TypeOK
<1>1. ASSUME NEW u \in Task, u # t, NEW at, Go(a, [Idle EXCEPT !.at = at, !.task = u])
      PROVE  doing'[a].task # t
  <2>1. doing'[a] = [Idle EXCEPT !.at = at, !.task = u] BY <1>1, OneMoves
  <2> QED BY <1>1, <2>1 DEF Idle
<1>2. CASE Select(a) \/ \E u \in Task : RunTask(a, u) \/ ReadCancel(a, u)
  BY <1>1, <1>2 DEF Select, RunTask, ReadCancel, Final
<1>3. ASSUME Go(a, Idle) \/ Go(a, Done(a)) \/ Go(a, [Idle EXCEPT !.at = "start", !.job = TRUE])
      PROVE  doing'[a].task # t
  <2>1. CASE Go(a, [Idle EXCEPT !.at = "start", !.job = TRUE])
    <3>1. doing'[a] = [Idle EXCEPT !.at = "start", !.job = TRUE] BY <2>1, OneMoves
    <3> QED BY <1>0, <3>1 DEF Idle
  <2>2. CASE Go(a, Idle) \/ Go(a, Done(a))
    <3>1. doing'[a] = Idle \/ doing'[a] = Done(a) BY <2>2, OneMoves
    <3> QED BY <1>0, <3>1
  <2> QED BY <1>3, <2>1, <2>2
<1>4. CASE StartJob(a) \/ Recheck(a) \/ Crash(a)
  BY <1>3, <1>4 DEF StartJob, Recheck, Crash
<1>5. CASE GetNext(a)
  <2>1. doing[a].at = "start" /\ doing[a].task # t BY <1>5, <1>f DEF GetNext
  <2>2. CASE Go(a, [doing[a] EXCEPT !.at = "recheck"])
    <3>1. doing'[a] = [doing[a] EXCEPT !.at = "recheck"] BY <2>2, OneMoves
    <3> QED BY <1>d, <2>1, <3>1 DEF Doing
  <2>3. ASSUME NEW u \in Waiting, Go(a, [doing[a] EXCEPT !.at = "picked", !.task = u])
        PROVE  doing'[a].task # t
    <3>1. doing'[a] = [doing[a] EXCEPT !.at = "picked", !.task = u] BY <2>3, OneMoves
    <3>2. u # t BY DEF Waiting, Final
    <3> QED BY <1>d, <3>1, <3>2 DEF Doing
  <2> QED BY <1>5, <2>2, <2>3 DEF GetNext
<1>6. CASE ReadProgress(a)
  <2>1. doing[a].task # t BY <1>6, <1>f DEF ReadProgress
  <2>2. doing'[a] = [doing[a] EXCEPT !.at = "progress"] BY <1>6, OneMoves DEF ReadProgress
  <2> QED BY <1>d, <2>1, <2>2 DEF Doing
<1>7. ASSUME NEW o \in {"successful", "failed"}, ReadResult(a, o) PROVE doing'[a].task # t
  <2>1. CASE Go(a, Done(a)) BY <1>3, <2>1
  <2>2. CASE status[doing[a].task] # "cancelled" /\ Go(a, [doing[a] EXCEPT !.at = "report", !.outcome = o])
    <3>1. doing[a].task # t BY <1>f, <2>2
    <3>2. doing'[a] = [doing[a] EXCEPT !.at = "report", !.outcome = o] BY <2>2, OneMoves
    <3> QED BY <1>d, <3>1, <3>2 DEF Doing
  <2> QED BY <1>7, <2>1, <2>2 DEF ReadResult
<1>8. CASE LockTask(a) /\ ~Go(a, [doing[a] EXCEPT !.at = "work"])
  BY <1>3, <1>8 DEF LockTask
<1> QED BY <1>2, <1>4, <1>5, <1>6, <1>7, <1>8 DEF ActorStep, Writes

\* What a write leaves: the writer has its task still, or none; a final status
\* was written by End.
LEMMA WriteLeaves ==
  ASSUME TypeOK, NEW a \in Actor, Writes(a)
  PROVE  LET u == doing[a].task IN
         /\ \/ doing'[a].task = u /\ Update(u, "running")
            \/ /\ doing'[a].task = NoTask
               /\ \E s \in Final : Update(u, s) /\ (Copies(u, s) \ {a} # {} => u \in overtaken')
         /\ \A b \in Actor : b # a => doing'[b] = doing[b]
<1>d. doing[a] \in Doing BY DEF TypeOK
<1>o. \A d : Go(a, d) => doing'[a] = d /\ \A b \in Actor : b # a => doing'[b] = doing[b]
  BY OneMoves
<1>1. ASSUME Go(a, [doing[a] EXCEPT !.at = "work"]) PROVE doing'[a].task = doing[a].task
  <2>1. doing'[a] = [doing[a] EXCEPT !.at = "work"] BY <1>1, <1>o
  <2> QED BY <1>d, <2>1 DEF Doing
<1>2. CASE a \in Worker /\ LockTask(a) /\ Go(a, [doing[a] EXCEPT !.at = "work"])
  <2>1. doing[a].at = "picked" BY <1>2 DEF LockTask
  <2>2. Update(doing[a].task, "running")
    <3>1. doing'[a].task \in Task BY <1>1, <1>2, <2>1, HasTask
    <3>2. ~Go(a, Idle) BY <1>o, <3>1, ConstantsAssumption DEF Idle
    <3> QED BY <1>2, <3>2 DEF LockTask
  <2> QED BY <1>1, <1>2, <1>o, <2>2
<1>3. CASE SetRunning(a) BY <1>1, <1>3, <1>o DEF SetRunning
<1>4. CASE WriteProgress(a)
  <2>1. doing'[a] = [doing[a] EXCEPT !.at = "work", !.told = TRUE] BY <1>4, <1>o DEF WriteProgress
  <2>2. doing'[a].task = doing[a].task BY <1>d, <2>1 DEF Doing
  <2> QED BY <1>4, <1>o, <2>2 DEF WriteProgress
<1>5. ASSUME NEW s \in Final, End(a, doing[a].task, s), Go(a, Idle) \/ Go(a, Done(a))
      PROVE  /\ doing'[a].task = NoTask
             /\ Update(doing[a].task, s)
             /\ Copies(doing[a].task, s) \ {a} # {} => doing[a].task \in overtaken'
  <2>1. doing'[a] = Idle \/ doing'[a] = Done(a) BY <1>5, <1>o
  <2>2. Idle.task = NoTask /\ Done(a).task = NoTask BY DEF Idle, Done
  <2> QED BY <1>5, <2>1, <2>2 DEF End
<1>6. CASE WriteResult(a)
  <2>1. doing[a].outcome \in Final BY <1>d, <1>6 DEF WriteResult, TypeOK, Doing, Final
  <2> QED BY <1>5, <1>6, <1>o, <2>1 DEF WriteResult
<1>7. CASE WriteCancel(a)
  BY <1>5, <1>7, <1>o DEF WriteCancel, Final
<1> QED BY <1>2, <1>3, <1>4, <1>6, <1>7 DEF Writes

\* A write is of another task than one that has ended and was not overtaken.
LEMMA WritesOthers ==
  ASSUME TypeOK, Fresh, NEW a \in Actor, Writes(a),
         NEW t \in Task, status[t] \in Final, t \notin overtaken
  PROVE  doing[a].task # t /\ status'[t] = status[t]
<1>1. doing[a].at # "work" BY WhatIsWritten
<1>2. doing[a].task # t BY <1>1 DEF Fresh
<1>3. PICK s \in {"running"} \cup Final : Update(doing[a].task, s) BY WhatIsWritten
<1>4. doing[a].task \in Task BY WhatIsWritten
<1> QED BY <1>2, <1>3, <1>4, Updated DEF Status, Final

LEMMA RunsNew ==
  ASSUME TypeOK, NEW a \in Actor, NEW u \in Task, RunTask(a, u)
  PROVE  /\ \A t \in Task : t # u => status'[t] = status[t]
         /\ status[u] = "none" /\ status'[u] = "scheduled" /\ overtaken' = overtaken
         /\ doing'[a].task = u /\ \A b \in Actor : b # a => doing'[b] = doing[b]
<1>1. doing'[a] = [Idle EXCEPT !.at = "picked", !.task = u] /\ \A b \in Actor : b # a => doing'[b] = doing[b]
  BY OneMoves DEF RunTask
<1> QED BY <1>1 DEF RunTask, TypeOK, Idle

LEMMA FreshStep == TypeOK /\ Fresh /\ [Next]_vars => Fresh'
<1> SUFFICES ASSUME TypeOK, Fresh, [Next]_vars,
                    NEW t \in Task, status'[t] \in Final, t \notin overtaken',
                    NEW b \in Actor, doing'[b].task = t
             PROVE  doing'[b].at = "work" /\ status'[t] = "cancelled"
  BY DEF Fresh
<1>0. t \notin overtaken BY NeverBack
<1>1. CASE status[t] = status'[t] /\ doing'[b] = doing[b] BY <1>0, <1>1 DEF Fresh
<1>2. CASE OtherStep
  <2>1. PICK u \in Task : ScheduleTask(u) \/ ListJob(u) \/ DeleteTask(u) BY <1>2 DEF OtherStep
  <2>2. doing' = doing BY <2>1 DEF ScheduleTask, ListJob, DeleteTask
  <2>3. status'[t] = status[t] BY <2>1 DEF ScheduleTask, ListJob, DeleteTask, TypeOK, Final
  <2> QED BY <1>1, <2>2, <2>3
<1>3. ASSUME NEW a \in Actor, NEW u \in Task, RunTask(a, u)
      PROVE  doing'[b].at = "work" /\ status'[t] = "cancelled"
  <2>1. t # u BY <1>3, RunsNew DEF Final
  <2>2. b # a BY <1>3, <2>1, RunsNew
  <2> QED BY <1>1, <1>3, <2>1, <2>2, RunsNew
<1>4. ASSUME NEW a \in Actor, Writes(a)
      PROVE  doing'[b].at = "work" /\ status'[t] = "cancelled"
  <2>0. doing[a].task \in Task BY <1>4, WhatIsWritten
  <2>1. CASE status[t] \in Final
    <3>1. doing[a].task # t /\ status'[t] = status[t] BY <1>0, <1>4, <2>1, WritesOthers
    <3>2. b # a BY <1>4, <3>1, WriteLeaves, ConstantsAssumption
    <3> QED BY <1>1, <1>4, <3>1, <3>2, WriteLeaves
  <2>2. CASE status[t] \notin Final
    <3>1. PICK s \in {"running"} \cup Final : Update(doing[a].task, s) BY <1>4, WhatIsWritten
    <3>2. doing[a].task = t BY <2>0, <2>2, <3>1, Updated DEF Status, Final
    <3>3. "running" \notin Final BY DEF Final
    <3>4. ~Update(t, "running")
      BY <2>2, <3>3, Updated DEF Status, Final
    <3>5. doing'[a].task = NoTask BY <1>4, <3>2, <3>4, WriteLeaves
    <3>6. PICK f \in Final : Update(t, f) /\ (Copies(t, f) \ {a} # {} => t \in overtaken')
      BY <1>4, <3>2, <3>4, WriteLeaves
    <3>7. status'[t] = f BY <2>2, <3>6, Updated DEF Status, Final
    <3>8. b # a /\ doing'[b] = doing[b] BY <1>4, <3>5, WriteLeaves, ConstantsAssumption
    <3>9. b \notin Copies(t, f) BY <3>6, <3>8
    <3>10. doing[b].at \in {"picked", "work", "progress", "report", "cancel"}
      BY <3>8, ConstantsAssumption DEF TypeOK, Doing
    <3>11. doing[b].at = "work" /\ f = "cancelled" BY <3>8, <3>9, <3>10 DEF Copies
    <3> QED BY <3>7, <3>8, <3>11
  <2> QED BY <2>1, <2>2
<1>5. ASSUME NEW a \in Actor, ActorStep(a), ~Writes(a), Quiet(a)
      PROVE  doing'[b].at = "work" /\ status'[t] = "cancelled"
  <2>1. status'[t] = status[t] BY <1>5 DEF Quiet
  <2>2. b # a BY <1>0, <1>5, <2>1, QuietReads
  <2>3. PICK d : Go(a, d)
    BY <1>5 DEF ActorStep, Select, LockTask, StartJob, GetNext, SetRunning, Recheck, RunTask,
        ReadProgress, WriteProgress, ReadResult, WriteResult, Crash, WriteCancel, ReadCancel
  <2> QED BY <1>1, <2>1, <2>2, <2>3, OneMoves
<1>6. CASE UNCHANGED vars BY <1>1, <1>6 DEF vars
<1> QED BY <1>2, <1>3, <1>4, <1>5, <1>6, Steps, WhatActorsDo

\* What the step does to a task that has ended.
LEMMA FinalStep ==
  ASSUME TypeOK, Fresh, [Next]_vars, NEW t \in Task, status[t] \in Final, t \notin overtaken
  PROVE  status'[t] \in {status[t], "deleted"}
<1>1. CASE OtherStep
  BY <1>1 DEF OtherStep, ScheduleTask, ListJob, DeleteTask, TypeOK, Final
<1>2. ASSUME NEW a \in Actor, NEW u \in Task, RunTask(a, u) PROVE status'[t] = status[t]
  BY <1>2, RunsNew DEF Final
<1>3. ASSUME NEW a \in Actor, Writes(a) PROVE status'[t] = status[t] BY <1>3, WritesOthers
<1>4. ASSUME NEW a \in Actor, Quiet(a) PROVE status'[t] = status[t] BY <1>4 DEF Quiet
<1>5. CASE UNCHANGED vars BY <1>5 DEF vars
<1> QED BY <1>1, <1>2, <1>3, <1>4, <1>5, Steps, WhatActorsDo

\* Whatever the numbers of tasks, actors and calls: a task that has ended keeps
\* its status until it is deleted, unless somebody held an older copy of it.
THEOREM FinalStaysSo == Spec => FinalStays
<1>1. Init => TypeOK /\ Fresh
  BY TypeInit DEF Init, Fresh, Final
<1>2. TypeOK /\ Fresh /\ [Next]_vars => (TypeOK /\ Fresh)'
  BY TypeStep, FreshStep
<1>3. TypeOK /\ Fresh /\ [Next]_vars =>
        [\A t \in Task : status[t] \in Final /\ t \notin overtaken =>
           status'[t] \in {status[t], "deleted"}]_vars
  BY FinalStep
<1> QED BY <1>1, <1>2, <1>3, PTL DEF Spec, FinalStays
=============================================================================
