--------------------------- MODULE JobListProofs ---------------------------
(***************************************************************************)
(* Theorems about JobList, for every number of processes, rows and calls   *)
(* and all intervals.  The invariant says, per row, who answers for it     *)
(* (Owned, Kept, Sole) and, per process, what its place in the code says   *)
(* about the row it has in hand (Local).  A step of a process changes its  *)
(* own row only; StepKeeps is the argument all these steps share.          *)
(***************************************************************************)
EXTENDS JobList, TLAPS

ProcType == [at : States, how : {"none", "cron", "web", "occ"}, id : Id \cup {NoId},
             seen : Row \cup {NoRow}, when : Int, asks : SUBSET Class,
             visited : [Exclusive -> Id \cup {NoId}], executed : SUBSET Id, end : Int]

CallType == [does : {"none", "insert", "update"}, key : SUBSET Id, check : Int]

\* Every variable has its type, and only rows that were inserted are listed
\* or were run.
Types ==
  /\ jobs \in [Id -> Row \cup {NoRow}] /\ proc \in [Process -> ProcType]
  /\ client \in [Client -> CallType]
  /\ born \in SUBSET Id /\ \A i \in Id : jobs[i] # NoRow \/ runs[i] > 0 => i \in born
  /\ now \in Start..(Start + MaxTime) /\ mode \in {"ajax", "cron"}
  /\ calls \in 0..MaxCalls /\ crashes \in 0..MaxCrashes
  /\ runs \in [Id -> 0..2] /\ settled \in SUBSET born
  /\ touched \in SUBSET (Causes \X Id)

\* What the place of a process in the code says about the row in its hand.
Local(p) ==
  LET s == proc[p] IN
  /\ s.at = "idle" <=> s = Idle
  /\ s.when \in 0..now
  /\ s.id # NoId => s.id \in born
  /\ s.at \notin {"idle", "select"} => s.id \in Id
  /\ s.at \notin {"idle", "select", "load"} => s.seen \in Row
  /\ s.at = "parallel" => ClassOf[s.id] \in Exclusive
  /\ s.at \in {"drop", "parallel", "reserve"} => s.seen.reserved <= now - TwelveHours
  /\ s.at = "reset" => s.how # "occ" /\ ClassOf[s.id] \in Off \cup Gone
  /\ s.at \in {"take", "running"} /\ s.how # "occ" => ClassOf[s.id] \notin Off \cup Gone
  /\ s.at \in {"load", "take", "running", "done"} /\ s.how = "occ" => Why({"called"}, s.id)
  /\ s.at = "load" => s.how = "occ"
  /\ s.how = "occ" => s.at \in {"load", "take", "running", "done"}

\* A process that is to free the row i: a command line call is none.
Keeper(p, i)  == /\ proc[p].id = i /\ proc[p].how # "occ"
                 /\ proc[p].at \in {"take", "running", "done", "reset"}
Taking(p, i)  == proc[p].id = i /\ proc[p].at = "take"
Running(p, i) == proc[p].id = i /\ proc[p].at = "running"
Busy(p, i)    == \/ Holds(p, i)
                 \/ proc[p].id = i /\ proc[p].at = "done" /\ ClassOf[i] \in Queued

\* Why i may be worked on twice: nobody can free the row of a queued job late.
Excused(i) == Why(IF ClassOf[i] \in Queued THEN {"expired", "called"} ELSE Causes, i)

Owned(i) == jobs[i] # NoRow /\ crashes = 0 =>
              jobs[i].reserved = 0 \/ \E p \in Process : Keeper(p, i)

Kept(i) == i \in born /\ jobs[i] = NoRow /\ crashes = 0 =>
             i \in settled \/ \E p \in Process : Running(p, i)

Alone(i) ==
  /\ \A p, q \in Process : Busy(p, i) /\ Busy(q, i) => p = q
  /\ \A p \in Process : Holds(p, i) => jobs[i] = NoRow \/ jobs[i].reserved # 0
  /\ ClassOf[i] \in Queued =>
       /\ runs[i] \in 0..1
       /\ runs[i] = 1 => jobs[i] = NoRow /\ \A p \in Process : ~Taking(p, i)
       /\ \A p \in Process : Busy(p, i) /\ ~Taking(p, i) => runs[i] = 1

Sole(i) == Excused(i) \/ Alone(i)

Inv == /\ Types
       /\ \A p \in Process : Local(p)
       /\ \A i \in Id : Owned(i) /\ Kept(i) /\ Sole(i)

-----------------------------------------------------------------------------
(* The record of a process.  These lemmas need no assumption on constants,  *)
(* and without them in sight the provers see through nested EXCEPTs.        *)

\* p goes on, with the row and everything else it has in hand.
Moved(p, a) ==
  /\ proc' \in [Process -> ProcType] /\ proc'[p].at = a
  /\ proc'[p].id = proc[p].id /\ proc'[p].how = proc[p].how
  /\ proc'[p].seen = proc[p].seen /\ proc'[p].when = proc[p].when
  /\ \A q \in Process \ {p} : proc'[q] = proc[q]

Left(p) == /\ proc' \in [Process -> ProcType] /\ proc'[p] = Idle
           /\ \A q \in Process \ {p} : proc'[q] = proc[q]

LEMMA IdleType == Idle \in ProcType
  BY DEF Idle, ProcType, States

LEMMA AtFacts ==
  ASSUME NEW s \in ProcType, NEW a \in States
  PROVE  LET t == [s EXCEPT !.at = a] IN
         /\ t \in ProcType /\ t.at = a /\ t.id = s.id /\ t.how = s.how
         /\ t.seen = s.seen /\ t.when = s.when
  BY DEF ProcType

\* From the new state of p to what p does.
LEMMA StateMoves ==
  ASSUME Types, NEW p \in Process, NEW s \in ProcType, proc' = [proc EXCEPT ![p] = s],
         s.id = proc[p].id, s.how = proc[p].how, s.seen = proc[p].seen, s.when = proc[p].when
  PROVE  Moved(p, s.at)
  BY DEF Types, Moved

LEMMA GoFacts ==
  ASSUME Types, NEW p \in Process, NEW a \in States, Go(p, a)
  PROVE  Moved(p, a)
<1> DEFINE s == [proc[p] EXCEPT !.at = a]
<1>1. proc[p] \in ProcType
  BY DEF Types
<1>2. /\ s \in ProcType /\ s.at = a /\ s.id = proc[p].id /\ s.how = proc[p].how
      /\ s.seen = proc[p].seen /\ s.when = proc[p].when
  BY <1>1, AtFacts
<1>3. proc' = [proc EXCEPT ![p] = s]
  BY DEF Go
<1> HIDE DEF s
<1> QED
  BY <1>2, <1>3, StateMoves

LEMMA VisitedMoves ==
  ASSUME Types, NEW p \in Process, NEW a \in States, NEW c \in Exclusive, NEW v \in Id \cup {NoId},
         proc' = [proc EXCEPT ![p].at = a, ![p].visited[c] = v]
  PROVE  Moved(p, a)
<1>1. PICK old \in ProcType : old = proc[p]
  BY DEF Types
<1> DEFINE s == [old EXCEPT !.at = a, !.visited[c] = v]
<1>2. /\ s \in ProcType /\ s.at = a /\ s.id = old.id /\ s.how = old.how
      /\ s.seen = old.seen /\ s.when = old.when
  BY DEF ProcType
<1>3. proc' = [proc EXCEPT ![p] = s]
  <2>1. proc \in [Process -> ProcType]
    BY DEF Types
  <2>2. [proc EXCEPT ![p].at = a, ![p].visited[c] = v]
          = [proc EXCEPT ![p] = [@ EXCEPT !.at = a, !.visited[c] = v]]
    BY <2>1
  <2> QED  BY <1>1, <2>2
<1> HIDE DEF s
<1> QED
  BY <1>1, <1>2, <1>3, StateMoves

LEMMA ExecutedMoves ==
  ASSUME Types, NEW p \in Process, NEW i \in Id,
         proc' = [proc EXCEPT ![p].at = "select", ![p].executed = @ \cup {i}]
  PROVE  Moved(p, "select")
<1>1. PICK old \in ProcType : old = proc[p]
  BY DEF Types
<1> DEFINE s == [old EXCEPT !.at = "select", !.executed = old.executed \cup {i}]
<1>2. /\ s \in ProcType /\ s.at = "select" /\ s.id = old.id /\ s.how = old.how
      /\ s.seen = old.seen /\ s.when = old.when
  BY DEF ProcType, States
<1>3. proc' = [proc EXCEPT ![p] = s]
  <2>1. proc \in [Process -> ProcType]
    BY DEF Types
  <2>2. [proc EXCEPT ![p].at = "select", ![p].executed = @ \cup {i}]
          = [proc EXCEPT ![p] = [@ EXCEPT !.at = "select", !.executed = proc[p].executed \cup {i}]]
    BY <2>1
  <2> QED  BY <1>1, <2>2
<1> HIDE DEF s
<1> QED
  BY <1>1, <1>2, <1>3, StateMoves

\* A process has another row in hand.
Took(p, a, how, i, row) ==
  /\ proc' \in [Process -> ProcType] /\ proc'[p].at = a /\ proc'[p].how = how
  /\ proc'[p].id = i /\ proc'[p].seen = row /\ proc'[p].when = proc[p].when
  /\ \A q \in Process \ {p} : proc'[q] = proc[q]

LEMMA LoadMoves ==
  ASSUME Types, NEW p \in Process, NEW row \in Row,
         proc' = [proc EXCEPT ![p].at = "take", ![p].seen = row]
  PROVE  Took(p, "take", proc[p].how, proc[p].id, row)
<1>1. PICK old \in ProcType : old = proc[p]
  BY DEF Types
<1> DEFINE s == [old EXCEPT !.at = "take", !.seen = row]
<1>2. /\ s \in ProcType /\ s.at = "take" /\ s.id = old.id /\ s.how = old.how
      /\ s.seen = row /\ s.when = old.when
  BY DEF ProcType, States
<1>3. proc' = [proc EXCEPT ![p] = s]
  <2>1. proc \in [Process -> ProcType]
    BY DEF Types
  <2>2. [proc EXCEPT ![p].at = "take", ![p].seen = row]
          = [proc EXCEPT ![p] = [@ EXCEPT !.at = "take", !.seen = row]]
    BY <2>1
  <2> QED  BY <1>1, <2>2
<1> HIDE DEF s
<1> QED
  BY <1>1, <1>2, <1>3 DEF Types, Took

LEMMA ExecuteMoves ==
  ASSUME Types, NEW p \in Process, NEW i \in Id,
         proc' = [proc EXCEPT ![p] = [@ EXCEPT !.at = "load", !.how = "occ", !.id = i]]
  PROVE  Took(p, "load", "occ", i, proc[p].seen)
<1>1. PICK old \in ProcType : old = proc[p]
  BY DEF Types
<1> DEFINE s == [old EXCEPT !.at = "load", !.how = "occ", !.id = i]
<1>2. /\ s \in ProcType /\ s.at = "load" /\ s.id = i /\ s.how = "occ"
      /\ s.seen = old.seen /\ s.when = old.when
  BY DEF ProcType, States
<1>3. proc' = [proc EXCEPT ![p] = s]
  BY <1>1
<1> HIDE DEF s
<1> QED
  BY <1>1, <1>2, <1>3 DEF Types, Took

LEMMA StartMoves ==
  ASSUME Types, Modes \subseteq {"cron", "web"}, Filters \subseteq SUBSET Class,
         now + FourteenMinutes \in Int, NEW p \in Process, StartCron(p)
  PROVE  \E how \in {"cron", "web"} : Took(p, "select", how, proc[p].id, proc[p].seen)
<1>1. PICK old \in ProcType : old = proc[p]
  BY DEF Types
<1>2. PICK how \in {"cron", "web"}, S \in SUBSET Class, end \in Int :
        proc' = [proc EXCEPT ![p] = [@ EXCEPT !.at = "select", !.how = how, !.asks = S,
                                                 !.end = end]]
  BY DEF StartCron
<1> DEFINE s == [old EXCEPT !.at = "select", !.how = how, !.asks = S, !.end = end]
<1>3. /\ s \in ProcType /\ s.at = "select" /\ s.id = old.id /\ s.how = how
      /\ s.seen = old.seen /\ s.when = old.when
  BY DEF ProcType, States
<1>4. proc' = [proc EXCEPT ![p] = s]
  BY <1>1, <1>2
<1> HIDE DEF s
<1> QED
  BY <1>1, <1>3, <1>4 DEF Types, Took

LEMMA LeaveFacts ==
  ASSUME Types, NEW p \in Process, Leave(p)
  PROVE  Left(p)
  BY IdleType DEF Leave, Types, Left

LEMMA ForcedRow ==
  ASSUME NEW r \in Row
  PROVE  LET n == [r EXCEPT !.lastRun = 0, !.reserved = 0] IN n \in Row /\ n.reserved = 0
<1> DEFINE m == [r EXCEPT !.lastRun = 0]
<1>1. m \in Row
  BY DEF Row
<1> HIDE DEF m
<1> DEFINE n == [m EXCEPT !.reserved = 0]
<1>2. n \in Row /\ n.reserved = 0
  BY <1>1 DEF Row
<1>3. n = [r EXCEPT !.lastRun = 0, !.reserved = 0]
  BY DEF m
<1> HIDE DEF n
<1> QED
  BY <1>2, <1>3

LEMMA ReservedRow ==
  ASSUME NEW r \in Row, NEW time \in Nat
  PROVE  LET n == [r EXCEPT !.reserved = time, !.checked = time] IN n \in Row /\ n.reserved = time
<1> DEFINE m == [r EXCEPT !.reserved = time]
<1>1. m \in Row /\ m.reserved = time
  BY DEF Row
<1> HIDE DEF m
<1> DEFINE n == [m EXCEPT !.checked = time]
<1>2. n \in Row /\ n.reserved = time
  BY <1>1 DEF Row
<1>3. n = [r EXCEPT !.reserved = time, !.checked = time]
  BY DEF m
<1> HIDE DEF n
<1> QED
  BY <1>2, <1>3

USE ConstantsAssumption

-----------------------------------------------------------------------------
(* Steps of a process.                                                      *)

LEMMA Numbers ==
  /\ SixHours \in Nat /\ TwelveHours \in Nat /\ TwoDays \in Nat /\ FourteenMinutes \in Nat
  /\ Start \in Nat /\ TwelveHours < Start /\ (Types => now \in Nat /\ now > 0)
  BY DEF Types

\* Nothing that a process knows about its row is undone by others.
LEMMA LocalStays ==
  ASSUME NEW p \in Process, Local(p), proc'[p] = proc[p], now \in Int, now' \in Int, now <= now',
         born \subseteq born', touched \subseteq touched', proc[p].seen \in Row \cup {NoRow},
         proc[p].when \in Int
  PROVE  Local(p)'
<1>1. Why({"called"}, proc[p].id) => Why({"called"}, proc[p].id)'
  BY DEF Why
<1>2. proc[p].seen \in Row => proc[p].seen.reserved \in Nat
  BY DEF Row
<1> QED
  BY <1>1, <1>2 DEF Local

LEMMA ExcusedStays ==
  ASSUME NEW i \in Id, touched \subseteq touched'
  PROVE  Excused(i) => Excused(i)'
  BY DEF Excused, Why

\* A step of p changes at most the row i, and p has nothing to do with others.
Frame(p, i) ==
  /\ \A q \in Process \ {p} : proc'[q] = proc[q]
  /\ \A x \in Id \ {i} : jobs'[x] = jobs[x] /\ runs'[x] = runs[x]
  /\ \A x \in Id \ {i} : ~Keeper(p, x) /\ ~Busy(p, x) /\ ~Running(p, x)
  /\ \A x \in Id \ {i} : ~Keeper(p, x)' /\ ~Busy(p, x)' /\ ~Running(p, x)' /\ ~Taking(p, x)'
  /\ now' = now /\ born' = born /\ crashes' = crashes
  /\ settled \subseteq settled' /\ touched \subseteq touched'

OwnedStep(p, i) ==
  jobs'[i] # NoRow /\ jobs'[i].reserved # 0 =>
    \/ Keeper(p, i)'
    \/ jobs[i] # NoRow /\ jobs[i].reserved # 0 /\ ~Keeper(p, i)

KeptStep(p, i) ==
  jobs'[i] = NoRow =>
    \/ i \in settled' \/ Running(p, i)'
    \/ jobs[i] = NoRow /\ ~Running(p, i)

LEMMA StepKeeps ==
  ASSUME Inv, NEW p \in Process, NEW i, Types', Local(p)', Frame(p, i),
         i \in Id => OwnedStep(p, i) /\ KeptStep(p, i) /\ Sole(i)'
  PROVE  Inv'
<1>1. ASSUME NEW q \in Process PROVE Local(q)'
  <2>1. CASE q = p
    BY <2>1
  <2>2. CASE q # p
    <3>1. Local(q) /\ proc[q].seen \in Row \cup {NoRow} /\ proc[q].when \in Int /\ now \in Int
      BY Numbers DEF Inv, Types, ProcType
    <3> QED  BY <2>2, <3>1, LocalStays DEF Frame
  <2> QED  BY <2>1, <2>2
<1>2. ASSUME NEW q \in Process \ {p}, NEW x \in Id
      PROVE  /\ Keeper(q, x)' <=> Keeper(q, x)
             /\ Running(q, x)' <=> Running(q, x)
             /\ Taking(q, x)' <=> Taking(q, x)
             /\ Holds(q, x)' <=> Holds(q, x)
             /\ Busy(q, x)' <=> Busy(q, x)
  BY DEF Frame, Keeper, Running, Taking, Holds, Busy
<1>3. ASSUME NEW x \in Id PROVE Owned(x)'
  <2>1. CASE x = i
    BY <1>2, <2>1 DEF Inv, Owned, OwnedStep, Frame
  <2>2. CASE x # i
    BY <1>2, <2>2 DEF Inv, Owned, Frame
  <2> QED  BY <2>1, <2>2
<1>4. ASSUME NEW x \in Id PROVE Kept(x)'
  <2>1. CASE x = i
    BY <1>2, <2>1 DEF Inv, Kept, KeptStep, Frame
  <2>2. CASE x # i
    BY <1>2, <2>2 DEF Inv, Kept, Frame
  <2> QED  BY <2>1, <2>2
<1>5. ASSUME NEW x \in Id, x # i PROVE Sole(x)'
  <2>1. Sole(x) /\ (Excused(x) => Excused(x)')
    BY ExcusedStays DEF Inv, Frame
  <2>2. ~Busy(p, x)' /\ ~Holds(p, x)' /\ ~Taking(p, x)'
    BY <1>5 DEF Frame, Busy
  <2>3. jobs'[x] = jobs[x] /\ runs'[x] = runs[x]
    BY <1>5 DEF Frame
  <2> QED  BY <1>2, <2>1, <2>2, <2>3 DEF Sole, Alone
<1> QED
  BY <1>1, <1>3, <1>4, <1>5 DEF Inv

\* A row that is there is row now; no other row is touched.
Rewrote(i, row) ==
  /\ jobs' \in [Id -> Row \cup {NoRow}]
  /\ jobs[i] = NoRow => jobs'[i] = NoRow
  /\ jobs[i] # NoRow => jobs'[i] = row /\ row \in Row
  /\ \A x \in Id \ {i} : jobs'[x] = jobs[x]

LEMMA UpdateFacts ==
  ASSUME Types, NEW i \in Id, NEW row, jobs[i] # NoRow => row \in Row, Update(i, row)
  PROVE  Rewrote(i, row)
  BY DEF Update, Types, Rewrote

LEMMA FreeFacts ==
  ASSUME Types, NEW i \in Id, Free(i)
  PROVE  /\ jobs' \in [Id -> Row \cup {NoRow}]
         /\ jobs'[i] = NoRow <=> jobs[i] = NoRow
         /\ jobs'[i] # NoRow => jobs'[i].reserved = 0
         /\ \A x \in Id \ {i} : jobs'[x] = jobs[x]
<1> DEFINE row == [jobs[i] EXCEPT !.reserved = 0]
<1>1. jobs[i] # NoRow => row \in Row /\ row.reserved = 0
  BY DEF Types, Row
<1>2. NoRow \notin Row
  BY DEF Row
<1> HIDE DEF row
<1>3. Update(i, row)
  BY DEF Free, row
<1> QED
  BY <1>1, <1>2, <1>3, UpdateFacts DEF Rewrote

LEMMA DeleteFacts ==
  ASSUME Types, NEW S \in SUBSET Id, Delete(S)
  PROVE  /\ jobs' \in [Id -> Row \cup {NoRow}]
         /\ \A x \in Id : jobs'[x] = IF x \in S THEN NoRow ELSE jobs[x]
  BY DEF Delete, Types

\* The facts about a process with a row in hand that the steps start from.
LEMMA InHand ==
  ASSUME Inv, NEW p \in Process, proc[p].at \notin {"idle", "select"}
  PROVE  /\ Types /\ Local(p) /\ Job(p) \in Id /\ Job(p) \in born
         /\ proc[p] \in ProcType /\ ClassOf[Job(p)] \in Class
         /\ jobs[Job(p)] \in Row \cup {NoRow} /\ now \in Nat /\ now > 0 /\ NoRow \notin Row
         /\ \A x \in Id \ {Job(p)} : ~Keeper(p, x) /\ ~Busy(p, x) /\ ~Running(p, x)
<1>1. Types /\ Local(p) /\ Job(p) \in Id /\ NoRow \notin Row
  BY DEF Inv, Local, Job, Row
<1>2. Job(p) \in born
  BY <1>1 DEF Local, Job
<1>3. \A x \in Id \ {Job(p)} : ~Keeper(p, x) /\ ~Busy(p, x) /\ ~Running(p, x)
  BY DEF Job, Keeper, Busy, Holds, Running
<1> QED
  BY <1>1, <1>2, <1>3, Numbers DEF Types

\* What the others do with a row is not changed by a step of p.
LEMMA OthersSame ==
  ASSUME NEW p \in Process, NEW i, \A q \in Process \ {p} : proc'[q] = proc[q]
  PROVE  \A q \in Process \ {p} : /\ Taking(q, i)' <=> Taking(q, i)
                                  /\ Holds(q, i)' <=> Holds(q, i)
                                  /\ Busy(q, i)' <=> Busy(q, i)
                                  /\ proc'[q] = proc[q]
  BY DEF Taking, Holds, Busy

\* A step of a process on the row in its hand.
LEMMA OwnRowKeeps ==
  ASSUME Inv, NEW p \in Process, proc[p].at \notin {"idle", "select"}, NEW i \in Id, i = Job(p),
         proc' \in [Process -> ProcType], \A q \in Process \ {p} : proc'[q] = proc[q],
         proc'[p].id \in {i, NoId},
         jobs' \in [Id -> Row \cup {NoRow}], \A x \in Id \ {i} : jobs'[x] = jobs[x],
         runs' \in [Id -> 0..2], \A x \in Id \ {i} : runs'[x] = runs[x],
         settled' \in SUBSET born, settled \subseteq settled',
         touched' \in SUBSET (Causes \X Id), touched \subseteq touched',
         Outside, Local(p)', OwnedStep(p, i), KeptStep(p, i),
         Alone(i) /\ ~Excused(i)' => Alone(i)'
  PROVE  Inv'
<1>1. /\ i \in born /\ Types
      /\ \A x \in Id \ {i} : ~Keeper(p, x) /\ ~Busy(p, x) /\ ~Running(p, x)
  BY InHand
<1>2. \A x \in Id \ {i} : ~Keeper(p, x)' /\ ~Busy(p, x)' /\ ~Running(p, x)' /\ ~Taking(p, x)'
  BY DEF Keeper, Busy, Holds, Running, Taking
<1>3. Frame(p, i)
  BY <1>1, <1>2 DEF Frame, Outside
<1>4. Types'
  BY <1>1 DEF Types, Outside
<1>5. Sole(i)'
  <2>1. Sole(i) /\ (Excused(i) => Excused(i)')
    BY ExcusedStays DEF Inv
  <2> QED  BY <2>1 DEF Sole
<1> QED
  BY <1>3, <1>4, <1>5, StepKeeps

\* The same for a step that has no part in the row before or after, and that
\* leaves the reservation alone.
LEMMA PassiveKeeps ==
  ASSUME Inv, NEW p \in Process, proc[p].at \in {"drop", "parallel", "bump", "reserve"},
         proc'[p].at \in {"select", "reserve"}, NEW i \in Id, i = Job(p),
         proc' \in [Process -> ProcType], \A q \in Process \ {p} : proc'[q] = proc[q],
         proc'[p].id = i,
         jobs' \in [Id -> Row \cup {NoRow}], \A x \in Id \ {i} : jobs'[x] = jobs[x],
         settled' \in SUBSET born, settled \subseteq settled', UNCHANGED <<runs, touched>>,
         Outside, Local(p)',
         jobs[i] = NoRow => jobs'[i] = NoRow,
         jobs'[i] # NoRow => jobs'[i].reserved = jobs[i].reserved,
         jobs'[i] = NoRow => jobs[i] = NoRow \/ i \in settled'
  PROVE  Inv'
<1>1. /\ ~Keeper(p, i) /\ ~Busy(p, i) /\ ~Running(p, i) /\ ~Holds(p, i)
      /\ ~Busy(p, i)' /\ ~Taking(p, i)' /\ ~Holds(p, i)'
  BY DEF Keeper, Busy, Holds, Running, Taking
<1>2. Alone(i) => Alone(i)'
  BY <1>1, OthersSame DEF Alone
<1>3. OwnedStep(p, i) /\ KeptStep(p, i)
  BY <1>1 DEF OwnedStep, KeptStep
<1>4. Types /\ runs' \in [Id -> 0..2] /\ touched' \in SUBSET (Causes \X Id)
  BY DEF Inv, Types
<1> QED
  BY <1>2, <1>3, <1>4, OwnRowKeeps

-----------------------------------------------------------------------------
(* One lemma per action: getNext.                                           *)

Outsider == {"idle", "select", "drop", "parallel", "bump", "reserve", "load"}

\* A step that writes no row, of a process that has reserved none.
LEMMA QuietKeeps ==
  ASSUME Inv, NEW p \in Process, proc[p].at \in Outsider, proc'[p].at \in Outsider,
         proc' \in [Process -> ProcType], \A q \in Process \ {p} : proc'[q] = proc[q],
         UNCHANGED <<jobs, born, now, client, calls, crashes, history>>,
         mode' \in {"ajax", "cron"}, Local(p)'
  PROVE  Inv'
<1>1. Types'
  BY DEF Inv, Types, history
<1>2. \A x : /\ ~Keeper(p, x) /\ ~Busy(p, x) /\ ~Running(p, x)
             /\ ~Keeper(p, x)' /\ ~Busy(p, x)' /\ ~Running(p, x)' /\ ~Taking(p, x)'
  BY DEF Keeper, Busy, Holds, Running, Taking, Outsider
<1>3. Frame(p, NoId)
  BY <1>2 DEF Frame, history
<1> QED
  BY <1>1, <1>3, StepKeeps

\* The process has row i in hand as it is now.
Found(p, i) ==
  /\ proc' \in [Process -> ProcType] /\ proc'[p].at = AfterSelect(ClassOf[i])
  /\ proc'[p].id = i /\ proc'[p].how = proc[p].how
  /\ proc'[p].seen = jobs[i] /\ proc'[p].when = now
  /\ \A q \in Process \ {p} : proc'[q] = proc[q]

LEMMA SelectMoves ==
  ASSUME Types, NEW p \in Process, NEW i \in Id, jobs[i] \in Row,
         proc' = [proc EXCEPT ![p] = [@ EXCEPT !.at = AfterSelect(ClassOf[i]),
                                               !.id = i, !.seen = jobs[i], !.when = now]]
  PROVE  Found(p, i) /\ AfterSelect(ClassOf[i]) \in {"drop", "parallel", "reserve"}
<1> DEFINE a == AfterSelect(ClassOf[i])
<1>1. a \in {"drop", "parallel", "reserve"}
  BY DEF AfterSelect
<1>2. proc' = [proc EXCEPT ![p] = [@ EXCEPT !.at = a, !.id = i, !.seen = jobs[i], !.when = now]]
  OBVIOUS
<1> HIDE DEF a
<1>3. a \in States
  BY <1>1 DEF States
<1>4. PICK old \in ProcType, at \in States, row \in Row, when \in Int :
        old = proc[p] /\ at = a /\ row = jobs[i] /\ when = now
  BY <1>3, Numbers DEF Types
<1> DEFINE s == [old EXCEPT !.at = at, !.id = i, !.seen = row, !.when = when]
<1>5. /\ s \in ProcType /\ s.at = at /\ s.id = i /\ s.how = old.how
      /\ s.seen = row /\ s.when = when
  BY DEF ProcType
<1>6. proc' = [proc EXCEPT ![p] = s]
  BY <1>2, <1>4
<1> HIDE DEF s
<1>7. Found(p, i)
  BY <1>4, <1>5, <1>6 DEF Types, Found, a
<1> QED
  BY <1>1, <1>7 DEF a

LEMMA SelectKeeps ==
  ASSUME Inv, NEW p \in Process, Select(p)
  PROVE  Inv'
<1>1. Types /\ Local(p) /\ proc[p].at = "select" /\ proc[p] \in ProcType
  BY DEF Inv, Types, Select
<1>2. UNCHANGED <<jobs, born, now, mode, client, calls, crashes, history>>
  BY DEF Select, Outside
<1>3. CASE Leave(p)
  <2>1. Left(p)
    BY <1>1, <1>3, LeaveFacts
  <2>2. Local(p)'
    BY <1>1, <1>2, <2>1, Numbers DEF Local, Left, Idle
  <2> QED  BY <1>1, <1>2, <2>1, <2>2, QuietKeeps DEF Left, Idle, Outsider, Types, Inv
<1>4. ASSUME NEW i \in Table(Id), Selectable(i),
             proc' = [proc EXCEPT ![p] = [@ EXCEPT !.at = AfterSelect(ClassOf[i]),
                                                   !.id = i, !.seen = jobs[i], !.when = now]]
      PROVE  Inv'
  <2>1. /\ i \in Id /\ i \in born /\ jobs[i] \in Row /\ now \in Nat
        /\ jobs[i].reserved <= now - TwelveHours
    BY <1>1, <1>4, Numbers DEF Table, Selectable, Types
  <2>2. Found(p, i) /\ AfterSelect(ClassOf[i]) \in {"drop", "parallel", "reserve"}
    BY <1>1, <1>4, <2>1, SelectMoves
  <2>3. AfterSelect(ClassOf[i]) = "parallel" => ClassOf[i] \in Exclusive
    BY DEF AfterSelect
  <2>4. Local(p)'
    BY <1>1, <1>2, <2>1, <2>2, <2>3, Numbers DEF Local, Idle, Found
  <2> QED  BY <1>1, <1>2, <2>2, <2>4, QuietKeeps DEF Outsider, Types, Found
<1> QED
  BY <1>3, <1>4 DEF Select

\* buildJob deletes the row of a class that is gone.
LEMMA DropKeeps ==
  ASSUME Inv, NEW p \in Process, Drop(p)
  PROVE  Inv'
<1>1. PICK i \in Id : i = Job(p)
  BY InHand DEF Drop
<1>2. /\ Types /\ Local(p) /\ proc[p].at = "drop" /\ proc[p].id = i /\ i \in born
      /\ settled \in SUBSET born
  BY <1>1, InHand DEF Drop, Job, Types
<1>3. Outside /\ UNCHANGED <<runs, touched>> /\ settled' = settled \cup {i}
  BY <1>1 DEF Drop
<1>4. Moved(p, "reserve")
  BY <1>2, GoFacts DEF Drop, States
<1>5. /\ jobs' \in [Id -> Row \cup {NoRow}]
      /\ \A x \in Id : jobs'[x] = IF x = i THEN NoRow ELSE jobs[x]
  BY <1>1, <1>2, DeleteFacts DEF Drop
<1>6. Local(p)'
  BY <1>2, <1>3, <1>4 DEF Local, Moved, Idle, Outside
<1>7. settled' \in SUBSET born
  BY <1>2, <1>3
<1> QED
  BY <1>1, <1>2, <1>3, <1>4, <1>5, <1>6, <1>7, PassiveKeeps DEF Moved

LEMMA CheckParallelKeeps ==
  ASSUME Inv, NEW p \in Process, CheckParallel(p)
  PROVE  Inv'
<1> DEFINE c == JobClass(p)  first == proc[p].visited[c]
<1>1. /\ Types /\ Local(p) /\ proc[p].at = "parallel" /\ Job(p) \in Id /\ c \in Exclusive
      /\ proc[p] \in ProcType
  BY InHand DEF CheckParallel, Local, JobClass, Job
<1>2. UNCHANGED <<jobs, born, now, mode, client, calls, crashes, history>>
  BY DEF CheckParallel, Outside
<1>3. first \in Id \cup {NoId}
  BY <1>1 DEF ProcType
<1>4. CASE Leave(p)
  <2>1. Left(p)
    BY <1>1, <1>4, LeaveFacts
  <2>2. Local(p)'
    BY <1>1, <1>2, <2>1, Numbers DEF Local, Left, Idle
  <2> QED  BY <1>1, <1>2, <2>1, <2>2, QuietKeeps DEF Left, Idle, Outsider, Types
<1>5. ASSUME NEW a \in {"reserve", "bump"}, NEW v \in Id \cup {NoId},
             proc' = [proc EXCEPT ![p].at = a, ![p].visited[c] = v]
      PROVE  Inv'
  <2> HIDE DEF c, first
  <2>4. Moved(p, a)
    <3>1. a \in States
      BY DEF States
    <3> QED  BY <1>1, <1>5, <3>1, VisitedMoves
  <2>5. Local(p)'
    BY <1>1, <1>2, <2>4 DEF Local, Moved, Idle
  <2> QED  BY <1>1, <1>2, <2>4, <2>5, QuietKeeps DEF Moved, Outsider, Types
<1> QED
  BY <1>1, <1>3, <1>4, <1>5 DEF CheckParallel, Job, JobClass

\* The new time of the next check is the only thing that is written.
LEMMA CheckedFacts ==
  ASSUME Types, NEW i \in Id, NEW time \in Int, Update(i, [jobs[i] EXCEPT !.checked = time])
  PROVE  /\ jobs' \in [Id -> Row \cup {NoRow}] /\ \A x \in Id \ {i} : jobs'[x] = jobs[x]
         /\ jobs'[i] = NoRow <=> jobs[i] = NoRow
         /\ jobs'[i] # NoRow => jobs'[i].reserved = jobs[i].reserved
<1> DEFINE row == [jobs[i] EXCEPT !.checked = time]
<1>1. jobs[i] # NoRow => row \in Row /\ row.reserved = jobs[i].reserved
  BY DEF Types, Row
<1>2. NoRow \notin Row
  BY DEF Row
<1>3. Update(i, row)
  OBVIOUS
<1> HIDE DEF row
<1> QED
  BY <1>1, <1>2, <1>3, UpdateFacts DEF Rewrote

\* Bump and Postpone: the row is put off and the process selects again.
LEMMA PutOffKeeps ==
  ASSUME Inv, NEW p \in Process, proc[p].at \in {"bump", "reserve"}, NEW i \in Id, i = Job(p),
         NEW time \in Int, Update(i, [jobs[i] EXCEPT !.checked = time]),
         Go(p, "select"), Outside, UNCHANGED history
  PROVE  Inv'
<1>1. /\ Types /\ Local(p) /\ proc[p].id = i /\ i \in born /\ settled \in SUBSET born
  BY InHand DEF Job, Types
<1>2. Moved(p, "select")
  BY <1>1, GoFacts DEF States
<1>3. /\ jobs' \in [Id -> Row \cup {NoRow}] /\ \A x \in Id \ {i} : jobs'[x] = jobs[x]
      /\ jobs'[i] = NoRow <=> jobs[i] = NoRow
      /\ jobs'[i] # NoRow => jobs'[i].reserved = jobs[i].reserved
  BY <1>1, CheckedFacts
<1>4. Local(p)'
  BY <1>1, <1>2 DEF Local, Moved, Idle, Outside
<1> QED
  BY <1>1, <1>2, <1>3, <1>4, PassiveKeeps DEF Moved, history

LEMMA BumpKeeps ==
  ASSUME Inv, NEW p \in Process, Bump(p)
  PROVE  Inv'
<1>1. PICK i \in Id : i = Job(p)
  BY InHand DEF Bump
<1>2. now + 1 \in Int
  BY Numbers DEF Inv
<1> QED
  BY <1>1, <1>2, PutOffKeeps DEF Bump

LEMMA PostponeKeeps ==
  ASSUME Inv, NEW p \in Process, Postpone(p)
  PROVE  Inv'
<1>1. PICK i \in Id : i = Job(p)
  BY InHand DEF Postpone
<1> DEFINE next == proc[p].seen.lastRun + Interval[JobClass(p)]
           time == IF next < now + TwoDays THEN next ELSE now + TwoDays
<1>2. time \in Int
  <2>1. proc[p].seen \in Row /\ now \in Nat
    BY InHand DEF Postpone, Local
  <2>2. Interval[JobClass(p)] \in Nat
    BY DEF Postpone, NotDue
  <2>3. next \in Int
    BY <2>1, <2>2 DEF Row
  <2> HIDE DEF next
  <2> QED  BY <2>1, <2>3, Numbers
<1>3. Update(i, [jobs[i] EXCEPT !.checked = time])
  BY <1>1 DEF Postpone
<1> HIDE DEF time
<1> QED
  BY <1>1, <1>2, <1>3, PutOffKeeps DEF Postpone

\* A reservation that was not twelve hours old has no holder; one that was
\* has none either, or its holder is put on record.
LEMMA ReserveKeeps ==
  ASSUME Inv, NEW p \in Process, Reserve(p)
  PROVE  Inv'
<1>1. PICK i \in Id : i = Job(p)
  BY InHand DEF Reserve
<1>2. /\ Types /\ Local(p) /\ proc[p].at = "reserve" /\ proc[p].id = i /\ i \in born
      /\ settled \in SUBSET born /\ now \in Nat /\ now > 0 /\ NoRow \notin Row
      /\ Outside /\ UNCHANGED <<runs, settled>>
  BY <1>1, InHand DEF Reserve, Job, Types
<1>3. CASE ~Unchanged(p)
  <2>1. Moved(p, "select") /\ UNCHANGED <<jobs, touched>>
    BY <1>2, <1>3, GoFacts DEF Reserve, States
  <2>2. Local(p)'
    BY <1>2, <2>1 DEF Local, Moved, Idle, Outside
  <2> QED
    BY <1>2, <2>1, <2>2, QuietKeeps DEF Moved, Outsider, Types, Outside, history
<1>4. CASE Unchanged(p)
  <2> DEFINE a == IF JobClass(p) \in Off \cup Gone THEN "reset" ELSE "take"
             row == [jobs[i] EXCEPT !.reserved = now, !.checked = now]
             old == IF jobs[i].reserved \in 1..(now - TwelveHours) THEN Unfreed(p) ELSE {}
  <2>1. a \in States /\ a \in {"reset", "take"} /\ (a = "reset" <=> ClassOf[i] \in Off \cup Gone)
    BY <1>1 DEF States, JobClass, Job
  <2>2. Update(i, row) /\ Go(p, a) /\ Blame("expired", old)
    BY <1>1, <1>4 DEF Reserve
  <2>3. /\ old \subseteq {i}
        /\ old = {} /\ jobs[i].reserved \in 1..(now - TwelveHours) => Unfreed(p) = {}
    BY <1>1 DEF Unfreed
  <2>4. jobs[i] \in Row /\ jobs[i].reserved = proc[p].seen.reserved
        /\ jobs[i].reserved <= now - TwelveHours /\ jobs[i].reserved \in Nat
    <3>1. jobs[i] \in Row /\ jobs[i].reserved = proc[p].seen.reserved
      BY <1>1, <1>2, <1>4 DEF Unchanged, Types
    <3>2. proc[p].seen.reserved <= now - TwelveHours
      BY <1>2 DEF Local
    <3> QED  BY <3>1, <3>2 DEF Row
  <2>5. row \in Row /\ row.reserved = now
    <3>1. PICK r \in Row, time \in Nat : r = jobs[i] /\ time = now
      BY <1>2, <2>4
    <3>2. LET n == [r EXCEPT !.reserved = time, !.checked = time] IN n \in Row /\ n.reserved = time
      BY ReservedRow
    <3> QED  BY <3>1, <3>2
  <2> HIDE DEF a, row
  <2>6. Moved(p, a)
    BY <1>2, <2>1, <2>2, GoFacts
  <2>7. /\ jobs' \in [Id -> Row \cup {NoRow}] /\ \A x \in Id \ {i} : jobs'[x] = jobs[x]
        /\ jobs'[i] # NoRow /\ jobs'[i].reserved = now
    BY <1>2, <2>2, <2>4, <2>5, UpdateFacts DEF Rewrote
  <2>8. touched' \in SUBSET (Causes \X Id) /\ touched \subseteq touched'
        /\ (i \in old => <<"expired", i>> \in touched')
    BY <1>2, <2>2, <2>3 DEF Blame, Causes, Types
  <2> HIDE DEF old
  <2>9. Local(p)'
    BY <1>2, <2>1, <2>6 DEF Local, Moved, Idle, Outside
  <2>10. ASSUME Alone(i), ~Excused(i)' PROVE Alone(i)'
    <3>1. old = {}
      BY <2>3, <2>8, <2>10 DEF Excused, Why, Causes
    <3>2. ASSUME NEW q \in Process \ {p} PROVE ~Busy(q, i)
      <4>1. CASE jobs[i].reserved = 0
        BY <1>2, <2>4, <2>10, <4>1 DEF Alone, Busy, Holds, Taking
      <4>2. CASE jobs[i].reserved # 0
        <5>1. Unfreed(p) = {}
          BY <2>3, <2>4, <3>1, <4>2, <1>2, Numbers
        <5> QED  BY <1>1, <5>1 DEF Unfreed, Busy, Holds
      <4> QED  BY <4>1, <4>2
    <3>3. ~Busy(p, i) /\ (ClassOf[i] \in Queued => runs[i] # 1)
      BY <1>2, <2>4, <2>10 DEF Alone, Busy, Holds
    <3>4. (Busy(p, i)' => Taking(p, i)') /\ (Taking(p, i)' => Holds(p, i)')
      BY <2>1, <2>6 DEF Busy, Holds, Taking, Moved
    <3> QED
      BY <1>2, <2>6, <2>7, <2>10, <3>2, <3>3, <3>4, OthersSame DEF Alone, Moved
  <2>11. OwnedStep(p, i) /\ KeptStep(p, i)
    BY <1>2, <2>1, <2>6, <2>7 DEF OwnedStep, KeptStep, Keeper, Moved, Local
  <2> QED
    BY <1>1, <1>2, <2>6, <2>7, <2>8, <2>9, <2>10, <2>11, OwnRowKeeps DEF Moved, Types
<1> QED
  BY <1>3, <1>4

\* Nobody works on a row of a disabled app but occ, and that is on record.
LEMMA ResetKeeps ==
  ASSUME Inv, NEW p \in Process, Reset(p)
  PROVE  Inv'
<1>1. PICK i \in Id : i = Job(p)
  BY InHand DEF Reset
<1>2. /\ Types /\ Local(p) /\ proc[p].at = "reset" /\ proc[p].id = i /\ i \in born
      /\ settled \in SUBSET born /\ now \in Nat /\ NoRow \notin Row
      /\ jobs[i] \in Row \cup {NoRow}
      /\ Outside /\ UNCHANGED <<runs, settled, touched>>
  BY <1>1, InHand DEF Reset, Job, Types, history
<1>3. Moved(p, "select")
  BY <1>2, GoFacts DEF Reset, States
<1> DEFINE row == [jobs[i] EXCEPT !.reserved = 0, !.checked = now + TwelveHours]
<1>4. jobs[i] # NoRow => row \in Row /\ row.reserved = 0
  <2> SUFFICES ASSUME jobs[i] # NoRow PROVE row \in Row /\ row.reserved = 0
    OBVIOUS
  <2>1. PICK r \in Row, time \in Int : r = jobs[i] /\ time = now + TwelveHours
    BY <1>2, Numbers
  <2>2. LET n == [r EXCEPT !.reserved = 0, !.checked = time] IN n \in Row /\ n.reserved = 0
    BY DEF Row
  <2> QED  BY <2>1, <2>2
<1>5. Update(i, row)
  BY <1>1 DEF Reset
<1> HIDE DEF row
<1>6. /\ jobs' \in [Id -> Row \cup {NoRow}] /\ \A x \in Id \ {i} : jobs'[x] = jobs[x]
      /\ jobs'[i] = NoRow <=> jobs[i] = NoRow
      /\ jobs'[i] # NoRow => jobs'[i].reserved = 0
  BY <1>2, <1>4, <1>5, UpdateFacts DEF Rewrote
<1>7. Local(p)'
  BY <1>2, <1>3 DEF Local, Moved, Idle, Outside
<1>8. OwnedStep(p, i) /\ KeptStep(p, i)
  BY <1>2, <1>6 DEF OwnedStep, KeptStep, Running
<1>9. ASSUME Alone(i), ~Excused(i)' PROVE Alone(i)'
  <2>1. ClassOf[i] \in Off \cup Gone
    BY <1>2 DEF Local
  <2>2. ASSUME NEW q \in Process PROVE ~Holds(q, i)
    <3>1. Local(q) /\ ~Why({"called"}, i)
      BY <1>2, <1>9 DEF Inv, Excused, Why, Causes
    <3> QED  BY <2>1, <3>1 DEF Local, Holds
  <2>3. ~Busy(p, i)' /\ ~Holds(p, i)' /\ ~Taking(p, i)'
    BY <1>3 DEF Busy, Holds, Taking, Moved
  <2> QED
    BY <1>2, <1>3, <1>6, <1>9, <2>2, <2>3, OthersSame DEF Alone, Moved
<1> QED
  BY <1>1, <1>2, <1>3, <1>6, <1>7, <1>8, <1>9, OwnRowKeeps DEF Moved, Types

-----------------------------------------------------------------------------
(* One lemma per action: the loop and the jobs.                             *)

\* The facts that the steps from "take", "running" and "done" start from.
LEMMA OnJob ==
  ASSUME Inv, NEW p \in Process, proc[p].at \in {"take", "running", "done"},
         NEW i \in Id, i = Job(p)
  PROVE  /\ Types /\ Local(p) /\ proc[p].id = i /\ i \in born /\ settled \in SUBSET born
         /\ now \in Nat /\ NoRow \notin Row /\ jobs[i] \in Row \cup {NoRow}
         /\ runs \in [Id -> 0..2] /\ touched \in SUBSET (Causes \X Id)
         /\ proc[p].how = "occ" => Excused(i)
<1>1. proc[p].at \notin {"idle", "select"}
  OBVIOUS
<1>2. /\ Types /\ Local(p) /\ proc[p].id = i /\ i \in born /\ settled \in SUBSET born
      /\ now \in Nat /\ NoRow \notin Row /\ jobs[i] \in Row \cup {NoRow}
      /\ runs \in [Id -> 0..2] /\ touched \in SUBSET (Causes \X Id)
  BY <1>1, InHand DEF Types, Job
<1>3. proc[p].how = "occ" => Why({"called"}, i)
  BY <1>2 DEF Local
<1> QED
  BY <1>2, <1>3 DEF Excused, Why, Causes

\* A row that is in nobody's hand but that of p, and that p lets go of.
LEMMA LetGo ==
  ASSUME Inv, NEW p \in Process, NEW i \in Id, Alone(i), Busy(p, i),
         \A q \in Process \ {p} : proc'[q] = proc[q],
         ~Busy(p, i)' \/ (ClassOf[i] \in Queued /\ ~Holds(p, i)' /\ runs[i] = 1),
         runs'[i] = runs[i], jobs[i] = NoRow => jobs'[i] = NoRow, ~Taking(p, i)'
  PROVE  Alone(i)'
<1>1. \A q \in Process \ {p} : ~Busy(q, i)' /\ ~Holds(q, i)' /\ ~Taking(q, i)'
  BY OthersSame DEF Alone, Busy, Holds, Taking
<1>2. ~Holds(p, i)'
  BY DEF Busy
<1> QED
  BY <1>1, <1>2 DEF Alone

LEMMA RevisitKeeps ==
  ASSUME Inv, NEW p \in Process, Revisit(p)
  PROVE  Inv'
<1>1. PICK i \in Id : i = Job(p)
  BY InHand DEF Revisit
<1>2. /\ Types /\ Local(p) /\ proc[p].at = "take" /\ proc[p].id = i /\ i \in born
      /\ settled \in SUBSET born /\ runs \in [Id -> 0..2] /\ touched \in SUBSET (Causes \X Id)
      /\ Outside /\ UNCHANGED <<runs, settled, touched>>
  BY <1>1, OnJob DEF Revisit, history
<1>3. Left(p)
  BY <1>2, LeaveFacts DEF Revisit
<1>4. /\ jobs' \in [Id -> Row \cup {NoRow}] /\ \A x \in Id \ {i} : jobs'[x] = jobs[x]
      /\ jobs'[i] = NoRow <=> jobs[i] = NoRow
      /\ jobs'[i] # NoRow => jobs'[i].reserved = 0
  BY <1>1, <1>2, FreeFacts DEF Revisit
<1>5. Local(p)'
  BY <1>2, <1>3, Numbers DEF Local, Left, Idle, Outside
<1>6. Busy(p, i) /\ ~Busy(p, i)' /\ ~Taking(p, i)'
  BY <1>2, <1>3 DEF Busy, Holds, Taking, Left, Idle
<1>7. OwnedStep(p, i) /\ KeptStep(p, i)
  BY <1>2, <1>4 DEF OwnedStep, KeptStep, Running
<1>8. Alone(i) => Alone(i)'
  BY <1>2, <1>3, <1>4, <1>6, LetGo DEF Left
<1> QED
  BY <1>1, <1>2, <1>3, <1>4, <1>5, <1>7, <1>8, OwnRowKeeps DEF Left, Idle

LEMMA SkipKeeps ==
  ASSUME Inv, NEW p \in Process, Skip(p)
  PROVE  Inv'
<1>1. PICK i \in Id : i = Job(p)
  BY InHand DEF Skip, New
<1>2. /\ Types /\ Local(p) /\ proc[p].at = "take" /\ proc[p].id = i /\ i \in born
      /\ settled \in SUBSET born /\ runs \in [Id -> 0..2] /\ touched \in SUBSET (Causes \X Id)
      /\ Outside /\ UNCHANGED <<jobs, runs, settled, touched>> /\ ClassOf[i] \notin Queued
  BY <1>1, OnJob DEF Skip, New, history, JobClass, Job
<1>3. Moved(p, "done")
  BY <1>2, GoFacts DEF Skip, States
<1>4. jobs' \in [Id -> Row \cup {NoRow}]
  BY <1>2 DEF Types
<1>5. Local(p)'
  BY <1>2, <1>3 DEF Local, Moved, Idle, Outside, Why
<1>6. Busy(p, i) /\ ~Busy(p, i)' /\ ~Taking(p, i)'
  BY <1>2, <1>3 DEF Busy, Holds, Taking, Moved
<1>7. OwnedStep(p, i) /\ KeptStep(p, i)
  BY <1>2, <1>3 DEF OwnedStep, KeptStep, Running, Keeper, Moved
<1>8. Alone(i) => Alone(i)'
  BY <1>2, <1>3, <1>4, <1>6, LetGo DEF Moved
<1> QED
  BY <1>1, <1>2, <1>3, <1>4, <1>5, <1>7, <1>8, OwnRowKeeps DEF Moved

LEMMA CountFacts ==
  ASSUME Types, NEW i \in Id, Count(i)
  PROVE  /\ runs' \in [Id -> 0..2] /\ \A x \in Id \ {i} : runs'[x] = runs[x]
         /\ runs[i] = 0 => runs'[i] = 1
<1>1. runs \in [Id -> 0..2] /\ runs[i] \in 0..2
  BY DEF Types
<1> DEFINE n == IF runs[i] = 2 THEN 2 ELSE runs[i] + 1
<1>2. n \in 0..2 /\ (runs[i] = 0 => n = 1)
  BY <1>1
<1>3. runs' = [runs EXCEPT ![i] = n]
  BY DEF Count
<1> HIDE DEF n
<1> QED
  BY <1>1, <1>2, <1>3

\* The job starts: last_run is now, the reservation stays.
LEMMA RunKeptKeeps ==
  ASSUME Inv, NEW p \in Process, RunKept(p)
  PROVE  Inv'
<1>1. PICK i \in Id : i = Job(p)
  BY InHand DEF RunKept, New
<1>2. /\ Types /\ Local(p) /\ proc[p].at = "take" /\ proc[p].id = i /\ i \in born
      /\ settled \in SUBSET born /\ touched \in SUBSET (Causes \X Id)
      /\ now \in Nat /\ NoRow \notin Row /\ jobs[i] \in Row \cup {NoRow}
      /\ Outside /\ UNCHANGED <<settled, touched>> /\ ClassOf[i] \notin Queued
  BY <1>1, OnJob DEF RunKept, New, JobClass, Job
<1>3. Moved(p, "running")
  BY <1>2, GoFacts DEF RunKept, States
<1> DEFINE row == [jobs[i] EXCEPT !.lastRun = now]
<1>4. jobs[i] # NoRow => row \in Row /\ row.reserved = jobs[i].reserved
  <2> SUFFICES ASSUME jobs[i] # NoRow PROVE row \in Row /\ row.reserved = jobs[i].reserved
    OBVIOUS
  <2>1. PICK r \in Row, time \in Int : r = jobs[i] /\ time = now
    BY <1>2
  <2>2. LET n == [r EXCEPT !.lastRun = time] IN n \in Row /\ n.reserved = r.reserved
    BY DEF Row
  <2> QED  BY <2>1, <2>2
<1>5. Update(i, row) /\ Count(i)
  BY <1>1 DEF RunKept
<1> HIDE DEF row
<1>6. /\ jobs' \in [Id -> Row \cup {NoRow}] /\ \A x \in Id \ {i} : jobs'[x] = jobs[x]
      /\ jobs'[i] = NoRow <=> jobs[i] = NoRow
      /\ jobs'[i] # NoRow => jobs'[i].reserved = jobs[i].reserved
  BY <1>2, <1>4, <1>5, UpdateFacts DEF Rewrote
<1>7. Local(p)'
  BY <1>2, <1>3 DEF Local, Moved, Idle, Outside, Why
<1>8. /\ Busy(p, i) /\ Holds(p, i) /\ Busy(p, i)' /\ Holds(p, i)' /\ Running(p, i)'
      /\ Keeper(p, i) => Keeper(p, i)'
  BY <1>2, <1>3 DEF Busy, Holds, Moved, Running, Keeper
<1>9. OwnedStep(p, i) /\ KeptStep(p, i)
  BY <1>6, <1>8 DEF OwnedStep, KeptStep
<1>10. Alone(i) => Alone(i)'
  BY <1>2, <1>3, <1>6, <1>8, OthersSame DEF Alone, Moved
<1> QED
  BY <1>1, <1>2, <1>3, <1>5, <1>6, <1>7, <1>9, <1>10, CountFacts, OwnRowKeeps DEF Moved

\* The row goes first; it was not run before.
LEMMA RunQueuedKeeps ==
  ASSUME Inv, NEW p \in Process, RunQueued(p)
  PROVE  Inv'
<1>1. PICK i \in Id : i = Job(p)
  BY InHand DEF RunQueued, New
<1>2. /\ Types /\ Local(p) /\ proc[p].at = "take" /\ proc[p].id = i /\ i \in born
      /\ settled \in SUBSET born /\ touched \in SUBSET (Causes \X Id)
      /\ Outside /\ UNCHANGED <<settled, touched>> /\ ClassOf[i] \in Queued
  BY <1>1, OnJob DEF RunQueued, New, JobClass, Job
<1>3. Moved(p, "running")
  BY <1>2, GoFacts DEF RunQueued, States
<1>4. /\ jobs' \in [Id -> Row \cup {NoRow}] /\ \A x \in Id \ {i} : jobs'[x] = jobs[x]
      /\ jobs'[i] = NoRow
  BY <1>1, <1>2, DeleteFacts DEF RunQueued
<1>5. /\ runs' \in [Id -> 0..2] /\ \A x \in Id \ {i} : runs'[x] = runs[x]
      /\ runs[i] = 0 => runs'[i] = 1
  BY <1>1, <1>2, CountFacts DEF RunQueued
<1>6. Local(p)'
  BY <1>2, <1>3 DEF Local, Moved, Idle, Outside, Why
<1>7. /\ Busy(p, i) /\ Taking(p, i) /\ Busy(p, i)' /\ ~Taking(p, i)' /\ Running(p, i)'
  BY <1>2, <1>3 DEF Busy, Holds, Taking, Moved, Running
<1>8. OwnedStep(p, i) /\ KeptStep(p, i)
  BY <1>4, <1>7 DEF OwnedStep, KeptStep
<1>9. ASSUME Alone(i) PROVE Alone(i)'
  <2>1. runs[i] = 0
    BY <1>2, <1>7, <1>9 DEF Alone
  <2>2. \A q \in Process \ {p} : ~Busy(q, i)' /\ ~Taking(q, i)' /\ ~Holds(q, i)'
    BY <1>3, <1>7, <1>9, OthersSame DEF Alone, Moved, Busy, Holds, Taking
  <2> QED
    BY <1>4, <1>5, <1>7, <2>1, <2>2 DEF Alone
<1> QED
  BY <1>1, <1>2, <1>3, <1>4, <1>5, <1>6, <1>8, <1>9, OwnRowKeeps DEF Moved

\* Blame adds the pairs of one cause with the row.
LEMMA BlameFacts ==
  ASSUME Types, NEW why \in Causes, NEW i \in Id, NEW S \in SUBSET {i}, Blame(why, S)
  PROVE  /\ touched' \in SUBSET (Causes \X Id) /\ touched \subseteq touched'
         /\ S # {} => <<why, i>> \in touched'
  BY DEF Blame, Types

LEMMA FinishKeeps ==
  ASSUME Inv, NEW p \in Process, Finish(p)
  PROVE  Inv'
<1>1. PICK i \in Id : i = Job(p)
  BY InHand DEF Finish
<1>2. /\ Types /\ Local(p) /\ proc[p].at = "running" /\ proc[p].id = i /\ i \in born
      /\ settled \in SUBSET born /\ runs \in [Id -> 0..2]
      /\ Outside /\ UNCHANGED runs /\ settled' = settled \cup {i}
      /\ Blame("unlocked", Others(p)) /\ Others(p) \in SUBSET {i} /\ "unlocked" \in Causes
  BY <1>1, OnJob DEF Finish, Others, Causes
<1>3. Moved(p, "done")
  BY <1>2, GoFacts DEF Finish, States
<1>4. /\ jobs' \in [Id -> Row \cup {NoRow}] /\ \A x \in Id \ {i} : jobs'[x] = jobs[x]
      /\ jobs'[i] = NoRow <=> jobs[i] = NoRow
      /\ jobs'[i] # NoRow => jobs'[i].reserved = 0
  BY <1>1, <1>2, FreeFacts DEF Finish
<1>5. /\ touched' \in SUBSET (Causes \X Id) /\ touched \subseteq touched'
      /\ Others(p) # {} => <<"unlocked", i>> \in touched'
  <2>1. PICK S \in SUBSET {i} : S = Others(p)
    BY <1>2
  <2> QED  BY <1>2, <2>1, BlameFacts
<1>6. Local(p)'
  BY <1>2, <1>3, <1>5 DEF Local, Moved, Idle, Outside, Why
<1>7. /\ Busy(p, i) /\ ~Taking(p, i) /\ ~Taking(p, i)' /\ ~Holds(p, i)'
      /\ ClassOf[i] \notin Queued => ~Busy(p, i)'
  BY <1>2, <1>3 DEF Busy, Holds, Taking, Moved
<1>8. OwnedStep(p, i) /\ KeptStep(p, i)
  BY <1>2, <1>4 DEF OwnedStep, KeptStep
<1>9. ASSUME Alone(i) PROVE Alone(i)'
  <2>1. ClassOf[i] \in Queued => runs[i] = 1
    BY <1>7, <1>9 DEF Alone
  <2> QED
    BY <1>2, <1>3, <1>4, <1>7, <1>9, <2>1, LetGo DEF Moved
<1>10. settled' \in SUBSET born
  BY <1>2
<1> QED
  BY <1>1, <1>2, <1>3, <1>4, <1>5, <1>6, <1>8, <1>9, <1>10, OwnRowKeeps DEF Moved

LEMMA ThrowKeeps ==
  ASSUME Inv, NEW p \in Process, Throw(p)
  PROVE  Inv'
<1>1. PICK i \in Id : i = Job(p)
  BY InHand DEF Throw
<1>2. /\ Types /\ Local(p) /\ proc[p].at = "running" /\ proc[p].id = i /\ i \in born
      /\ settled \in SUBSET born /\ runs \in [Id -> 0..2] /\ touched \in SUBSET (Causes \X Id)
      /\ Outside /\ UNCHANGED <<jobs, runs, touched>> /\ settled' = settled \cup {i}
  BY <1>1, OnJob DEF Throw
<1>3. Moved(p, "done")
  BY <1>2, GoFacts DEF Throw, States
<1>4. jobs' \in [Id -> Row \cup {NoRow}]
  BY <1>2 DEF Types
<1>5. Local(p)'
  BY <1>2, <1>3 DEF Local, Moved, Idle, Outside, Why
<1>6. /\ Busy(p, i) /\ ~Taking(p, i) /\ ~Taking(p, i)' /\ ~Holds(p, i)'
      /\ ClassOf[i] \notin Queued => ~Busy(p, i)'
      /\ Keeper(p, i) => Keeper(p, i)'
  BY <1>2, <1>3 DEF Busy, Holds, Taking, Moved, Keeper
<1>7. OwnedStep(p, i) /\ KeptStep(p, i)
  BY <1>2, <1>6 DEF OwnedStep, KeptStep
<1>8. ASSUME Alone(i) PROVE Alone(i)'
  <2>1. ClassOf[i] \in Queued => runs[i] = 1
    BY <1>6, <1>8 DEF Alone
  <2> QED
    BY <1>2, <1>3, <1>4, <1>6, <1>8, <2>1, LetGo DEF Moved
<1>9. settled' \in SUBSET born
  BY <1>2
<1> QED
  BY <1>1, <1>2, <1>3, <1>4, <1>5, <1>7, <1>8, <1>9, OwnRowKeeps DEF Moved

\* The row is freed, whoever has it by now; that it had somebody is on record,
\* and nobody else can have the row of a queued job.
LEMMA SetLastJobKeeps ==
  ASSUME Inv, NEW p \in Process, SetLastJob(p)
  PROVE  Inv'
<1>1. PICK i \in Id : i = Job(p)
  BY InHand DEF SetLastJob
<1>2. /\ Types /\ Local(p) /\ proc[p].at = "done" /\ proc[p].id = i /\ i \in born
      /\ settled \in SUBSET born /\ runs \in [Id -> 0..2]
      /\ Outside /\ UNCHANGED <<runs, settled>>
      /\ Blame("unlocked", Others(p)) /\ Others(p) \in SUBSET {i} /\ "unlocked" \in Causes
  BY <1>1, OnJob DEF SetLastJob, Others, Causes
<1>3. Moved(p, "select") \/ Left(p)
  <2>1. CASE proc' = [proc EXCEPT ![p].at = "select", ![p].executed = @ \cup {i}]
    BY <1>2, <2>1, ExecutedMoves
  <2>2. CASE Leave(p)
    BY <1>2, <2>2, LeaveFacts
  <2> QED  BY <1>1, <2>1, <2>2 DEF SetLastJob
<1>4. /\ proc' \in [Process -> ProcType] /\ \A q \in Process \ {p} : proc'[q] = proc[q]
      /\ proc'[p].id \in {i, NoId} /\ proc'[p].at \in {"idle", "select"}
  BY <1>2, <1>3 DEF Moved, Left, Idle
<1>5. /\ jobs' \in [Id -> Row \cup {NoRow}] /\ \A x \in Id \ {i} : jobs'[x] = jobs[x]
      /\ jobs'[i] = NoRow <=> jobs[i] = NoRow
      /\ jobs'[i] # NoRow => jobs'[i].reserved = 0
  BY <1>1, <1>2, FreeFacts DEF SetLastJob
<1>6. /\ touched' \in SUBSET (Causes \X Id) /\ touched \subseteq touched'
      /\ Others(p) # {} => <<"unlocked", i>> \in touched'
  <2>1. PICK S \in SUBSET {i} : S = Others(p)
    BY <1>2
  <2> QED  BY <1>2, <2>1, BlameFacts
<1>7. Local(p)'
  <2>1. CASE Moved(p, "select")
    BY <1>2, <1>6, <2>1 DEF Local, Moved, Idle, Outside, SetLastJob
  <2>2. CASE Left(p)
    BY <1>2, <2>2, Numbers DEF Local, Left, Idle, Outside
  <2> QED  BY <1>3, <2>1, <2>2
<1>8. ~Busy(p, i)' /\ ~Taking(p, i)' /\ ~Holds(p, i)' /\ ~Holds(p, i) /\ ~Taking(p, i)
  BY <1>2, <1>4 DEF Busy, Holds, Taking
<1>9. OwnedStep(p, i) /\ KeptStep(p, i)
  BY <1>2, <1>5 DEF OwnedStep, KeptStep, Running
<1>10. ASSUME Alone(i), ~Excused(i)' PROVE Alone(i)'
  <2>1. CASE ClassOf[i] \in Queued
    <3>1. Busy(p, i)
      BY <1>2, <2>1 DEF Busy
    <3> QED  BY <1>2, <1>4, <1>5, <1>8, <1>10, <3>1, LetGo
  <2>2. CASE ClassOf[i] \notin Queued
    <3>1. Others(p) = {}
      BY <1>6, <1>10, <2>2 DEF Excused, Why, Causes
    <3>2. \A q \in Process : ~Holds(q, i)
      BY <1>1, <1>8, <3>1 DEF Others
    <3>3. \A q \in Process : ~Busy(q, i)' /\ ~Holds(q, i)'
      BY <1>4, <1>8, <2>2, <3>2, OthersSame DEF Busy
    <3> QED  BY <2>2, <3>3 DEF Alone
  <2> QED  BY <2>1, <2>2
<1>11. settled' \in SUBSET born
  BY <1>2
<1> QED
  BY <1>1, <1>2, <1>4, <1>5, <1>6, <1>7, <1>9, <1>10, <1>11, OwnRowKeeps

-----------------------------------------------------------------------------
(* occ background-job:execute.                                              *)

LEMMA ExecutedKeeps ==
  ASSUME Inv, NEW p \in Process, Executed(p)
  PROVE  Inv'
<1>1. PICK i \in Id : i = Job(p)
  BY InHand DEF Executed
<1>2. /\ Types /\ Local(p) /\ proc[p].at = "done" /\ proc[p].how = "occ" /\ proc[p].id = i
      /\ i \in born /\ settled \in SUBSET born /\ runs \in [Id -> 0..2]
      /\ touched \in SUBSET (Causes \X Id)
      /\ Outside /\ UNCHANGED <<jobs, runs, settled, touched>> /\ Excused(i)
  BY <1>1, OnJob DEF Executed, history
<1>3. Left(p)
  BY <1>2, LeaveFacts DEF Executed
<1>4. jobs' \in [Id -> Row \cup {NoRow}]
  BY <1>2 DEF Types
<1>5. Local(p)'
  BY <1>2, <1>3, Numbers DEF Local, Left, Idle, Outside
<1>6. OwnedStep(p, i) /\ KeptStep(p, i)
  BY <1>2 DEF OwnedStep, KeptStep, Running, Keeper
<1>7. Excused(i)'
  BY <1>2, ExcusedStays
<1> QED
  BY <1>1, <1>2, <1>3, <1>4, <1>5, <1>6, <1>7, OwnRowKeeps DEF Left, Idle

LEMMA LoadKeeps ==
  ASSUME Inv, NEW p \in Process, Load(p)
  PROVE  Inv'
<1>1. PICK i \in Id : i = Job(p)
  BY InHand DEF Load
<1>2. /\ Types /\ Local(p) /\ proc[p].at = "load" /\ proc[p].id = i
      /\ i \in born /\ jobs[i] \in Row \cup {NoRow}
      /\ Outside /\ UNCHANGED <<jobs, runs, settled, touched>>
  BY <1>1, InHand DEF Load, history, Job
<1>3. proc[p].how = "occ" /\ Why({"called"}, i)
  BY <1>2 DEF Local
<1>4. CASE Leave(p)
  <2>1. Left(p)
    BY <1>2, <1>4, LeaveFacts
  <2>2. Local(p)'
    BY <1>2, <2>1, Numbers DEF Local, Left, Idle, Outside
  <2> QED
    BY <1>2, <2>1, <2>2, QuietKeeps DEF Left, Idle, Outsider, Types, Outside, history
<1>5. CASE jobs[i] # NoRow /\ proc' = [proc EXCEPT ![p].at = "take", ![p].seen = jobs[i]]
  <2>1. PICK row \in Row : row = jobs[i]
    BY <1>2, <1>5
  <2>2. proc' = [proc EXCEPT ![p].at = "take", ![p].seen = row]
    BY <1>5, <2>1
  <2>3. Took(p, "take", proc[p].how, proc[p].id, row)
    BY <1>2, <2>2, LoadMoves
  <2>4. Local(p)'
    BY <1>2, <1>3, <2>3 DEF Local, Took, Idle, Outside, Why
  <2>5. OwnedStep(p, i) /\ KeptStep(p, i)
    BY <1>2, <1>3 DEF OwnedStep, KeptStep, Running, Keeper
  <2>6. Excused(i)'
    BY <1>2, <1>3 DEF Excused, Why, Causes
  <2>7. /\ jobs' \in [Id -> Row \cup {NoRow}] /\ settled' \in SUBSET born
        /\ runs' \in [Id -> 0..2] /\ touched' \in SUBSET (Causes \X Id)
    BY <1>2 DEF Types
  <2> QED
    BY <1>1, <1>2, <2>3, <2>4, <2>5, <2>6, <2>7, OwnRowKeeps DEF Took
<1> QED
  BY <1>1, <1>4, <1>5 DEF Load

LEMMA ExecuteKeeps ==
  ASSUME Inv, NEW p \in Process, NEW i \in Id, Execute(p, i)
  PROVE  Inv'
<1>1. /\ Types /\ Local(p) /\ proc[p] = Idle /\ jobs[i] # NoRow /\ jobs[i] \in Row
      /\ i \in born /\ calls < MaxCalls /\ calls' = calls + 1
      /\ UNCHANGED <<born, now, mode, crashes, client, runs, settled>>
      /\ touched' = touched \cup {<<"called", i>>}
  BY DEF Execute, Inv, Types, Called, Quiet, Blame
<1>2. Took(p, "load", "occ", i, proc[p].seen)
  BY <1>1, ExecuteMoves DEF Execute
<1>3. /\ jobs' \in [Id -> Row \cup {NoRow}] /\ \A x \in Id \ {i} : jobs'[x] = jobs[x]
      /\ jobs'[i] # NoRow /\ (jobs'[i].reserved = jobs[i].reserved \/ jobs'[i].reserved = 0)
  <2>1. CASE UNCHANGED jobs
    BY <1>1, <2>1 DEF Types
  <2>2. CASE Update(i, [jobs[i] EXCEPT !.lastRun = 0, !.reserved = 0])
    <3> DEFINE row == [jobs[i] EXCEPT !.lastRun = 0, !.reserved = 0]
    <3>1. row \in Row /\ row.reserved = 0
      BY <1>1, ForcedRow
    <3>2. Update(i, row) /\ NoRow \notin Row
      BY <2>2 DEF Row
    <3> HIDE DEF row
    <3> QED  BY <1>1, <3>1, <3>2, UpdateFacts DEF Rewrote
  <2> QED  BY <2>1, <2>2 DEF Execute
<1>4. touched' \in SUBSET (Causes \X Id) /\ touched \subseteq touched' /\ Why({"called"}, i)'
  BY <1>1 DEF Types, Causes, Why
<1>5. Types'
  BY <1>1, <1>2, <1>3, <1>4 DEF Types, Took
<1>6. Local(p)'
  BY <1>1, <1>2, <1>4 DEF Local, Took, Idle
<1>7. Frame(p, i)
  BY <1>1, <1>2, <1>3, <1>4 DEF Frame, Took, Idle, Keeper, Busy, Holds, Running, Taking
<1>8. OwnedStep(p, i) /\ KeptStep(p, i)
  BY <1>1, <1>3 DEF OwnedStep, KeptStep, Keeper, Idle
<1>9. Sole(i)'
  BY <1>4 DEF Sole, Excused, Why
<1> QED
  BY <1>5, <1>6, <1>7, <1>8, <1>9, StepKeeps

-----------------------------------------------------------------------------
(* Processes that start and that are killed.                                *)

LEMMA StartCronKeeps ==
  ASSUME Inv, NEW p \in Process, StartCron(p)
  PROVE  Inv'
<1>1. /\ Types /\ Local(p) /\ proc[p] = Idle /\ now \in Nat
      /\ UNCHANGED <<jobs, born, now, client, calls, crashes, history>>
  BY Numbers DEF StartCron, Inv
<1>2. now + FourteenMinutes \in Int /\ mode' \in {"ajax", "cron"}
  BY <1>1, Numbers DEF StartCron, Types
<1>3. PICK how \in {"cron", "web"} : Took(p, "select", how, proc[p].id, proc[p].seen)
  BY <1>1, <1>2, StartMoves
<1>4. Local(p)'
  BY <1>1, <1>3 DEF Local, Took, Idle
<1> QED
  BY <1>1, <1>2, <1>3, <1>4, QuietKeeps DEF Took, Outsider, Idle

\* Nothing is promised for a row after a process was killed, but that it has
\* one holder.
LEMMA CrashKeeps ==
  ASSUME Inv, NEW p \in Process, Crash(p)
  PROVE  Inv'
<1>1. /\ Types /\ Local(p)
      /\ crashes' = crashes + 1 /\ crashes < MaxCrashes /\ crashes \in 0..MaxCrashes
      /\ UNCHANGED <<jobs, born, now, mode, client, calls, history>> /\ now \in Nat
  BY Numbers DEF Crash, Inv, Types
<1>2. Left(p)
  BY <1>1, LeaveFacts DEF Crash
<1>3. Types'
  BY <1>1, <1>2 DEF Types, Left, history
<1>4. Local(p)'
  BY <1>1, <1>2 DEF Local, Left, Idle
<1>5. ASSUME NEW q \in Process, q # p PROVE Local(q)'
  <2>1. Local(q) /\ proc[q].seen \in Row \cup {NoRow} /\ proc[q].when \in Int /\ now \in Int
    BY <1>1 DEF Inv, Types, ProcType
  <2> QED  BY <1>1, <1>2, <1>5, <2>1, LocalStays DEF Left, history
<1>6. ASSUME NEW x \in Id PROVE Owned(x)' /\ Kept(x)'
  <2>1. crashes' # 0
    BY <1>1
  <2> QED  BY <2>1 DEF Owned, Kept
<1>7. ASSUME NEW x \in Id PROVE Sole(x)'
  <2>1. Sole(x) /\ (Excused(x) => Excused(x)')
    BY <1>1, ExcusedStays DEF Inv, history
  <2>2. ~Busy(p, x)' /\ ~Holds(p, x)' /\ ~Taking(p, x)'
    BY <1>2 DEF Left, Idle, Busy, Holds, Taking
  <2> QED
    BY <1>1, <1>2, <2>1, <2>2, OthersSame DEF Sole, Alone, Left, history
<1> QED
  BY <1>3, <1>4, <1>5, <1>6, <1>7 DEF Inv

-----------------------------------------------------------------------------
(* Calls, and the clock: no process moves.                                  *)

RowSame(x) == jobs'[x] = jobs[x] /\ (x \in born' => x \in born)
RowKept(x) == Owned(x)' /\ Kept(x)' /\ (Alone(x) /\ ~Excused(x)' => Alone(x)')

LEMMA RowsKeep ==
  ASSUME Inv, Types', UNCHANGED <<proc, runs, crashes>>, now' \in Int, now <= now',
         born \subseteq born', settled \subseteq settled', touched \subseteq touched',
         \A x \in Id : RowSame(x) \/ RowKept(x)
  PROVE  Inv'
<1>1. ASSUME NEW q \in Process PROVE Local(q)'
  <2>1. Local(q) /\ proc[q].seen \in Row \cup {NoRow} /\ proc[q].when \in Int /\ now \in Int
    BY Numbers DEF Inv, Types, ProcType
  <2> QED  BY <2>1, LocalStays
<1>2. ASSUME NEW x \in Id
      PROVE  \A q \in Process : /\ Keeper(q, x)' <=> Keeper(q, x)
                                /\ Running(q, x)' <=> Running(q, x)
                                /\ Taking(q, x)' <=> Taking(q, x)
                                /\ Holds(q, x)' <=> Holds(q, x)
                                /\ Busy(q, x)' <=> Busy(q, x)
  BY DEF Keeper, Running, Taking, Holds, Busy
<1>3. ASSUME NEW x \in Id PROVE Owned(x)' /\ Kept(x)' /\ Sole(x)'
  <2>1. Owned(x) /\ Kept(x) /\ Sole(x) /\ (Excused(x) => Excused(x)')
    BY ExcusedStays DEF Inv
  <2>2. CASE RowKept(x)
    BY <2>1, <2>2 DEF Sole, RowKept
  <2>3. CASE RowSame(x)
    <3>1. jobs'[x] = jobs[x] /\ runs'[x] = runs[x] /\ (x \in born' => x \in born)
      BY <2>3 DEF RowSame
    <3>2. Owned(x)'
      BY <1>2, <2>1, <3>1 DEF Owned
    <3>3. Kept(x)'
      BY <1>2, <2>1, <3>1 DEF Kept
    <3>4. Alone(x) => Alone(x)'
      BY <1>2, <3>1 DEF Alone
    <3> QED  BY <2>1, <3>2, <3>3, <3>4 DEF Sole
  <2> QED  BY <2>2, <2>3
<1> QED
  BY <1>1, <1>3 DEF Inv

LEMMA BeginAddKeeps ==
  ASSUME Inv, NEW c \in Client, NEW k \in Key, BeginAdd(c, k)
  PROVE  Inv'
<1>1. /\ Types /\ calls' = calls + 1 /\ calls < MaxCalls /\ now \in Nat
      /\ UNCHANGED <<jobs, proc, born, now, mode, crashes, runs, settled, touched>>
  BY Numbers DEF BeginAdd, Inv, Called, Quiet, history
<1>2. PICK t \in {now, now + 1} :
        client' = [client EXCEPT ![c] = [key |-> {i \in Id : KeyOf[i] = k}, check |-> t,
          does |-> IF \E i \in Table(Id) : KeyOf[i] = k THEN "update" ELSE "insert"]]
  BY DEF BeginAdd
<1> DEFINE call == [key |-> {i \in Id : KeyOf[i] = k}, check |-> t,
          does |-> IF \E i \in Table(Id) : KeyOf[i] = k THEN "update" ELSE "insert"]
<1>3. call \in CallType
  <2>1. t \in Int
    BY <1>1
  <2> QED  BY <2>1 DEF CallType
<1>4. client' = [client EXCEPT ![c] = call]
  BY <1>2
<1> HIDE DEF call
<1>5. Types'
  BY <1>1, <1>3, <1>4 DEF Types
<1>6. \A x \in Id : RowSame(x)
  BY <1>1 DEF RowSame
<1>7. /\ UNCHANGED <<proc, runs, crashes>> /\ now' \in Int /\ now <= now'
      /\ born \subseteq born' /\ settled \subseteq settled' /\ touched \subseteq touched'
  BY <1>1
<1> QED
  BY <1>5, <1>6, <1>7, RowsKeep

LEMMA NoCallType == NoCall \in CallType
  BY DEF NoCall, CallType

\* A row that was never inserted is in nobody's hand and was never run.
LEMMA InsertKeeps ==
  ASSUME Inv, NEW c \in Client, Insert(c)
  PROVE  Inv'
<1>1. /\ Types /\ client[c] \in CallType /\ client[c].key \in SUBSET Id /\ client[c].check \in Int
      /\ UNCHANGED <<now, mode, proc, calls, crashes, runs, settled, touched>> /\ now \in Nat
      /\ client' = [client EXCEPT ![c] = NoCall]
  BY Numbers DEF Insert, Inv, Types, CallType, history
<1>2. PICK i \in client[c].key \ born :
        /\ jobs' = [jobs EXCEPT ![i] = [reserved |-> 0, checked |-> client[c].check, lastRun |-> 0]]
        /\ born' = born \cup {i}
  BY DEF Insert
<1> DEFINE row == [reserved |-> 0, checked |-> client[c].check, lastRun |-> 0]
<1>3. row \in Row /\ row.reserved = 0 /\ NoRow \notin Row
  BY <1>1 DEF Row
<1>4. jobs' = [jobs EXCEPT ![i] = row] /\ i \in Id /\ i \notin born
  BY <1>1, <1>2
<1> HIDE DEF row
<1>5. /\ jobs' \in [Id -> Row \cup {NoRow}] /\ jobs'[i] = row
      /\ \A x \in Id \ {i} : jobs'[x] = jobs[x]
  BY <1>1, <1>3, <1>4 DEF Types
<1>6. Types'
  BY <1>1, <1>2, <1>3, <1>4, <1>5, NoCallType DEF Types
<1>7. ~(runs[i] > 0) /\ runs[i] \in 0..2
  BY <1>1, <1>4 DEF Types
<1>8. \A q \in Process : proc[q].id # i
  BY <1>4 DEF Inv, Local
<1>9. Owned(i)' /\ Kept(i)'
  BY <1>3, <1>5 DEF Owned, Kept
<1>10. Alone(i)'
  BY <1>1, <1>7, <1>8 DEF Alone, Busy, Holds, Taking
<1>11. RowKept(i) /\ \A x \in Id \ {i} : RowSame(x)
  BY <1>2, <1>5, <1>9, <1>10 DEF RowKept, RowSame
<1>12. /\ UNCHANGED <<proc, runs, crashes>> /\ now' \in Int /\ now <= now'
       /\ born \subseteq born' /\ settled \subseteq settled' /\ touched \subseteq touched'
  BY <1>1, <1>2
<1> QED
  BY <1>6, <1>11, <1>12, RowsKeep

\* A row that is given away is blamed on the call, unless nobody has it.
LEMMA AddAgainKeeps ==
  ASSUME Inv, NEW c \in Client, AddAgain(c)
  PROVE  Inv'
<1>1. PICK S \in SUBSET Id : S = client[c].key
  BY DEF Inv, Types, CallType
<1>2. /\ Types /\ client[c].check \in Int /\ now \in Nat
      /\ UNCHANGED <<born, now, mode, proc, calls, crashes, runs, settled>>
      /\ client' = [client EXCEPT ![c] = NoCall]
  BY Numbers DEF AddAgain, Inv, Types, CallType
<1> DEFINE row == [reserved |-> 0, checked |-> client[c].check, lastRun |-> 0]
<1>3. row \in Row /\ row.reserved = 0 /\ NoRow \notin Row
  BY <1>2 DEF Row
<1>4. jobs' = [i \in Id |-> IF i \in Table(S) THEN row ELSE jobs[i]]
  BY <1>1 DEF AddAgain
<1> HIDE DEF row
<1>5. /\ jobs' \in [Id -> Row \cup {NoRow}]
      /\ \A x \in Id : IF x \in S /\ jobs[x] # NoRow THEN jobs'[x] = row ELSE jobs'[x] = jobs[x]
  BY <1>2, <1>3, <1>4 DEF Types, Table
<1>6. touched' = touched \cup {<<"called", i>> : i \in Held(S)} /\ Held(S) \subseteq Id
  BY <1>1 DEF AddAgain, Blame, Held
<1>7. Types'
  BY <1>2, <1>3, <1>5, <1>6, NoCallType DEF Types, Causes
<1>8. ASSUME NEW x \in Id PROVE RowSame(x) \/ RowKept(x)
  <2>1. CASE x \notin S \/ jobs[x] = NoRow
    BY <1>2, <1>5, <2>1 DEF RowSame
  <2>2. CASE x \in S /\ jobs[x] # NoRow
    <3>1. Owned(x)' /\ Kept(x)'
      BY <1>3, <1>5, <2>2 DEF Owned, Kept
    <3>2. ASSUME Alone(x), ~Excused(x)' PROVE Alone(x)'
      <4>1. x \notin Held(S)
        BY <1>6, <3>2 DEF Excused, Why, Causes
      <4>2. \A q \in Process : ~Holds(q, x) /\ ~Holds(q, x)'
        BY <1>2, <2>2, <4>1 DEF Held, Holds
      <4>3. \A q \in Process : (Busy(q, x)' <=> Busy(q, x)) /\ (Taking(q, x)' <=> Taking(q, x))
        BY <1>2 DEF Busy, Holds, Taking
      <4> QED
        BY <1>2, <2>2, <3>2, <4>2, <4>3 DEF Alone
    <3> QED  BY <3>1, <3>2 DEF RowKept
  <2> QED  BY <2>1, <2>2
<1>9. /\ UNCHANGED <<proc, runs, crashes>> /\ now' \in Int /\ now <= now'
      /\ born \subseteq born' /\ settled \subseteq settled' /\ touched \subseteq touched'
  BY <1>2, <1>6
<1> QED
  BY <1>7, <1>8, <1>9, RowsKeep

LEMMA WithdrawKeeps ==
  ASSUME Inv, NEW S \in SUBSET Id, calls < MaxCalls, calls' = calls + 1, Withdraw(S)
  PROVE  Inv'
<1>1. /\ Types /\ calls' = calls + 1 /\ calls < MaxCalls /\ now \in Nat
      /\ UNCHANGED <<proc, client, runs, touched, born, now, mode, crashes>>
      /\ settled' = settled \cup Table(S) /\ Delete(S)
  BY Numbers DEF Withdraw, Inv, Quiet
<1>2. /\ jobs' \in [Id -> Row \cup {NoRow}]
      /\ \A x \in Id : jobs'[x] = IF x \in S THEN NoRow ELSE jobs[x]
  BY <1>1, DeleteFacts
<1>3. Table(S) \subseteq born /\ \A x \in S : jobs[x] # NoRow => x \in settled'
  BY <1>1 DEF Table, Types
<1>4. Types'
  BY <1>1, <1>2, <1>3 DEF Types
<1>5. ASSUME NEW x \in Id PROVE RowSame(x) \/ RowKept(x)
  <2>1. CASE x \notin S \/ jobs[x] = NoRow
    BY <1>1, <1>2, <2>1 DEF RowSame
  <2>2. CASE x \in S /\ jobs[x] # NoRow
    <3>1. Owned(x)' /\ Kept(x)'
      BY <1>2, <1>3, <2>2 DEF Owned, Kept
    <3>2. \A q \in Process : /\ Busy(q, x)' <=> Busy(q, x)
                             /\ Taking(q, x)' <=> Taking(q, x)
      BY <1>1 DEF Busy, Holds, Taking
    <3>3. Alone(x) => Alone(x)'
      BY <1>1, <1>2, <2>2, <3>2 DEF Alone
    <3> QED  BY <3>1, <3>3 DEF RowKept
  <2> QED  BY <2>1, <2>2
<1>6. /\ UNCHANGED <<proc, runs, crashes>> /\ now' \in Int /\ now <= now'
      /\ born \subseteq born' /\ settled \subseteq settled' /\ touched \subseteq touched'
  BY <1>1
<1> QED
  BY <1>4, <1>5, <1>6, RowsKeep

LEMMA TickKeeps ==
  ASSUME Inv, Tick
  PROVE  Inv'
<1>1. /\ Types /\ now' = now + 1 /\ now < Start + MaxTime /\ now \in Nat
      /\ UNCHANGED <<jobs, born, mode, proc, client, calls, crashes, runs, settled, touched>>
  BY Numbers DEF Tick, Inv, history
<1>2. Types'
  BY <1>1, Numbers DEF Types
<1>3. \A x \in Id : RowSame(x)
  BY <1>1 DEF RowSame
<1>4. /\ UNCHANGED <<proc, runs, crashes>> /\ now' \in Int /\ now <= now'
      /\ born \subseteq born' /\ settled \subseteq settled' /\ touched \subseteq touched'
  BY <1>1
<1> QED
  BY <1>2, <1>3, <1>4, RowsKeep

LEMMA StutterKeeps ==
  ASSUME Inv, UNCHANGED vars
  PROVE  Inv'
<1>1. /\ Types /\ now \in Nat /\ UNCHANGED <<jobs, born, now, mode, proc, client, calls, crashes>>
      /\ UNCHANGED <<runs, settled, touched>>
  BY Numbers DEF Inv, vars, history
<1>2. Types'
  BY <1>1 DEF Types
<1>3. \A x \in Id : RowSame(x)
  BY <1>1 DEF RowSame
<1>4. /\ UNCHANGED <<proc, runs, crashes>> /\ now' \in Int /\ now <= now'
      /\ born \subseteq born' /\ settled \subseteq settled' /\ touched \subseteq touched'
  BY <1>1
<1> QED
  BY <1>2, <1>3, <1>4, RowsKeep

-----------------------------------------------------------------------------
(* The theorems.                                                            *)

LEMMA InitHolds == Init => Inv
<1> SUFFICES ASSUME Init PROVE Inv
  OBVIOUS
<1> DEFINE row == [reserved |-> 0, checked |-> 0, lastRun |-> 0]
<1>1. row \in Row /\ row.reserved = 0 /\ NoRow \notin Row
  BY DEF Row
<1>2. /\ jobs = [i \in Id |-> IF i \in born THEN row ELSE NoRow] /\ born \in SUBSET Id
      /\ now = Start /\ mode = "ajax" /\ calls = 0 /\ crashes = 0
      /\ proc = [p \in Process |-> Idle] /\ client = [c \in Client |-> NoCall]
      /\ runs = [i \in Id |-> 0] /\ settled = {} /\ touched = {}
  BY DEF Init
<1> HIDE DEF row
<1>3. Types
  BY <1>1, <1>2, IdleType, NoCallType, Numbers DEF Types
<1>4. ASSUME NEW p \in Process PROVE Local(p)
  BY <1>2, Numbers DEF Local, Idle
<1>5. ASSUME NEW i \in Id PROVE Owned(i) /\ Kept(i) /\ Alone(i)
  BY <1>1, <1>2 DEF Owned, Kept, Alone, Busy, Holds, Taking, Idle
<1> QED
  BY <1>3, <1>4, <1>5 DEF Inv, Sole

LEMMA StepHolds == Inv /\ [Next]_vars => Inv'
<1> SUFFICES ASSUME Inv, [Next]_vars PROVE Inv'
  OBVIOUS
<1>1. ASSUME NEW p \in Process, GetNext(p) PROVE Inv'
  BY <1>1, SelectKeeps, DropKeeps, CheckParallelKeeps, BumpKeeps, PostponeKeeps, ReserveKeeps,
     ResetKeeps DEF GetNext
<1>2. ASSUME NEW p \in Process, RunJob(p) PROVE Inv'
  BY <1>2, RevisitKeeps, SkipKeeps, RunKeptKeeps, RunQueuedKeeps, FinishKeeps, ThrowKeeps,
     SetLastJobKeeps, LoadKeeps, ExecutedKeeps DEF RunJob
<1>3. ASSUME NEW S \in SUBSET Id, Called("remove") \/ Called("execute"), Withdraw(S) PROVE Inv'
  BY <1>3, WithdrawKeeps DEF Called
<1>4. CASE Next
  <2>1. \/ \E p \in Process : Work(p) \/ StartCron(p) \/ Crash(p)
        \/ \E p \in Process, i \in Id : Execute(p, i)
        \/ \E c \in Client : Insert(c) \/ AddAgain(c)
        \/ \E c \in Client, k \in Key : BeginAdd(c, k)
        \/ \E S \in SUBSET Id : (Called("remove") \/ Called("execute")) /\ Withdraw(S)
        \/ Tick
    BY <1>4 DEF Next, Remove, ExecuteGone
  <2> QED
    BY <1>1, <1>2, <1>3, <2>1, StartCronKeeps, CrashKeeps, ExecuteKeeps, InsertKeeps,
       AddAgainKeeps, BeginAddKeeps, TickKeeps DEF Work
<1> QED
  BY <1>4, StutterKeeps

LEMMA Invariant == Spec => []Inv
  BY InitHolds, StepHolds, PTL DEF Spec

\* Every variable has its type, a process between its SELECT and the end of the
\* job has a row in hand, and ids in the table were issued.
THEOREM TypeCorrect == Spec => []TypeOK
<1>1. Inv => TypeOK
  <2> SUFFICES ASSUME Inv PROVE TypeOK
    OBVIOUS
  <2>1. Types /\ \A p \in Process : Local(p)
    BY DEF Inv
  <2>2. ASSUME NEW p \in Process
        PROVE  /\ proc[p].at \in States /\ proc[p].how \in {"none", "cron", "web", "occ"}
               /\ proc[p].executed \subseteq Id /\ proc[p].asks \subseteq Class
               /\ proc[p].visited \in [Exclusive -> Id \cup {NoId}]
    BY <2>1 DEF Types, ProcType
  <2>3. ASSUME NEW c \in Client PROVE client[c].does \in {"none", "insert", "update"}
    BY <2>1 DEF Types, CallType
  <2>4. \A i \in Id : jobs[i] # NoRow => jobs[i] \in Row /\ i \in born
    BY <2>1 DEF Types
  <2> QED
    BY <2>1, <2>2, <2>3, <2>4 DEF TypeOK, Types, Local
<1> QED
  BY <1>1, Invariant, PTL

\* getNext: while nobody is killed, a reserved row has a process that frees it.
THEOREM NoneOrphaned == Spec => []NoOrphan
<1>1. Inv => NoOrphan
  BY DEF Inv, NoOrphan, Owned, Keeper, Table
<1> QED
  BY <1>1, Invariant, PTL

\* QueuedJob::start and remove: a row that is gone was run, is being run or was
\* withdrawn, while nobody is killed.
THEOREM NoneLost == Spec => []NoJobLost
<1>1. Inv => NoJobLost
  BY DEF Inv, Types, NoJobLost, Kept, Running, Holds
<1> QED
  BY <1>1, Invariant, PTL

\* getNext: two processes have one row only where a cause is on record.
THEOREM OneHolder == Spec => []SingleHolder
<1>1. Inv => SingleHolder
  BY DEF Inv, SingleHolder, Sole, Alone, Excused, Why, Two, Busy, Causes
<1> QED
  BY <1>1, Invariant, PTL

\* QueuedJob: no row is run twice, unless its reservation expired or a call
\* gave it away; freeing it late is no excuse.
THEOREM RunOnce == Spec => []QueuedOnce
<1>1. Inv => QueuedOnce
  BY DEF Inv, QueuedOnce, Sole, Alone, Excused
<1> QED
  BY <1>1, Invariant, PTL

-----------------------------------------------------------------------------
(* What has become of a row since it was selected.  The facts of this part  *)
(* are about processes that are left alone: nobody is killed, and no call   *)
(* writes last_run or last_checked of a row (remove may be called).         *)

CronOnly == MaxCrashes = 0 /\ Calls \cap {"add", "execute"} = {}

Calm == /\ \A c \in Client : client[c].does = "none"
        /\ \A i \in Id : ~Why({"called"}, i)

Aside(i)  == Why({"expired", "unlocked"}, i)
Ran(p, i) == proc[p].id = i /\ proc[p].at \in {"running", "done"}
Chooses(p) == proc[p].at \in {"drop", "parallel", "reserve"}

Dated(i) == jobs[i] # NoRow => jobs[i].lastRun <= now

Hidden(i) == jobs[i] # NoRow /\ ClassOf[i] \in Timed \ (Off \cup Gone) =>
               \/ jobs[i].checked <= now + 1
               \/ jobs[i].checked <= jobs[i].lastRun + Interval[ClassOf[i]]

\* The row i is as p selected it, or it was freed since; that it was run since
\* means that it was selected under its holder.
AsSelected(p, i) ==
  LET s == proc[p].seen IN
  /\ jobs[i].checked = s.checked /\ jobs[i].reserved \in {s.reserved, 0}
  /\ jobs[i].reserved = s.reserved =>
       \/ jobs[i].lastRun = s.lastRun
       \/ s.reserved # 0 /\ \E q \in Process \ {p} : Ran(q, i)

\* Every other statement than these puts last_checked to the time of the
\* selection or later, and the compare-and-set of Reserve sees it.
Chosen(p, i) ==
  /\ proc[p].seen.lastRun <= jobs[i].lastRun /\ proc[p].seen.checked <= proc[p].when
  /\ jobs[i].checked >= proc[p].when \/ Aside(i) \/ AsSelected(p, i)

Known == /\ \A i \in Id : Dated(i) /\ Hidden(i)
         /\ \A p \in Process : Chooses(p) /\ jobs[Job(p)] # NoRow => Chosen(p, Job(p))

\* What a step of p does to the row i in its hand.
Freed(i)   == /\ jobs'[i].reserved = 0 /\ jobs'[i].checked = jobs[i].checked
              /\ jobs'[i].lastRun = jobs[i].lastRun
PutOff(i)  == /\ jobs'[i].checked >= now /\ jobs'[i].lastRun = jobs[i].lastRun
              /\ ClassOf[i] \in Timed \ (Off \cup Gone) =>
                   \/ jobs'[i].checked <= now + 1
                   \/ jobs'[i].checked <= jobs[i].lastRun + Interval[ClassOf[i]]
Began(p, i) == /\ jobs'[i].lastRun = now /\ jobs'[i].checked = jobs[i].checked
               /\ jobs'[i].reserved = jobs[i].reserved /\ Holds(p, i) /\ Ran(p, i)'

RowStep(p, i) ==
  \/ jobs'[i] = NoRow
  \/ /\ jobs[i] # NoRow /\ jobs'[i] \in Row
     /\ jobs'[i] = jobs[i] \/ Freed(i) \/ PutOff(i) \/ Began(p, i)

\* Where p still has a row that it is to reserve, it has selected it now, or
\* it goes on with the one it had.
HandStep(p) ==
  \/ ~Chooses(p)'
  \/ /\ proc'[p].id \in Id /\ jobs' = jobs /\ proc'[p].when = now
     /\ proc'[p].seen = jobs[proc'[p].id] /\ jobs[proc'[p].id].checked <= now
  \/ /\ Chooses(p) /\ proc'[p].id = proc[p].id /\ proc'[p].seen = proc[p].seen
     /\ proc'[p].when = proc[p].when /\ jobs'[Job(p)] \in {jobs[Job(p)], NoRow}

RanStep(p) ==
  Ran(p, Job(p)) => \/ jobs'[Job(p)] = NoRow \/ jobs'[Job(p)].reserved = 0
                    \/ Ran(p, Job(p))' /\ proc'[p].id = proc[p].id

Deed(p) ==
  /\ now' = now /\ touched \subseteq touched' /\ Calm'
  /\ \A q \in Process \ {p} : proc'[q] = proc[q]
  /\ \A x \in Id \ {Job(p)} : jobs'[x] = jobs[x]
  /\ Job(p) \in Id => RowStep(p, Job(p)) /\ RanStep(p)
  /\ HandStep(p)

LEMMA RowFacts ==
  ASSUME Inv, NEW i \in Id, jobs[i] # NoRow
  PROVE  /\ jobs[i] \in Row /\ jobs[i].reserved \in Nat /\ jobs[i].checked \in Int
         /\ jobs[i].lastRun \in Int /\ now \in Nat /\ NoRow \notin Row
  BY Numbers DEF Inv, Types, Row

\* Nobody has a row that is free, unless an expiry or a late setLastJob is on
\* record.
LEMMA HolderReserves ==
  ASSUME Inv, Calm, NEW p \in Process, NEW i \in Id, Holds(p, i), ~Aside(i), jobs[i] # NoRow
  PROVE  jobs[i].reserved # 0
<1>1. ~Excused(i)
  BY DEF Excused, Why, Calm, Aside, Causes
<1> QED
  BY <1>1 DEF Inv, Sole, Alone

LEMMA HandFacts ==
  ASSUME Inv, NEW p \in Process, Chooses(p)
  PROVE  /\ Job(p) \in Id /\ proc[p].id = Job(p) /\ proc[p].when \in 0..now /\ now \in Nat
         /\ proc[p].seen \in Row /\ proc[p].seen.reserved \in Nat
         /\ proc[p].seen.checked \in Int /\ proc[p].seen.lastRun \in Int
<1>1. /\ Job(p) \in Id /\ proc[p].id = Job(p) /\ proc[p].when \in 0..now /\ now \in Nat
      /\ proc[p].seen \in Row
  BY InHand DEF Chooses, Local, Job
<1> QED
  BY <1>1 DEF Row

\* What another process has selected stands while p works on the row.
LEMMA ChosenStays ==
  ASSUME Inv, Calm, Known, NEW p \in Process, Deed(p), NEW q \in Process \ {p}, Chooses(q),
         NEW i, i = Job(q), jobs'[i] # NoRow
  PROVE  Chosen(q, i)'
<1>1. /\ i \in Id /\ proc[q].id = i /\ proc[q].when \in 0..now /\ now \in Nat
      /\ proc[q].seen.reserved \in Nat /\ proc[q].seen.checked \in Int
      /\ proc[q].seen.lastRun \in Int /\ proc'[q] = proc[q] /\ touched \subseteq touched'
  BY HandFacts DEF Deed
<1>2. jobs[i] # NoRow
  BY <1>1 DEF Deed, RowStep
<1>3. /\ Chosen(q, i) /\ jobs[i].reserved \in Nat /\ jobs[i].checked \in Int
      /\ jobs[i].lastRun \in Int /\ jobs[i].lastRun <= now
  BY <1>1, <1>2, RowFacts DEF Known, Dated
<1>4. Aside(i) => Aside(i)'
  BY <1>1 DEF Aside, Why
<1>5. CASE Job(p) # i
  <2>1. jobs'[i] = jobs[i]
    BY <1>1, <1>5 DEF Deed
  <2>2. \A r \in Process : Ran(r, i) => Ran(r, i)'
    BY <1>1, <1>5 DEF Ran, Deed, Job
  <2>3. AsSelected(q, i) => AsSelected(q, i)'
    BY <1>1, <2>1, <2>2 DEF AsSelected
  <2> QED  BY <1>1, <1>3, <1>4, <2>1, <2>3 DEF Chosen
<1>6. CASE Job(p) = i
  <2>1. \A r \in Process \ {p} : Ran(r, i) => Ran(r, i)'
    BY DEF Ran, Deed
  <2>2. Ran(p, i) => jobs'[i].reserved = 0 \/ Ran(p, i)'
    BY <1>1, <1>6 DEF Deed, RanStep, Ran, Job
  <2>3. jobs'[i] = jobs[i] \/ Freed(i) \/ PutOff(i) \/ Began(p, i)
    BY <1>1, <1>6 DEF Deed, RowStep
  <2>4. CASE jobs'[i] = jobs[i]
    <3>1. ASSUME AsSelected(q, i) PROVE AsSelected(q, i)'
      BY <1>1, <2>1, <2>2, <2>4, <3>1 DEF AsSelected
    <3> QED  BY <1>1, <1>3, <1>4, <2>4, <3>1 DEF Chosen
  <2>5. CASE Freed(i)
    <3>1. ASSUME AsSelected(q, i) PROVE AsSelected(q, i)'
      BY <1>1, <1>3, <2>5, <3>1 DEF AsSelected, Freed
    <3> QED  BY <1>1, <1>3, <1>4, <2>5, <3>1 DEF Chosen, Freed
  <2>6. CASE PutOff(i)
    BY <1>1, <1>3, <2>6, RowFacts DEF Chosen, PutOff, Deed, RowStep, Row
  <2>7. CASE Began(p, i)
    <3>1. ASSUME AsSelected(q, i), ~Aside(i) PROVE AsSelected(q, i)'
      <4>1. jobs[i].reserved # 0
        BY <1>1, <1>2, <2>7, <3>1, HolderReserves DEF Began
      <4>2. Ran(p, i)' /\ p \in Process \ {q}
        BY <2>7 DEF Began
      <4> QED  BY <1>1, <2>7, <3>1, <4>1, <4>2 DEF AsSelected, Began
    <3> QED  BY <1>1, <1>3, <1>4, <2>7, <3>1 DEF Chosen, Began
  <2> QED  BY <2>3, <2>4, <2>5, <2>6, <2>7
<1> QED
  BY <1>5, <1>6

LEMMA DeedKeeps ==
  ASSUME Inv, Inv', Calm, Known, NEW p \in Process, Deed(p)
  PROVE  Known'
<1>1. ASSUME NEW x \in Id, jobs'[x] # NoRow PROVE Dated(x)' /\ Hidden(x)'
  <2>1. jobs[x] # NoRow /\ now' = now
    BY <1>1 DEF Deed, RowStep
  <2>2. /\ Dated(x) /\ Hidden(x) /\ jobs[x].lastRun \in Int /\ jobs[x].checked \in Int
        /\ now \in Nat
    BY <2>1, RowFacts DEF Known
  <2>3. jobs'[x] = jobs[x] \/ Freed(x) \/ PutOff(x) \/ Began(p, x)
    BY <1>1 DEF Deed, RowStep
  <2>4. ClassOf[x] \in Timed => Interval[ClassOf[x]] \in Nat
    OBVIOUS
  <2>5. CASE jobs'[x] = jobs[x]
    BY <2>1, <2>2, <2>5 DEF Dated, Hidden
  <2>6. CASE Freed(x)
    BY <2>1, <2>2, <2>6 DEF Dated, Hidden, Freed
  <2>7. CASE PutOff(x)
    BY <2>1, <2>2, <2>7 DEF Dated, Hidden, PutOff
  <2>8. CASE Began(p, x)
    BY <2>1, <2>2, <2>4, <2>8 DEF Dated, Hidden, Began
  <2> QED  BY <2>3, <2>5, <2>6, <2>7, <2>8
<1>2. \A x \in Id : Dated(x)' /\ Hidden(x)'
  BY <1>1 DEF Dated, Hidden
<1>3. ASSUME Chooses(p)', jobs'[proc'[p].id] # NoRow PROVE Chosen(p, proc[p].id)'
  <2> PICK i : i = proc'[p].id
    OBVIOUS
  <2>1. CASE /\ i \in Id /\ jobs' = jobs /\ proc'[p].when = now
             /\ proc'[p].seen = jobs[i] /\ jobs[i].checked <= now
    <3>1. jobs[i].reserved \in Nat /\ jobs[i].checked \in Int /\ jobs[i].lastRun \in Int
      BY <1>3, <2>1, RowFacts
    <3>2. Chosen(p, i)'
      BY <2>1, <3>1 DEF Chosen, AsSelected
    <3> QED  BY <3>2 DEF Chosen, AsSelected, Aside, Why
  <2>2. CASE /\ Chooses(p) /\ i = proc[p].id /\ proc'[p].seen = proc[p].seen
             /\ proc'[p].when = proc[p].when /\ jobs'[Job(p)] \in {jobs[Job(p)], NoRow}
    <3>1. i = Job(p) /\ i \in Id /\ jobs'[i] = jobs[i] /\ jobs[i] # NoRow
      BY <1>3, <2>2, HandFacts
    <3>2. Chosen(p, i) /\ touched \subseteq touched'
      BY <2>2, <3>1 DEF Known, Deed
    <3>3. \A q \in Process \ {p} : Ran(q, i) => Ran(q, i)'
      BY DEF Ran, Deed
    <3>4. (AsSelected(p, i) => AsSelected(p, i)') /\ (Aside(i) => Aside(i)')
      BY <2>2, <3>1, <3>2, <3>3 DEF AsSelected, Aside, Why
    <3>5. Chosen(p, i)'
      BY <2>2, <3>1, <3>2, <3>4 DEF Chosen
    <3> QED  BY <3>5 DEF Chosen, AsSelected, Aside, Why
  <2> QED  BY <1>3, <2>1, <2>2 DEF Deed, HandStep
<1>4. ASSUME NEW q \in Process, Chooses(q)', jobs'[proc'[q].id] # NoRow
      PROVE  Chosen(q, proc[q].id)'
  <2>1. CASE q = p
    BY <1>3, <1>4, <2>1
  <2>2. CASE q # p
    <3>1. Chooses(q) /\ proc'[q].id = Job(q) /\ proc'[q] = proc[q]
      BY <1>4, <2>2 DEF Deed, Chooses, Job
    <3> QED  BY <1>4, <2>2, <3>1, ChosenStays
  <2> QED  BY <2>1, <2>2
<1> QED
  BY <1>2, <1>4 DEF Known, Job

-----------------------------------------------------------------------------
(* The deeds, action by action.                                             *)

\* A call is only put on record by a call.
LEMMA CalmStays ==
  ASSUME Calm, client' = client, NEW S,
         touched' = touched \/ Blame("expired", S) \/ Blame("unlocked", S)
  PROVE  Calm' /\ touched \subseteq touched'
<1>1. touched' \subseteq touched \cup ({"expired", "unlocked"} \X S) /\ touched \subseteq touched'
  BY DEF Blame
<1>2. \A i \in Id : Why({"called"}, i)' => Why({"called"}, i)
  BY <1>1 DEF Why
<1> QED
  BY <1>1, <1>2 DEF Calm

\* A step that reads only.
LEMMA ReadOnly ==
  ASSUME Types, Calm, NEW p \in Process, UNCHANGED <<jobs, now, client, touched>>,
         \A q \in Process \ {p} : proc'[q] = proc[q], HandStep(p), RanStep(p)
  PROVE  Deed(p)
<1>1. Calm' /\ touched \subseteq touched'
  BY DEF Calm, Why
<1>2. Job(p) \in Id => RowStep(p, Job(p))
  BY DEF RowStep, Types
<1> QED
  BY <1>1, <1>2 DEF Deed

LEMMA SelectDeed ==
  ASSUME Inv, Calm, NEW p \in Process, Select(p)
  PROVE  Deed(p)
<1>1. Types /\ Local(p) /\ proc[p].at = "select" /\ now \in Nat /\ ~Ran(p, Job(p))
  BY Numbers DEF Inv, Select, Ran
<1>2. UNCHANGED <<jobs, now, client, touched>>
  BY DEF Select, Outside, history
<1>3. CASE Leave(p)
  BY <1>1, <1>2, <1>3, LeaveFacts, ReadOnly DEF Left, Idle, HandStep, RanStep, Chooses
<1>4. ASSUME NEW i \in Table(Id), Selectable(i),
             proc' = [proc EXCEPT ![p] = [@ EXCEPT !.at = AfterSelect(ClassOf[i]),
                                                   !.id = i, !.seen = jobs[i], !.when = now]]
      PROVE  Deed(p)
  <2>1. i \in Id /\ jobs[i] \in Row
    BY <1>1 DEF Table, Types
  <2>2. Found(p, i)
    BY <1>1, <1>4, <2>1, SelectMoves
  <2> QED
    BY <1>1, <1>2, <1>4, <2>1, <2>2, ReadOnly DEF Found, HandStep, RanStep, Selectable
<1> QED
  BY <1>3, <1>4 DEF Select

LEMMA DropDeed ==
  ASSUME Inv, Calm, NEW p \in Process, Drop(p)
  PROVE  Deed(p)
<1>1. /\ Types /\ Job(p) \in Id /\ proc[p].at = "drop" /\ Moved(p, "reserve")
      /\ UNCHANGED <<now, client, touched>>
  BY InHand, GoFacts DEF Drop, Outside, States
<1>2. jobs'[Job(p)] = NoRow /\ \A x \in Id \ {Job(p)} : jobs'[x] = jobs[x]
  BY <1>1, DeleteFacts DEF Drop
<1>3. Calm' /\ touched \subseteq touched'
  BY <1>1 DEF Calm, Why
<1> QED
  BY <1>1, <1>2, <1>3 DEF Deed, RowStep, HandStep, RanStep, Moved, Chooses

LEMMA CheckParallelDeed ==
  ASSUME Inv, Calm, NEW p \in Process, CheckParallel(p)
  PROVE  Deed(p)
<1>1. /\ Types /\ Job(p) \in Id /\ proc[p].at = "parallel" /\ JobClass(p) \in Exclusive
      /\ UNCHANGED <<jobs, now, client, touched>> /\ ~Ran(p, Job(p))
      /\ proc[p].visited \in [Exclusive -> Id \cup {NoId}]
  BY InHand DEF CheckParallel, Outside, history, Local, JobClass, Job, Ran, ProcType
<1>2. Moved(p, "reserve") \/ Moved(p, "bump") \/ Left(p)
  <2> DEFINE c == JobClass(p)
             v == IF proc[p].visited[c] = NoId THEN Job(p) ELSE proc[p].visited[c]
  <2>1. v \in Id \cup {NoId} /\ NoId \in Id \cup {NoId} /\ c \in Exclusive
    BY <1>1
  <2>2. \/ proc' = [proc EXCEPT ![p].at = "reserve", ![p].visited[c] = NoId]
        \/ proc' = [proc EXCEPT ![p].at = "bump", ![p].visited[c] = v]
        \/ Leave(p)
    BY DEF CheckParallel
  <2>3. "reserve" \in States /\ "bump" \in States
    BY DEF States
  <2> HIDE DEF c, v
  <2> QED  BY <1>1, <2>1, <2>2, <2>3, VisitedMoves, LeaveFacts
<1>3. HandStep(p) /\ RanStep(p)
  BY <1>1, <1>2 DEF Moved, Left, Idle, HandStep, RanStep, Chooses
<1> QED
  BY <1>1, <1>2, <1>3, ReadOnly DEF Moved, Left

\* The facts that the other steps start from.
LEMMA InHandCalm ==
  ASSUME Inv, Calm, NEW p \in Process, proc[p].at \notin {"idle", "select"}, NEW i, i = Job(p)
  PROVE  /\ Types /\ Local(p) /\ i \in Id /\ proc[p].id = i /\ proc[p].how # "occ"
         /\ jobs[i] # NoRow => jobs[i] \in Row
         /\ now \in Nat /\ NoRow \notin Row
<1>1. /\ Types /\ Local(p) /\ Job(p) \in Id /\ now \in Nat /\ NoRow \notin Row
      /\ jobs[Job(p)] \in Row \cup {NoRow}
  BY InHand
<1>2. proc[p].how # "occ"
  BY <1>1 DEF Local, Calm, Job
<1> QED
  BY <1>1, <1>2 DEF Job

LEMMA BumpDeed ==
  ASSUME Inv, Calm, NEW p \in Process, Bump(p)
  PROVE  Deed(p)
<1>1. PICK i \in Id : i = Job(p)
  BY InHand DEF Bump
<1>2. /\ Types /\ Moved(p, "select") /\ now \in Nat /\ NoRow \notin Row /\ ~Ran(p, i)
      /\ (jobs[i] # NoRow => jobs[i] \in Row) /\ UNCHANGED <<now, client, touched>>
  BY <1>1, InHandCalm, GoFacts DEF Bump, Outside, history, States, Ran
<1> DEFINE row == [jobs[i] EXCEPT !.checked = now + 1]
<1>3. jobs[i] # NoRow => row \in Row /\ row.checked = now + 1 /\ row.lastRun = jobs[i].lastRun
  <2> SUFFICES ASSUME jobs[i] # NoRow
                PROVE  row \in Row /\ row.checked = now + 1 /\ row.lastRun = jobs[i].lastRun
    OBVIOUS
  <2>1. PICK r \in Row, time \in Int : r = jobs[i] /\ time = now + 1
    BY <1>2
  <2>2. LET n == [r EXCEPT !.checked = time] IN
        n \in Row /\ n.checked = time /\ n.lastRun = r.lastRun
    BY DEF Row
  <2> QED  BY <2>1, <2>2
<1>4. Update(i, row)
  BY <1>1 DEF Bump
<1> HIDE DEF row
<1>5. Rewrote(i, row)
  BY <1>2, <1>3, <1>4, UpdateFacts
<1>6. RowStep(p, i)
  BY <1>2, <1>3, <1>5 DEF Rewrote, RowStep, PutOff
<1>7. Calm' /\ touched \subseteq touched'
  BY <1>2 DEF Calm, Why
<1> QED
  BY <1>1, <1>2, <1>5, <1>6, <1>7 DEF Deed, Moved, HandStep, RanStep, Chooses, Rewrote

\* It is put off at most to the time it is due.
LEMMA PostponeDeed ==
  ASSUME Inv, Calm, Known, NEW p \in Process, Postpone(p)
  PROVE  Deed(p)
<1>1. PICK i \in Id : i = Job(p)
  BY InHand DEF Postpone
<1> DEFINE next == proc[p].seen.lastRun + Interval[JobClass(p)]
           time == IF next < now + TwoDays THEN next ELSE now + TwoDays
<1>2. /\ Types /\ Moved(p, "select") /\ now \in Nat /\ NoRow \notin Row /\ ~Ran(p, i)
      /\ (jobs[i] # NoRow => jobs[i] \in Row) /\ UNCHANGED <<now, client, touched>>
  BY <1>1, InHandCalm, GoFacts DEF Postpone, Outside, history, States, Ran
<1>3. /\ proc[p].seen.lastRun \in Int /\ Interval[ClassOf[i]] \in Nat /\ JobClass(p) = ClassOf[i]
      /\ now < next
  BY <1>1, HandFacts DEF Postpone, NotDue, Chooses, JobClass, Job
<1>4. /\ time \in Int /\ now <= time
      /\ jobs[i] # NoRow => time <= jobs[i].lastRun + Interval[ClassOf[i]]
  <2>1. next \in Int /\ (jobs[i] # NoRow => next <= jobs[i].lastRun + Interval[ClassOf[i]])
    <3>1. jobs[i] # NoRow => /\ proc[p].seen.lastRun <= jobs[i].lastRun
                             /\ jobs[i].lastRun \in Int
      BY <1>1, RowFacts DEF Postpone, Known, Chosen, Chooses
    <3> QED  BY <1>3, <3>1
  <2> HIDE DEF next
  <2> QED  BY <1>2, <1>3, <2>1, Numbers, RowFacts
<1> HIDE DEF time
<1> DEFINE row == [jobs[i] EXCEPT !.checked = time]
<1>5. jobs[i] # NoRow => row \in Row /\ row.checked = time /\ row.lastRun = jobs[i].lastRun
  <2> SUFFICES ASSUME jobs[i] # NoRow
                PROVE  row \in Row /\ row.checked = time /\ row.lastRun = jobs[i].lastRun
    OBVIOUS
  <2>1. PICK r \in Row : r = jobs[i]
    BY <1>2
  <2>2. LET n == [r EXCEPT !.checked = time] IN
        n \in Row /\ n.checked = time /\ n.lastRun = r.lastRun
    BY <1>4 DEF Row
  <2> QED  BY <2>1, <2>2
<1>6. Update(i, row)
  BY <1>1 DEF Postpone, time
<1> HIDE DEF row
<1>7. Rewrote(i, row)
  BY <1>2, <1>5, <1>6, UpdateFacts
<1>8. RowStep(p, i)
  BY <1>2, <1>4, <1>5, <1>7 DEF Rewrote, RowStep, PutOff
<1>9. Calm' /\ touched \subseteq touched'
  BY <1>2 DEF Calm, Why
<1> QED
  BY <1>1, <1>2, <1>7, <1>8, <1>9 DEF Deed, Moved, HandStep, RanStep, Chooses, Rewrote

LEMMA ReserveDeed ==
  ASSUME Inv, Calm, NEW p \in Process, Reserve(p)
  PROVE  Deed(p)
<1>1. PICK i \in Id : i = Job(p)
  BY InHand DEF Reserve
<1>2. /\ Types /\ proc[p].at = "reserve" /\ now \in Nat /\ NoRow \notin Row /\ ~Ran(p, i)
      /\ (jobs[i] # NoRow => jobs[i] \in Row) /\ UNCHANGED <<now, client>>
  BY <1>1, InHandCalm DEF Reserve, Outside, Ran
<1>3. CASE ~Unchanged(p)
  <2>1. Moved(p, "select") /\ UNCHANGED <<jobs, touched>>
    BY <1>2, <1>3, GoFacts DEF Reserve, States
  <2> QED
    BY <1>1, <1>2, <2>1, ReadOnly DEF Moved, HandStep, RanStep, Chooses
<1>4. CASE Unchanged(p)
  <2> DEFINE row == [jobs[i] EXCEPT !.reserved = now, !.checked = now]
             a == IF JobClass(p) \in Off \cup Gone THEN "reset" ELSE "take"
             old == IF jobs[i].reserved \in 1..(now - TwelveHours) THEN Unfreed(p) ELSE {}
  <2>1. Update(i, row) /\ Go(p, a) /\ Blame("expired", old)
    BY <1>1, <1>4 DEF Reserve
  <2>2. a \in States /\ a \in {"reset", "take"}
    BY DEF States
  <2>3. row \in Row /\ row.checked = now /\ row.lastRun = jobs[i].lastRun
    <3>1. PICK r \in Row, held \in Nat, time \in Int : r = jobs[i] /\ held = now /\ time = now
      BY <1>1, <1>2, <1>4 DEF Unchanged
    <3>2. LET n == [r EXCEPT !.reserved = held, !.checked = time] IN
          n \in Row /\ n.checked = time /\ n.lastRun = r.lastRun
      BY DEF Row
    <3> QED  BY <3>1, <3>2
  <2> HIDE DEF row, a, old
  <2>4. Moved(p, a)
    BY <1>2, <2>1, <2>2, GoFacts
  <2>5. Rewrote(i, row)
    BY <1>2, <2>1, <2>3, UpdateFacts
  <2>6. RowStep(p, i)
    BY <1>2, <2>3, <2>5 DEF Rewrote, RowStep, PutOff
  <2>7. Calm' /\ touched \subseteq touched'
    BY <1>2, <2>1, CalmStays
  <2> QED
    BY <1>1, <1>2, <2>2, <2>4, <2>5, <2>6, <2>7
    DEF Deed, Moved, HandStep, RanStep, Chooses, Rewrote
<1> QED
  BY <1>3, <1>4

\* Only the row of a disabled or vanished class, which is not run, is put off
\* for twelve hours.
LEMMA ResetDeed ==
  ASSUME Inv, Calm, NEW p \in Process, Reset(p)
  PROVE  Deed(p)
<1>1. PICK i \in Id : i = Job(p)
  BY InHand DEF Reset
<1>2. /\ Types /\ Moved(p, "select") /\ now \in Nat /\ NoRow \notin Row /\ ~Ran(p, i)
      /\ (jobs[i] # NoRow => jobs[i] \in Row) /\ UNCHANGED <<now, client, touched>>
      /\ ClassOf[i] \in Off \cup Gone
  BY <1>1, InHandCalm, GoFacts DEF Reset, Outside, history, States, Ran, Local
<1> DEFINE row == [jobs[i] EXCEPT !.reserved = 0, !.checked = now + TwelveHours]
<1>3. jobs[i] # NoRow => /\ row \in Row /\ row.checked = now + TwelveHours
                         /\ row.lastRun = jobs[i].lastRun
  <2> SUFFICES ASSUME jobs[i] # NoRow
                PROVE  /\ row \in Row /\ row.checked = now + TwelveHours
                       /\ row.lastRun = jobs[i].lastRun
    OBVIOUS
  <2>1. PICK r \in Row, held \in Nat, time \in Int :
          r = jobs[i] /\ held = 0 /\ time = now + TwelveHours
    BY <1>2, Numbers
  <2>2. LET n == [r EXCEPT !.reserved = held, !.checked = time] IN
        n \in Row /\ n.checked = time /\ n.lastRun = r.lastRun
    BY DEF Row
  <2> QED  BY <2>1, <2>2
<1>4. Update(i, row)
  BY <1>1 DEF Reset
<1> HIDE DEF row
<1>5. Rewrote(i, row)
  BY <1>2, <1>3, <1>4, UpdateFacts
<1>6. RowStep(p, i)
  BY <1>2, <1>3, <1>5, Numbers DEF Rewrote, RowStep, PutOff
<1>7. Calm' /\ touched \subseteq touched'
  BY <1>2 DEF Calm, Why
<1> QED
  BY <1>1, <1>2, <1>5, <1>6, <1>7 DEF Deed, Moved, HandStep, RanStep, Chooses, Rewrote

\* Free changes nothing but the reservation.
LEMMA FreeDeeds ==
  ASSUME Types, NEW i \in Id, jobs[i] # NoRow => jobs[i] \in Row, Free(i)
  PROVE  /\ \A x \in Id \ {i} : jobs'[x] = jobs[x]
         /\ jobs'[i] = NoRow \/ (jobs[i] # NoRow /\ jobs'[i] \in Row /\ Freed(i))
<1> DEFINE row == [jobs[i] EXCEPT !.reserved = 0]
<1>1. jobs[i] # NoRow => /\ row \in Row /\ row.reserved = 0 /\ row.checked = jobs[i].checked
                         /\ row.lastRun = jobs[i].lastRun
  BY DEF Row
<1>2. Update(i, row)
  BY DEF Free
<1> HIDE DEF row
<1> QED
  BY <1>1, <1>2, UpdateFacts DEF Rewrote, Freed

\* The steps that free the row and those that only go on.
LEMMA FreeingDeed ==
  ASSUME Inv, Calm, NEW p \in Process, proc[p].at \notin {"idle", "select"}, NEW i \in Id, i = Job(p),
         Free(i), Outside, NEW S, touched' = touched \/ Blame("unlocked", S),
         \A q \in Process \ {p} : proc'[q] = proc[q], ~Chooses(p)'
  PROVE  Deed(p)
<1>1. Types /\ NoRow \notin Row /\ (jobs[i] # NoRow => jobs[i] \in Row)
  BY InHandCalm
<1>2. /\ \A x \in Id \ {i} : jobs'[x] = jobs[x]
      /\ jobs'[i] = NoRow \/ (jobs[i] # NoRow /\ jobs'[i] \in Row /\ Freed(i))
  BY <1>1, FreeDeeds
<1>3. RowStep(p, i) /\ RanStep(p)
  BY <1>2 DEF RowStep, RanStep, Freed
<1>4. Calm' /\ touched \subseteq touched' /\ now' = now
  BY CalmStays DEF Outside
<1> QED
  BY <1>2, <1>3, <1>4 DEF Deed, HandStep

LEMMA RevisitDeed ==
  ASSUME Inv, Calm, NEW p \in Process, Revisit(p)
  PROVE  Deed(p)
<1>1. PICK i \in Id : i = Job(p)
  BY InHand DEF Revisit
<1>2. /\ proc[p].at \notin {"idle", "select"} /\ Free(i) /\ Outside /\ touched' = touched
      /\ Left(p)
  BY <1>1, InHand, LeaveFacts DEF Revisit, history
<1> QED
  BY <1>1, <1>2, FreeingDeed DEF Left, Idle, Chooses

LEMMA FinishDeed ==
  ASSUME Inv, Calm, NEW p \in Process, Finish(p)
  PROVE  Deed(p)
<1>1. PICK i \in Id : i = Job(p)
  BY InHand DEF Finish
<1>2. /\ proc[p].at \notin {"idle", "select"} /\ Free(i) /\ Outside /\ Blame("unlocked", Others(p))
      /\ Moved(p, "done")
  BY <1>1, InHand, GoFacts DEF Finish, States
<1> QED
  BY <1>1, <1>2, FreeingDeed DEF Moved, Chooses

LEMMA SetLastJobDeed ==
  ASSUME Inv, Calm, NEW p \in Process, SetLastJob(p)
  PROVE  Deed(p)
<1>1. PICK i \in Id : i = Job(p)
  BY InHand DEF SetLastJob
<1>2. /\ Types /\ proc[p].at \notin {"idle", "select"} /\ Free(i) /\ Outside
      /\ Blame("unlocked", Others(p))
  BY <1>1, InHand DEF SetLastJob
<1>3. Moved(p, "select") \/ Left(p)
  <2>1. CASE proc' = [proc EXCEPT ![p].at = "select", ![p].executed = @ \cup {i}]
    BY <1>2, <2>1, ExecutedMoves
  <2>2. CASE Leave(p)
    BY <1>2, <2>2, LeaveFacts
  <2> QED  BY <1>1, <2>1, <2>2 DEF SetLastJob
<1> QED
  BY <1>1, <1>2, <1>3, FreeingDeed DEF Moved, Left, Idle, Chooses

LEMMA SkipOrThrowDeed ==
  ASSUME Inv, Calm, NEW p \in Process, Skip(p) \/ Throw(p)
  PROVE  Deed(p)
<1>1. /\ Types /\ proc[p].at \in {"take", "running"} /\ Go(p, "done")
      /\ UNCHANGED <<jobs, now, client, touched>>
  BY DEF Skip, Throw, New, Outside, history, Inv
<1>2. Moved(p, "done")
  BY <1>1, GoFacts DEF States
<1>3. HandStep(p) /\ RanStep(p)
  BY <1>1, <1>2 DEF Moved, HandStep, RanStep, Chooses, Ran, Job
<1> QED
  BY <1>1, <1>2, <1>3, ReadOnly DEF Moved

LEMMA RunKeptDeed ==
  ASSUME Inv, Calm, NEW p \in Process, RunKept(p)
  PROVE  Deed(p)
<1>1. PICK i \in Id : i = Job(p)
  BY InHand DEF RunKept, New
<1>2. /\ Types /\ proc[p].at = "take" /\ Moved(p, "running") /\ now \in Nat /\ NoRow \notin Row
      /\ (jobs[i] # NoRow => jobs[i] \in Row) /\ UNCHANGED <<now, client, touched>>
      /\ proc[p].id = i
  BY <1>1, InHandCalm, GoFacts DEF RunKept, New, Outside, States
<1> DEFINE row == [jobs[i] EXCEPT !.lastRun = now]
<1>3. jobs[i] # NoRow => /\ row \in Row /\ row.lastRun = now /\ row.checked = jobs[i].checked
                         /\ row.reserved = jobs[i].reserved
  <2> SUFFICES ASSUME jobs[i] # NoRow
                PROVE  /\ row \in Row /\ row.lastRun = now /\ row.checked = jobs[i].checked
                       /\ row.reserved = jobs[i].reserved
    OBVIOUS
  <2>1. PICK r \in Row, time \in Int : r = jobs[i] /\ time = now
    BY <1>2
  <2>2. LET n == [r EXCEPT !.lastRun = time] IN
        n \in Row /\ n.lastRun = time /\ n.checked = r.checked /\ n.reserved = r.reserved
    BY DEF Row
  <2> QED  BY <2>1, <2>2
<1>4. Update(i, row)
  BY <1>1 DEF RunKept
<1> HIDE DEF row
<1>5. Rewrote(i, row)
  BY <1>2, <1>3, <1>4, UpdateFacts
<1>6. Holds(p, i) /\ Ran(p, i)' /\ ~Ran(p, i)
  BY <1>2 DEF Holds, Ran, Moved
<1>7. RowStep(p, i) /\ RanStep(p)
  BY <1>1, <1>2, <1>3, <1>5, <1>6 DEF Rewrote, RowStep, RanStep, Began
<1>8. Calm' /\ touched \subseteq touched'
  BY <1>2 DEF Calm, Why
<1> QED
  BY <1>1, <1>2, <1>5, <1>7, <1>8 DEF Deed, Moved, HandStep, Chooses, Rewrote

LEMMA RunQueuedDeed ==
  ASSUME Inv, Calm, NEW p \in Process, RunQueued(p)
  PROVE  Deed(p)
<1>1. /\ Types /\ Job(p) \in Id /\ Moved(p, "running") /\ UNCHANGED <<now, client, touched>>
  BY InHand, GoFacts DEF RunQueued, New, Outside, States
<1>2. jobs'[Job(p)] = NoRow /\ \A x \in Id \ {Job(p)} : jobs'[x] = jobs[x]
  BY <1>1, DeleteFacts DEF RunQueued
<1>3. Calm' /\ touched \subseteq touched'
  BY <1>1 DEF Calm, Why
<1> QED
  BY <1>1, <1>2, <1>3 DEF Deed, RowStep, HandStep, RanStep, Moved, Chooses

\* No process of the command line is there.
LEMMA NoneOfOcc ==
  ASSUME Inv, Calm, NEW p \in Process
  PROVE  ~Load(p) /\ ~Executed(p)
<1>1. proc[p].at \in {"load", "done"} => proc[p].how # "occ" /\ Local(p)
  BY InHandCalm
<1> QED
  BY <1>1 DEF Load, Executed, Local

LEMMA StartCronDeed ==
  ASSUME Inv, Calm, NEW p \in Process, StartCron(p)
  PROVE  Deed(p)
<1>1. /\ Types /\ proc[p] = Idle /\ now + FourteenMinutes \in Int
      /\ UNCHANGED <<jobs, now, client, touched>>
  BY Numbers DEF StartCron, Inv, history
<1>2. PICK how \in {"cron", "web"} : Took(p, "select", how, proc[p].id, proc[p].seen)
  BY <1>1, StartMoves
<1>3. HandStep(p) /\ RanStep(p)
  BY <1>1, <1>2 DEF Took, HandStep, RanStep, Chooses, Ran, Idle
<1> QED
  BY <1>1, <1>2, <1>3, ReadOnly DEF Took

\* remove takes rows away; the clock only makes what is promised weaker.
LEMMA RemoveKnown ==
  ASSUME Inv, Calm, Known, NEW S \in SUBSET Id, Remove(S)
  PROVE  Calm' /\ Known'
<1>1. /\ Types /\ UNCHANGED <<proc, client, touched, now>>
      /\ \A x \in Id : jobs'[x] = IF x \in S THEN NoRow ELSE jobs[x]
  BY DeleteFacts DEF Remove, Withdraw, Inv, Quiet
<1>2. Calm'
  BY <1>1 DEF Calm, Why
<1>3. \A x \in Id : Dated(x)' /\ Hidden(x)'
  BY <1>1 DEF Known, Dated, Hidden
<1>4. ASSUME NEW p \in Process, Chooses(p)', jobs'[Job(p)] # NoRow
      PROVE  Chosen(p, Job(p))'
  <2>1. Chooses(p) /\ Job(p)' = Job(p)
    BY <1>1, <1>4 DEF Chooses, Job
  <2>2. PICK i : i = Job(p)
    OBVIOUS
  <2>3. i \in Id /\ jobs'[i] = jobs[i] /\ jobs[i] # NoRow /\ Chosen(p, i)
    BY <1>1, <1>4, <2>1, <2>2, HandFacts DEF Known
  <2>4. Chosen(p, i)'
    BY <1>1, <2>3 DEF Chosen, AsSelected, Aside, Why, Ran
  <2> QED  BY <2>1, <2>2, <2>4 DEF Chosen, AsSelected, Aside, Why
<1> QED
  BY <1>1, <1>2, <1>3, <1>4 DEF Known, Job

LEMMA TickKnown ==
  ASSUME Inv, Calm, Known, now' \in {now, now + 1}, UNCHANGED <<jobs, proc, client, touched>>
  PROVE  Calm' /\ Known'
<1>1. Calm' /\ now \in Nat
  BY Numbers DEF Calm, Why, Inv
<1>2. ASSUME NEW x \in Id, jobs[x] # NoRow PROVE Dated(x)' /\ Hidden(x)'
  BY <1>1, <1>2, RowFacts DEF Known, Dated, Hidden
<1>3. \A x \in Id : Dated(x)' /\ Hidden(x)'
  BY <1>2 DEF Dated, Hidden
<1>4. \A p \in Process : Chooses(p) /\ jobs[Job(p)] # NoRow => Chosen(p, Job(p))'
  BY DEF Known, Chosen, AsSelected, Aside, Why, Ran, Job
<1> QED
  BY <1>1, <1>3, <1>4 DEF Known, Chooses, Job

-----------------------------------------------------------------------------
(* The theorems about what was selected.                                    *)

\* What can happen where nobody is killed and neither add nor occ is called.
LEMMA CronSteps ==
  ASSUME CronOnly, Inv, Calm, [Next]_vars
  PROVE  \/ \E p \in Process : GetNext(p) \/ RunJob(p) \/ StartCron(p)
         \/ \E S \in SUBSET Id : Remove(S)
         \/ now' \in {now, now + 1} /\ UNCHANGED <<jobs, proc, client, touched>>
<1>1. ~Called("add") /\ ~Called("execute")
  BY DEF CronOnly, Called
<1>2. \A p \in Process : ~Crash(p)
  BY DEF CronOnly, Crash, Inv, Types
<1>3. \A c \in Client : ~Insert(c) /\ ~AddAgain(c)
  BY DEF Calm, Insert, AddAgain
<1>4. CASE UNCHANGED vars
  BY <1>4 DEF vars, history
<1>5. CASE Next
  BY <1>1, <1>2, <1>3, <1>5 DEF Next, Work, Execute, ExecuteGone, BeginAdd, Tick, history
<1> QED
  BY <1>4, <1>5

LEMMA StepKnown ==
  ASSUME CronOnly, Inv, Inv', Calm, Known, [Next]_vars
  PROVE  Calm' /\ Known'
<1>1. ASSUME NEW p \in Process, GetNext(p) PROVE Deed(p)
  BY <1>1, SelectDeed, DropDeed, CheckParallelDeed, BumpDeed, PostponeDeed, ReserveDeed,
     ResetDeed DEF GetNext
<1>2. ASSUME NEW p \in Process, RunJob(p) PROVE Deed(p)
  BY <1>2, RevisitDeed, SkipOrThrowDeed, RunKeptDeed, RunQueuedDeed, FinishDeed, SetLastJobDeed,
     NoneOfOcc DEF RunJob
<1>3. ASSUME NEW p \in Process, GetNext(p) \/ RunJob(p) \/ StartCron(p) PROVE Calm' /\ Known'
  <2>1. Deed(p)
    BY <1>1, <1>2, <1>3, StartCronDeed
  <2> QED  BY <2>1, DeedKeeps DEF Deed
<1> QED
  BY <1>3, CronSteps, RemoveKnown, TickKnown

LEMMA AlwaysKnown == CronOnly => (Spec => [](Inv /\ Calm /\ Known))
<1>1. Init => Calm /\ Known
  <2> SUFFICES ASSUME Init PROVE Calm /\ Known
    OBVIOUS
  <2> DEFINE row == [reserved |-> 0, checked |-> 0, lastRun |-> 0]
  <2>1. /\ row.checked = 0 /\ row.lastRun = 0 /\ now = Start
        /\ \A i \in Id : jobs[i] # NoRow => jobs[i] = row
    BY DEF Init
  <2> HIDE DEF row
  <2>2. \A i \in Id : Dated(i) /\ Hidden(i)
    BY <2>1, Numbers DEF Dated, Hidden
  <2>3. \A p \in Process : ~Chooses(p)
    BY DEF Init, Chooses, Idle
  <2>4. Calm
    BY DEF Init, Calm, Why, NoCall
  <2> QED  BY <2>2, <2>3, <2>4 DEF Known
<1>2. CronOnly /\ Inv /\ Calm /\ Known /\ [Next]_vars => (Inv /\ Calm /\ Known)'
  BY StepHolds, StepKnown
<1>3. Init => Inv
  BY InitHolds
<1>4. ASSUME CronOnly PROVE Inv /\ Calm /\ Known /\ [Next]_vars => (Inv /\ Calm /\ Known)'
  BY <1>2, <1>4
<1>5. ASSUME CronOnly PROVE Spec => [](Inv /\ Calm /\ Known)
  BY <1>1, <1>3, <1>4, <1>5, PTL DEF Spec
<1> QED
  BY <1>5

\* setLastRun and the updates of last_checked: a timed job is hidden no longer
\* than until it is due, whatever the intervals and however many processes put
\* off what they selected a while ago, as long as neither add nor occ resets
\* last_run under them and none is killed.
THEOREM HiddenNoLonger == CronOnly => (Spec => []HiddenUntilDue)
<1>1. Known => HiddenUntilDue
  BY DEF Known, Hidden, HiddenUntilDue, Table
<1> QED
  BY <1>1, AlwaysKnown, PTL

LEMMA SelectionStep ==
  ASSUME CronOnly, Inv, Calm, Known, [Next]_vars, NEW p \in Process,
         proc[p].at = "reserve", proc'[p].at = "take"
  PROVE  \/ jobs[Job(p)].lastRun = proc[p].seen.lastRun
         \/ proc[p].when = proc[p].seen.checked
         \/ Why({"expired", "unlocked"}, Job(p))'
<1>1. ASSUME NEW q \in Process, GetNext(q) \/ RunJob(q) \/ StartCron(q), q # p PROVE FALSE
  <2>1. Deed(q)
    BY <1>1, SelectDeed, DropDeed, CheckParallelDeed, BumpDeed, PostponeDeed, ReserveDeed,
       ResetDeed, RevisitDeed, SkipOrThrowDeed, RunKeptDeed, RunQueuedDeed, FinishDeed,
       SetLastJobDeed, NoneOfOcc, StartCronDeed DEF GetNext, RunJob
  <2> QED  BY <1>1, <2>1 DEF Deed
<1>2. GetNext(p) \/ RunJob(p) \/ StartCron(p)
  BY <1>1, CronSteps DEF Remove, Withdraw
<1>3. Postpone(p) \/ Reserve(p)
  <2>1. ~Select(p) /\ ~Drop(p) /\ ~CheckParallel(p) /\ ~Bump(p) /\ ~Reset(p)
    BY DEF Select, Drop, CheckParallel, Bump, Reset
  <2>2. ~Revisit(p) /\ ~Skip(p) /\ ~RunKept(p) /\ ~RunQueued(p)
    BY DEF Revisit, Skip, New, RunKept, RunQueued
  <2>3. ~Finish(p) /\ ~Throw(p) /\ ~SetLastJob(p) /\ ~Load(p) /\ ~Executed(p)
    BY DEF Finish, Throw, SetLastJob, Load, Executed
  <2>4. ASSUME StartCron(p) PROVE FALSE
    <3>1. proc[p] = Idle
      BY <2>4 DEF StartCron
    <3> QED  BY <3>1 DEF Idle
  <2> QED  BY <1>2, <2>1, <2>2, <2>3, <2>4 DEF GetNext, RunJob
<1>4. PICK i \in Id : i = Job(p)
  BY HandFacts DEF Chooses
<1>5. Types /\ proc \in [Process -> ProcType]
  BY DEF Inv, Types
<1>6. ~Postpone(p)
  BY <1>5, GoFacts DEF Postpone, States, Moved
<1>7. Unchanged(p) /\ Reserve(p)
  BY <1>3, <1>5, <1>6, GoFacts DEF Reserve, States, Moved
<1>8. /\ jobs[i] # NoRow /\ jobs[i].reserved = proc[p].seen.reserved
      /\ jobs[i].checked = proc[p].seen.checked
  BY <1>4, <1>7 DEF Unchanged
<1>9. /\ Chosen(p, i) /\ proc[p].when \in 0..now /\ proc[p].seen.checked \in Int
      /\ proc[p].seen.reserved \in Nat /\ proc[p].seen.reserved <= now - TwelveHours
      /\ now \in Nat
  BY <1>4, <1>8, HandFacts DEF Chooses, Known, Inv, Local
<1>10. Job(p)' = i
  <2>1. Go(p, "reset") \/ Go(p, "take")
    BY <1>7 DEF Reserve
  <2>2. Moved(p, "reset") \/ Moved(p, "take")
    BY <1>5, <2>1, GoFacts DEF States
  <2> QED  BY <1>4, <2>2 DEF Moved, Job
<1>11. CASE proc[p].when > proc[p].seen.checked /\ AsSelected(p, i) /\ jobs[i].lastRun # proc[p].seen.lastRun
  <2>1. /\ jobs[i].reserved \in 1..(now - TwelveHours)
        /\ \E q \in Process \ {p} : Ran(q, i)
    BY <1>8, <1>9, <1>11, Numbers DEF AsSelected
  <2>2. i \in Unfreed(p)
    BY <1>4, <2>1 DEF Unfreed, Ran
  <2>3. Blame("expired", Unfreed(p))
    BY <1>4, <1>7, <2>1 DEF Reserve
  <2> QED  BY <1>10, <2>2, <2>3 DEF Blame, Why
<1>12. CASE Aside(i)
  <2>1. touched \subseteq touched'
    BY <1>7 DEF Reserve, Blame
  <2> QED  BY <1>10, <1>12, <2>1 DEF Aside, Why
<1> QED
  BY <1>4, <1>8, <1>9, <1>11, <1>12 DEF Chosen

\* The compare-and-set of getNext: it compares reserved_at and last_checked
\* only, and yet no process reserves a row that another has run since it was
\* selected, but in the three cases that SelectionHolds names.
THEOREM SelectedIsCurrent == CronOnly => (Spec => SelectionHolds)
<1>1. ASSUME CronOnly
      PROVE  Inv /\ Calm /\ Known /\ [Next]_vars =>
        [\A p \in Process :
          proc[p].at = "reserve" /\ proc'[p].at = "take" =>
            \/ jobs[Job(p)].lastRun = proc[p].seen.lastRun
            \/ proc[p].when = proc[p].seen.checked
            \/ Why({"expired", "unlocked"}, Job(p))']_vars
  BY <1>1, SelectionStep
<1>2. ASSUME CronOnly PROVE Spec => SelectionHolds
  BY <1>1, <1>2, AlwaysKnown, PTL DEF Spec, SelectionHolds
<1> QED
  BY <1>2
=============================================================================
