--------------------- MODULE FederationHandshakeProofs ---------------------
(***************************************************************************)
(* Theorems about FederationHandshake, for any number of cron processes,   *)
(* tokens, retries, losses and mishaps.                                    *)
(***************************************************************************)
EXTENDS FederationHandshake, FunctionTheorems, FiniteSetTheorems, TLAPS

-----------------------------------------------------------------------------
(* Records.                                                                 *)

LEMMA RowFields ==
  ASSUME NEW old \in RowType
  PROVE  /\ old.token \in Token \cup {NoToken} /\ old.secret \in Secret \cup {NoSecret}
         /\ old.status \in {"pending", "failure"}
         /\ \A t \in Token \cup {NoToken} :
              /\ [old EXCEPT !.token = t] \in RowType /\ [old EXCEPT !.token = t].token = t
              /\ [old EXCEPT !.token = t].secret = old.secret
              /\ [old EXCEPT !.token = t].status = old.status
         /\ \A x \in Secret \cup {NoSecret} :
              /\ [old EXCEPT !.secret = x] \in RowType /\ [old EXCEPT !.secret = x].secret = x
              /\ [old EXCEPT !.secret = x].token = old.token
              /\ [old EXCEPT !.secret = x].status = old.status
         /\ /\ [old EXCEPT !.status = "failure"] \in RowType
            /\ [old EXCEPT !.status = "failure"].status = "failure"
            /\ [old EXCEPT !.status = "failure"].token = old.token
            /\ [old EXCEPT !.status = "failure"].secret = old.secret
BY DEF RowType

LEMMA NewRow ==
  LET new == [token |-> NoToken, secret |-> NoSecret, status |-> "pending"] IN
  new \in RowType /\ new.token = NoToken /\ new.secret = NoSecret /\ new.status = "pending"
BY DEF RowType

LEMMA CallFields ==
  ASSUME NEW S, NEW c \in [at : {"none", "token", "job"}, token : S]
  PROVE  /\ [c EXCEPT !.at = "token"] \in [at : {"none", "token", "job"}, token : S]
         /\ [c EXCEPT !.at = "token"].at = "token"
OBVIOUS

LEMMA JobFields ==
  ASSUME NEW j \in Job
  PROVE  /\ j.what \in {"request", "get"} /\ j.token \in Token
         /\ j.created \in 0..MaxTime /\ j.attempt \in 0..MaxAttempts
         /\ \A n \in 0..MaxAttempts :
              /\ [j EXCEPT !.attempt = n] \in Job /\ [j EXCEPT !.attempt = n].what = j.what
              /\ [j EXCEPT !.attempt = n].token = j.token
              /\ [j EXCEPT !.attempt = n].created = j.created
              /\ n = j.attempt => [j EXCEPT !.attempt = n] = j
BY DEF Job

LEMMA WorkFields ==
  ASSUME NEW w \in WorkType
  PROVE  /\ w.at \in {"idle", "sent", "answered", "remove", "add"}
         /\ w = Idle <=> w.at = "idle"
         /\ w.at # "idle" => w.job \in Job
         /\ w.at = "answered" => w.reply \in Reply
         /\ w.at \in {"remove", "add"} =>
              /\ w.retain \in BOOLEAN /\ [w EXCEPT !.at = "add"] \in WorkType
              /\ [w EXCEPT !.at = "add"].at = "add" /\ [w EXCEPT !.at = "add"].job = w.job
BY DEF WorkType, Idle

LEMMA SentMade ==
  ASSUME NEW j \in Job
  PROVE  \E w \in WorkType : w = [at |-> "sent", job |-> j] /\ w.at = "sent" /\ w.job = j /\ w # Idle
<1> DEFINE w == [at |-> "sent", job |-> j]
<1>1. w \in WorkType /\ w.at = "sent" /\ w.job = j
  BY DEF WorkType
<1> QED
  BY <1>1, WorkFields

LEMMA AnsweredMade ==
  ASSUME NEW j \in Job, NEW r \in Reply
  PROVE  \E w \in WorkType : /\ w = [at |-> "answered", job |-> j, reply |-> r] /\ w # Idle
                             /\ w.at = "answered" /\ w.job = j /\ w.reply = r
<1> DEFINE w == [at |-> "answered", job |-> j, reply |-> r]
<1>1. w \in WorkType /\ w.at = "answered" /\ w.job = j /\ w.reply = r
  BY DEF WorkType
<1> QED
  BY <1>1, WorkFields

LEMMA RemoveMade ==
  ASSUME NEW j \in Job, NEW b \in BOOLEAN
  PROVE  \E w \in WorkType : /\ w = [at |-> "remove", job |-> j, retain |-> b] /\ w # Idle
                             /\ w.at = "remove" /\ w.job = j /\ w.retain = b
<1> DEFINE w == [at |-> "remove", job |-> j, retain |-> b]
<1>1. w \in WorkType /\ w.at = "remove" /\ w.job = j /\ w.retain = b
  BY DEF WorkType
<1> QED
  BY <1>1, WorkFields

LEMMA IdleWork == Idle \in WorkType /\ Idle.at = "idle"
BY DEF WorkType, Idle

LEMMA ReplyFields ==
  /\ \A r \in Reply : /\ r.code \in {"ok", "denied", "failed"} /\ r.secret \in Secret \cup {NoSecret}
                      /\ r = NoAnswer => r.code = "failed"
  /\ NoAnswer \in Reply /\ NoAnswer.code = "failed"
BY DEF Reply, NoAnswer

-----------------------------------------------------------------------------
(* The two servers, and secrets that nobody knows.                          *)

USE ConstantsAssumption, RowAssumption

LEMMA Peers ==
  ASSUME NEW s \in Server
  PROVE  /\ Peer(s) \in Server /\ Peer(s) # s /\ Peer(Peer(s)) = s
         /\ \A t \in Server : t = s \/ t = Peer(s)
<1>1. \E t \in Server : t # s
  <2> SUFFICES ASSUME \A t \in Server : t = s PROVE FALSE
    OBVIOUS
  <2>1. Server = {s}
    OBVIOUS
  <2> QED  BY <2>1, FS_Singleton
<1>2. Peer(s) \in Server /\ Peer(s) # s
  BY <1>1 DEF Peer
<1>3. ASSUME NEW t \in Server, t # s, t # Peer(s) PROVE FALSE
  <2>1. PICK S : S = {s}
    OBVIOUS
  <2>2. IsFiniteSet(S) /\ Cardinality(S) = 1 /\ t \notin S
    BY <2>1, <1>3, FS_Singleton
  <2>3. IsFiniteSet(S \cup {t}) /\ Cardinality(S \cup {t}) = 2
    BY <2>2, FS_AddElement
  <2>4. PICK T : T = S \cup {t}
    OBVIOUS
  <2>5. T \in SUBSET Server /\ IsFiniteSet(T) /\ Cardinality(T) = 2
    BY <2>1, <2>3, <2>4
  <2>6. T = Server
    BY <2>5, FS_Subset
  <2> QED  BY <1>2, <1>3, <2>1, <2>4, <2>6
<1>4. Peer(Peer(s)) = s
  <2>1. \E t \in Server : t # Peer(s)
    BY <1>2
  <2>2. Peer(Peer(s)) \in Server /\ Peer(Peer(s)) # Peer(s)
    BY <2>1 DEF Peer
  <2> QED  BY <1>3, <2>2
<1> QED
  BY <1>2, <1>3, <1>4

LEMMA KnownBounded ==
  /\ IsFiniteSet(Known) /\ Cardinality(Known) <= Cardinality(Server) + Cardinality(Cron)
<1> DEFINE S == {t \in Server : row[t] # NoRow}
           C == {l \in Cron : work[l].at = "answered"}
           KS == {row[s].secret : s \in S}
           KC == {work[k].reply.secret : k \in C}
           f == [s \in S |-> row[s].secret]
           g == [k \in C |-> work[k].reply.secret]
<1>1. /\ IsFiniteSet(S) /\ Cardinality(S) <= Cardinality(Server) /\ Cardinality(S) \in Nat
      /\ IsFiniteSet(C) /\ Cardinality(C) <= Cardinality(Cron) /\ Cardinality(C) \in Nat
      /\ Cardinality(Cron) \in Nat /\ Cardinality(Server) \in Nat
  <2>1. S \in SUBSET Server /\ C \in SUBSET Cron
    OBVIOUS
  <2> HIDE DEF S, C
  <2> QED  BY <2>1, FS_Subset, FS_CardinalityType
<1>2. f \in Surjection(S, KS) /\ g \in Surjection(C, KC)
  BY DEF Surjection
<1>3. /\ IsFiniteSet(KS) /\ Cardinality(KS) <= Cardinality(S) /\ Cardinality(KS) \in Nat
  <2> HIDE DEF f, S, KS
  <2> QED  BY <1>1, <1>2, FS_Surjection, FS_CardinalityType
<1>4. /\ IsFiniteSet(KC) /\ Cardinality(KC) <= Cardinality(C) /\ Cardinality(KC) \in Nat
  <2> HIDE DEF g, C, KC
  <2> QED  BY <1>1, <1>2, FS_Surjection, FS_CardinalityType
<1>5. Known = KS \cup KC
  BY DEF Known
<1> HIDE DEF KS, KC, S, C
<1>6. /\ IsFiniteSet(KS \cup KC) /\ Cardinality(KS \cap KC) \in Nat
      /\ Cardinality(KS \cup KC) = Cardinality(KS) + Cardinality(KC) - Cardinality(KS \cap KC)
  BY <1>3, <1>4, FS_Union, FS_Intersection, FS_CardinalityType
<1> QED
  BY <1>1, <1>3, <1>4, <1>5, <1>6

LEMMA SecretType == NewSecret \in Secret
<1>1. \E x \in Secret : x \notin Known
  <2> SUFFICES ASSUME Secret \subseteq Known PROVE FALSE
    OBVIOUS
  <2>1. IsFiniteSet(Secret) /\ Cardinality(Secret) <= Cardinality(Known)
    BY KnownBounded, FS_Subset
  <2>2. /\ Cardinality(Secret) \in Nat /\ Cardinality(Known) \in Nat
        /\ Cardinality(Cron) \in Nat /\ Cardinality(Server) \in Nat
    BY <2>1, KnownBounded, FS_CardinalityType
  <2> QED  BY <2>1, <2>2, KnownBounded
<1> QED
  BY <1>1 DEF NewSecret

-----------------------------------------------------------------------------
(* The table of jobs and the crons.                                         *)

Tables == /\ jobs \in [Server -> SUBSET Job] /\ reserved \in [Server -> SUBSET Job]
          /\ \A s \in Server : reserved[s] \subseteq jobs[s]

LEMMA TableEffect ==
  ASSUME Tables, NEW s \in Server, NEW J \in SUBSET Job, NEW R \in SUBSET J, Table(s, J, R)
  PROVE  Tables' /\ jobs'[s] = J /\ \A t \in Server : t # s => jobs'[t] = jobs[t]
BY DEF Tables, Table

LEMMA AddJobEffect ==
  ASSUME Tables, NEW s \in Server, NEW j \in Job, AddJob(s, j)
  PROVE  /\ Tables' /\ j \in jobs'[s]
         /\ \A t \in Server : \A i \in Job : i \in jobs'[t] <=> i \in jobs[t] \/ (t = s /\ i = j)
<1>1. /\ jobs[s] \cup {j} \in SUBSET Job /\ reserved[s] \ {j} \in SUBSET (jobs[s] \cup {j})
  BY DEF Tables
<1> QED
  BY <1>1, TableEffect DEF AddJob

LEMMA DropJobEffect ==
  ASSUME Tables, NEW s \in Server, NEW j \in Job, DropJob(s, j)
  PROVE  /\ Tables'
         /\ \A t \in Server : \A i \in Job : i \in jobs'[t] <=> i \in jobs[t] /\ ~(t = s /\ i = j)
<1>1. /\ jobs[s] \ {j} \in SUBSET Job /\ reserved[s] \ {j} \in SUBSET (jobs[s] \ {j})
  BY DEF Tables
<1> QED
  BY <1>1, TableEffect DEF DropJob

LEMMA GoEffect ==
  ASSUME work \in [Cron -> WorkType], NEW k \in Cron, NEW w \in WorkType, Go(k, w)
  PROVE  work' \in [Cron -> WorkType] /\ work'[k] = w /\ \A l \in Cron : l # k => work'[l] = work[l]
BY DEF Go

-----------------------------------------------------------------------------
(* Types, and tokens that are stored or on their way were generated.        *)

RowTyped == /\ row \in [Server -> RowType \cup {NoRow}]
            /\ \A s \in Server : row[s] # NoRow => row[s].token \in issued \cup {NoToken}
AddingTyped == /\ adding \in [Server -> [at : {"none", "token", "job"}, token : issued \cup {NoToken}]]
               /\ \A s \in Server : adding[s].at = "job" => adding[s].token \in issued
JobsTyped == /\ Tables
             /\ \A s \in Server : \A j \in jobs[s] : j.token \in issued /\ j.created <= now
WorkTyped == /\ work \in [Cron -> WorkType]
             /\ \A k \in Cron : work[k] # Idle => work[k].job.token \in issued /\ work[k].job.created <= now
LateTyped == /\ late \subseteq [to : Server, what : {"request", "get"}, token : Token]
             /\ \A m \in late : m.token \in issued
CountsTyped == /\ issued \subseteq Token /\ now \in 0..MaxTime
               /\ losses \in 0..MaxLosses /\ mishaps \in 0..MaxMishaps /\ blame \subseteq BlameType
Types == RowTyped /\ AddingTyped /\ JobsTyped /\ WorkTyped /\ LateTyped /\ CountsTyped

LEMMA TypesGiveTypeOK == Types => TypeOK
BY DEF Types, RowTyped, AddingTyped, JobsTyped, WorkTyped, LateTyped, CountsTyped, Tables, TypeOK

LEMMA Later ==
  ASSUME NEW x \in 0..MaxTime, NEW y \in 0..MaxTime, NEW z \in 0..MaxTime, x <= y, y <= z
  PROVE  x <= z
OBVIOUS

\* What a step leaves alone keeps its type.
LEMMA UnchangedTypes ==
  ASSUME Types, issued \subseteq issued', issued' \subseteq Token, now <= now', now' \in 0..MaxTime
  PROVE  /\ UNCHANGED row => RowTyped'
         /\ UNCHANGED adding => AddingTyped'
         /\ UNCHANGED <<jobs, reserved>> => JobsTyped'
         /\ UNCHANGED work => WorkTyped'
         /\ UNCHANGED late => LateTyped'
         /\ UNCHANGED <<losses, mishaps, blame>> => CountsTyped'
<1>1. UNCHANGED row => RowTyped'
  BY DEF Types, RowTyped
<1>2. UNCHANGED adding => AddingTyped'
  <2> SUFFICES ASSUME UNCHANGED adding PROVE AddingTyped'
    OBVIOUS
  <2>1. \A s \in Server : adding[s] \in [at : {"none", "token", "job"}, token : issued \cup {NoToken}]
    BY DEF Types, AddingTyped
  <2>2. \A s \in Server : adding[s] \in [at : {"none", "token", "job"}, token : issued' \cup {NoToken}]
    BY <2>1
  <2> QED  BY <2>2 DEF Types, AddingTyped
<1>3. UNCHANGED <<jobs, reserved>> => JobsTyped'
  <2> SUFFICES ASSUME UNCHANGED <<jobs, reserved>> PROVE JobsTyped'
    OBVIOUS
  <2>1. Tables'
    BY DEF Types, JobsTyped, Tables
  <2>2. ASSUME NEW s \in Server, NEW j \in jobs[s] PROVE j.token \in issued' /\ j.created <= now'
    <3>1. j \in Job /\ j.token \in issued /\ j.created <= now /\ now \in 0..MaxTime
      BY DEF Types, JobsTyped, Tables, CountsTyped
    <3>2. j.created \in 0..MaxTime
      BY <3>1, JobFields
    <3>3. j.created <= now'
      BY <3>1, <3>2, Later
    <3> QED  BY <3>1, <3>3
  <2> QED  BY <2>1, <2>2 DEF JobsTyped
<1>4. UNCHANGED work => WorkTyped'
  <2> SUFFICES ASSUME UNCHANGED work PROVE WorkTyped'
    OBVIOUS
  <2>1. ASSUME NEW k \in Cron, work[k] # Idle
        PROVE  work[k].job.token \in issued' /\ work[k].job.created <= now'
    <3>1. /\ work[k] \in WorkType /\ work[k].job.token \in issued /\ work[k].job.created <= now
          /\ now \in 0..MaxTime
      BY <2>1 DEF Types, WorkTyped, CountsTyped
    <3>2. work[k].job \in Job
      BY <2>1, <3>1, WorkFields
    <3>3. work[k].job.created \in 0..MaxTime
      BY <3>2, JobFields
    <3>4. work[k].job.created <= now'
      BY <3>1, <3>3, Later
    <3> QED  BY <3>1, <3>4
  <2> QED  BY <2>1 DEF Types, WorkTyped
<1>5. UNCHANGED late => LateTyped'
  BY DEF Types, LateTyped
<1>6. UNCHANGED <<losses, mishaps, blame>> => CountsTyped'
  BY DEF Types, CountsTyped
<1> QED
  BY <1>1, <1>2, <1>3, <1>4, <1>5, <1>6

\* The same where no token is generated and the clock stands still.
LEMMA UntouchedTypes ==
  ASSUME Types, UNCHANGED <<issued, now>>
  PROVE  /\ UNCHANGED row => RowTyped'
         /\ UNCHANGED adding => AddingTyped'
         /\ UNCHANGED <<jobs, reserved>> => JobsTyped'
         /\ UNCHANGED work => WorkTyped'
         /\ UNCHANGED late => LateTyped'
         /\ UNCHANGED <<losses, mishaps, blame>> => CountsTyped'
<1>1. issued' = issued /\ now' = now /\ issued \subseteq Token /\ now \in 0..MaxTime
  BY DEF Types, CountsTyped
<1> QED
  BY <1>1, UnchangedTypes

LEMMA JobsMade ==
  ASSUME Types, NEW t \in issued
  PROVE  /\ Request(t) \in Job /\ Request(t).what = "request" /\ Request(t).token = t /\ Request(t).created = now
         /\ \A x \in 0..MaxSecond :
              /\ Get(t, x) \in Job /\ Get(t, x).what = "get" /\ Get(t, x).token = t
              /\ Get(t, x).created = now
BY ConstantsAssumption DEF Types, CountsTyped, Request, Get, Job

\* A job that is listed, or that a cron runs.
LEMMA KnownJobs ==
  ASSUME Types
  PROVE  /\ \A s \in Server : \A j \in jobs[s] :
              j \in Job /\ j.token \in issued /\ j.token \in Token /\ j.created <= now
         /\ \A k \in Cron : work[k] # Idle =>
              /\ work[k].job \in Job /\ work[k].job.token \in issued /\ work[k].job.token \in Token
              /\ work[k].job.created <= now /\ work[k].job.what \in {"request", "get"}
<1>1. ASSUME NEW k \in Cron, work[k] # Idle
      PROVE  /\ work[k].job \in Job /\ work[k].job.token \in issued /\ work[k].job.created <= now
             /\ work[k].job.what \in {"request", "get"}
  BY <1>1, WorkFields, JobFields DEF Types, WorkTyped
<1> QED
  BY <1>1 DEF Types, JobsTyped, Tables, CountsTyped

-----------------------------------------------------------------------------
(* What each action does.                                                   *)

\* Everywhere but on server s the rows stay as they are.
RowsElsewhere(s) == \A t \in Server : t # s => row'[t] = row[t]

LEMMA RowEffect ==
  ASSUME Types, NEW s \in Server, NEW new \in RowType, new.token \in issued',
         issued \subseteq issued', row' = [row EXCEPT ![s] = new]
  PROVE  RowTyped' /\ row'[s] = new /\ row'[s] # NoRow /\ RowsElsewhere(s)
BY DEF Types, RowTyped, RowsElsewhere

LEMMA RowKept ==
  ASSUME Types, NEW s \in Server, NEW new \in RowType, new.token = row[s].token, row[s] # NoRow,
         issued' = issued, row' = [row EXCEPT ![s] = new]
  PROVE  RowTyped' /\ row'[s] = new /\ row'[s] # NoRow /\ RowsElsewhere(s)
BY DEF Types, RowTyped, RowsElsewhere

LEMMA MishapTyped ==
  ASSUME Types, UNCHANGED <<issued, now>>, losses' \in 0..MaxLosses, blame' \subseteq BlameType,
         Mishap \/ UNCHANGED mishaps
  PROVE  CountsTyped'
<1>1. mishaps' \in 0..MaxMishaps
  BY DEF Types, CountsTyped, Mishap
<1> QED
  BY <1>1 DEF Types, CountsTyped

LEMMA InsertEffect ==
  ASSUME Types, NEW s \in Server, InsertServer(s)
  PROVE  /\ Types' /\ UNCHANGED <<jobs, work, late, blame>>
         /\ row[s] = NoRow /\ row'[s] # NoRow /\ row'[s].token = NoToken /\ row'[s].secret = NoSecret
         /\ RowsElsewhere(s) /\ \A t \in Server : t # s => adding'[t] = adding[t]
<1>1. /\ UNCHANGED <<jobs, reserved, work, late, issued, blame, now, losses, mishaps>>
      /\ row[s] = NoRow /\ JobsTyped' /\ WorkTyped' /\ LateTyped' /\ CountsTyped'
  BY UntouchedTypes DEF InsertServer
<1>2. /\ RowTyped' /\ row'[s] # NoRow /\ row'[s].token = NoToken /\ row'[s].secret = NoSecret
      /\ RowsElsewhere(s)
  <2> DEFINE new == [token |-> NoToken, secret |-> NoSecret, status |-> "pending"]
  <2>1. new \in RowType /\ new.token = NoToken /\ new.secret = NoSecret /\ row' = [row EXCEPT ![s] = new]
    BY NewRow DEF InsertServer
  <2> HIDE DEF new
  <2> QED  BY <1>1, <2>1 DEF Types, RowTyped, RowsElsewhere
<1>3. AddingTyped' /\ \A t \in Server : t # s => adding'[t] = adding[t]
  <2>1. PICK S : S = issued \cup {NoToken}
    OBVIOUS
  <2>2. PICK c \in [at : {"none", "token", "job"}, token : S] : c = adding[s]
    BY <2>1 DEF Types, AddingTyped
  <2>3. PICK d \in [at : {"none", "token", "job"}, token : S] : d = [c EXCEPT !.at = "token"] /\ d.at = "token"
    BY CallFields
  <2>4. adding' = [adding EXCEPT ![s] = d]
    BY <2>2, <2>3 DEF InsertServer
  <2> QED  BY <1>1, <2>1, <2>3, <2>4 DEF Types, AddingTyped
<1> QED
  BY <1>1, <1>2, <1>3 DEF Types

LEMMA StoreEffect ==
  ASSUME Types, NEW s \in Server, StoreToken(s)
  PROVE  /\ Types' /\ UNCHANGED <<jobs, work, late, blame>>
         /\ adding[s].at = "token" /\ adding'[s].at = "job"
         /\ RowsElsewhere(s) /\ \A t \in Server : t # s => adding'[t] = adding[t]
         /\ row'[s] = NoRow <=> row[s] = NoRow
         /\ row[s] # NoRow => /\ row'[s].secret = row[s].secret /\ row'[s].status = row[s].status
                              /\ row'[s].token \in Token \ issued
<1>1. PICK t \in Token \ issued :
        /\ issued' = issued \cup {t}
        /\ row' = IF row[s] = NoRow THEN row ELSE [row EXCEPT ![s].token = t]
        /\ adding' = [adding EXCEPT ![s] = [at |-> "job", token |-> t]]
  BY DEF StoreToken
<1>2. /\ UNCHANGED <<jobs, reserved, work, late, blame, now, losses, mishaps>>
      /\ adding[s].at = "token" /\ issued' \subseteq Token /\ issued \subseteq issued' /\ t \in issued'
      /\ now <= now' /\ now' \in 0..MaxTime
  BY <1>1 DEF StoreToken, Types, CountsTyped
<1>3. JobsTyped' /\ WorkTyped' /\ LateTyped' /\ CountsTyped' /\ (UNCHANGED row => RowTyped')
  BY <1>2, UnchangedTypes
<1>4. /\ RowTyped' /\ RowsElsewhere(s) /\ (row'[s] = NoRow <=> row[s] = NoRow)
      /\ row[s] # NoRow => /\ row'[s].secret = row[s].secret /\ row'[s].status = row[s].status
                           /\ row'[s].token \in Token \ issued
  <2>1. CASE row[s] = NoRow
    BY <1>1, <1>3, <2>1 DEF RowsElsewhere
  <2>2. CASE row[s] # NoRow
    <3>1. PICK old \in RowType : old = row[s]
      BY <2>2 DEF Types, RowTyped
    <3>2. PICK new \in RowType : /\ new = [old EXCEPT !.token = t] /\ new.token = t
                                 /\ new.secret = old.secret /\ new.status = old.status
      BY RowFields
    <3>3. row' = [row EXCEPT ![s] = new]
      BY <1>1, <2>2, <3>1, <3>2
    <3>4. RowTyped' /\ row'[s] = new /\ row'[s] # NoRow /\ RowsElsewhere(s)
      BY <1>2, <3>2, <3>3, RowEffect
    <3> QED  BY <2>2, <3>1, <3>2, <3>4
  <2> QED  BY <2>1, <2>2
<1>5. AddingTyped' /\ adding'[s].at = "job" /\ \A r \in Server : r # s => adding'[r] = adding[r]
  <2>1. ASSUME NEW r \in Server, r # s
        PROVE  /\ adding'[r] \in [at : {"none", "token", "job"}, token : issued' \cup {NoToken}]
               /\ adding'[r] = adding[r] /\ (adding'[r].at = "job" => adding'[r].token \in issued')
    <3>1. adding[r] \in [at : {"none", "token", "job"}, token : issued \cup {NoToken}] /\ adding'[r] = adding[r]
      BY <1>1, <2>1 DEF Types, AddingTyped
    <3> QED  BY <1>2, <3>1 DEF Types, AddingTyped
  <2>2. PICK d : d = [at |-> "job", token |-> t]
    OBVIOUS
  <2>3. d \in [at : {"none", "token", "job"}, token : issued' \cup {NoToken}] /\ d.at = "job" /\ d.token \in issued'
    BY <1>2, <2>2
  <2>4. adding' = [adding EXCEPT ![s] = d]
    BY <1>1, <2>2
  <2>5. adding'[s] = d /\ DOMAIN adding' = Server /\ adding' = [r \in Server |-> adding'[r]]
    BY <2>4 DEF Types, AddingTyped
  <2> QED  BY <2>1, <2>3, <2>5 DEF AddingTyped
<1> QED
  BY <1>2, <1>3, <1>4, <1>5 DEF Types

LEMMA ListEffect ==
  ASSUME Types, NEW s \in Server, ListRequest(s)
  PROVE  /\ Types' /\ UNCHANGED <<row, work, late, blame>>
         /\ \A t \in Server : adding'[t].at = "token" => adding[t].at = "token"
         /\ \A t \in Server : jobs[t] \subseteq jobs'[t]
         /\ \A t \in Server : \A j \in Job : j \in jobs'[t] /\ j.what = "get" => j \in jobs[t]
<1>1. /\ UNCHANGED <<row, work, late, issued, blame, now, losses, mishaps>>
      /\ RowTyped' /\ WorkTyped' /\ LateTyped' /\ CountsTyped'
  BY UntouchedTypes DEF ListRequest
<1>2. adding[s].token \in issued
  BY DEF ListRequest, Types, AddingTyped
<1>3. PICK j \in Job : j = Request(adding[s].token) /\ j.what = "request" /\ j.token \in issued /\ j.created = now
  BY <1>2, JobsMade
<1>4. /\ Tables' /\ \A t \in Server : \A i \in Job : i \in jobs'[t] <=> i \in jobs[t] \/ (t = s /\ i = j)
  BY <1>3, AddJobEffect DEF ListRequest, Types, JobsTyped
<1>5. JobsTyped'
  <2>1. now \in 0..MaxTime
    BY DEF Types, CountsTyped
  <2>2. ASSUME NEW t \in Server, NEW i \in jobs'[t] PROVE i.token \in issued' /\ i.created <= now'
    <3>1. i \in Job
      BY <1>4 DEF Tables
    <3> QED  BY <1>1, <1>3, <1>4, <2>1, <3>1, KnownJobs
  <2> QED  BY <1>4, <2>2 DEF JobsTyped
<1>6. AddingTyped' /\ \A t \in Server : adding'[t].at = "token" => adding[t].at = "token"
  <2>1. PICK d : d = NoCall
    OBVIOUS
  <2>2. d \in [at : {"none", "token", "job"}, token : issued \cup {NoToken}] /\ d.at = "none"
    BY <2>1 DEF NoCall
  <2>3. adding' = [adding EXCEPT ![s] = d]
    BY <2>1 DEF ListRequest
  <2> QED  BY <1>1, <2>2, <2>3 DEF Types, AddingTyped
<1>7. \A t \in Server : jobs[t] \subseteq jobs'[t]
  BY <1>4 DEF Types, JobsTyped, Tables
<1>8. \A t \in Server : \A i \in Job : i \in jobs'[t] /\ i.what = "get" => i \in jobs[t]
  BY <1>3, <1>4
<1> QED
  BY <1>1, <1>5, <1>6, <1>7, <1>8 DEF Types

LEMMA RemovedEffect ==
  ASSUME Types, NEW s \in Server, RemoveServer(s)
  PROVE  /\ Types' /\ UNCHANGED <<adding, work, late>> /\ blame \subseteq blame'
         /\ row'[s] = NoRow /\ RowsElsewhere(s)
         /\ jobs'[s] = {} /\ \A t \in Server : t # s => jobs'[t] = jobs[t]
         /\ \A k \in Cron : Home[k] = s /\ work[k] # Idle => "survived" \in blame'
<1>1. /\ UNCHANGED <<adding, work, late, issued, now, losses>> /\ Mishap
      /\ blame' = blame \cup ({"removed"} \cup {"survived" : k \in {l \in Cron : Home[l] = s /\ work[l] # Idle}})
      /\ AddingTyped' /\ WorkTyped' /\ LateTyped'
  BY UntouchedTypes DEF RemoveServer, Blame
<1>2. CountsTyped'
  <2>1. blame' \subseteq BlameType
    <3>1. blame \subseteq BlameType /\ {"survived" : k \in {l \in Cron : Home[l] = s /\ work[l] # Idle}} \subseteq BlameType
      BY DEF Types, CountsTyped, BlameType
    <3> QED  BY <1>1, <3>1 DEF BlameType
  <2> QED  BY <1>1, <2>1, MishapTyped DEF Types, CountsTyped
<1>3. RowTyped' /\ row'[s] = NoRow /\ RowsElsewhere(s)
  BY <1>1 DEF RemoveServer, Types, RowTyped, RowsElsewhere
<1>4. /\ Tables' /\ jobs'[s] = {} /\ \A t \in Server : t # s => jobs'[t] = jobs[t]
  <2>1. PICK J \in SUBSET Job : J = {}
    OBVIOUS
  <2>2. PICK R \in SUBSET J : R = {}
    OBVIOUS
  <2>3. Table(s, J, R)
    BY <2>1, <2>2 DEF RemoveServer
  <2> QED  BY <2>1, <2>3, TableEffect DEF Types, JobsTyped
<1>5. JobsTyped'
  BY <1>1, <1>4 DEF Types, JobsTyped
<1> QED
  BY <1>1, <1>2, <1>3, <1>4, <1>5 DEF Types

\* What a server does with a request: a request for the exchange may list a
\* job, one for a secret may store a new one, the rest stays.
Listing(p, t) == /\ row[p] # NoRow /\ row[p].token \in Token /\ row[p].token <= t
Giving(p, t)  == /\ row[p] # NoRow /\ row[p].token = t

LEMMA EndpointEffect ==
  ASSUME Types, NEW p \in Server, NEW what \in {"request", "get"}, NEW t \in issued,
         Endpoint(p, what, t), UNCHANGED <<issued, now>>
  PROVE  /\ RowTyped' /\ JobsTyped' /\ RowsElsewhere(p)
         /\ what = "request" => UNCHANGED row
         /\ what = "get" => UNCHANGED jobs
         /\ row'[p] = NoRow <=> row[p] = NoRow
         /\ row[p] # NoRow => row'[p].token = row[p].token /\ row'[p].status = row[p].status
         /\ IF what = "get" /\ Giving(p, t) THEN row'[p].secret = NewSecret ELSE UNCHANGED row
         /\ \A s \in Server : \A j \in Job :
              /\ j \in jobs[s] => j \in jobs'[s]
              /\ j \in jobs'[s] => j \in jobs[s] \/ (s = p /\ j.token = t /\ Listing(p, t))
         /\ Answer(p, what, t) \in Reply
         /\ what = "get" =>
              /\ Answer(p, what, t).code = "ok" => Giving(p, t) /\ Answer(p, what, t).secret = NewSecret
              /\ Giving(p, t) => Answer(p, what, t).code = "ok"
<1>1. /\ row \in [Server -> RowType \cup {NoRow}] /\ Tables /\ t \in Token
      /\ row[p] # NoRow => row[p] \in RowType /\ row[p].token \in Token \cup {NoToken}
      /\ now \in 0..MaxTime /\ issued' = issued /\ now' = now
  BY RowFields DEF Types, RowTyped, JobsTyped, CountsTyped
<1>2. /\ Verdict(p, what, t) \in {"ok", "denied", "failed"}
      /\ what = "get" => (Verdict(p, what, t) = "ok" <=> Giving(p, t))
      /\ what = "request" /\ Verdict(p, what, t) = "ok" => Listing(p, t)
  BY <1>1 DEF Verdict, Checked, Giving, Listing
<1>3. /\ Answer(p, what, t) \in Reply
      /\ what = "get" =>
           /\ Answer(p, what, t).code = "ok" => Giving(p, t) /\ Answer(p, what, t).secret = NewSecret
           /\ Giving(p, t) => Answer(p, what, t).code = "ok"
  <2>1. PICK x : x = IF Verdict(p, what, t) = "ok" /\ what = "get" THEN NewSecret ELSE NoSecret
    OBVIOUS
  <2>2. PICK c : c = Verdict(p, what, t)
    OBVIOUS
  <2>3. Answer(p, what, t) = [code |-> c, secret |-> x]
    BY <2>1, <2>2 DEF Answer
  <2>4. /\ c \in {"ok", "denied", "failed"} /\ x \in Secret \cup {NoSecret} /\ (c # "ok" => x = NoSecret)
        /\ what = "get" /\ c = "ok" => x = NewSecret
    BY <1>2, <2>1, <2>2, SecretType
  <2>5. [code |-> c, secret |-> x] \in Reply
    BY <2>4 DEF Reply
  <2> QED  BY <1>2, <2>2, <2>3, <2>4, <2>5
<1>4. CASE what = "get" /\ Giving(p, t)
  <2>1. UNCHANGED <<jobs, reserved>> /\ row' = [row EXCEPT ![p].secret = NewSecret]
    BY <1>2, <1>4 DEF Endpoint
  <2>2. PICK old \in RowType : old = row[p]
    BY <1>1, <1>4 DEF Giving
  <2>3. PICK x \in Secret \cup {NoSecret} : x = NewSecret
    BY SecretType
  <2>4. PICK new \in RowType : /\ new = [old EXCEPT !.secret = x] /\ new.secret = x
                               /\ new.token = old.token /\ new.status = old.status
    BY RowFields
  <2>5. row' = [row EXCEPT ![p] = new] /\ new.token = row[p].token /\ row[p] # NoRow
    BY <1>4, <2>1, <2>2, <2>3, <2>4 DEF Giving
  <2>6. RowTyped' /\ row'[p] = new /\ row'[p] # NoRow /\ RowsElsewhere(p)
    BY <1>1, <2>5, RowKept
  <2>7. JobsTyped'
    BY <1>1, <2>1, UntouchedTypes
  <2> QED  BY <1>3, <1>4, <2>1, <2>2, <2>3, <2>4, <2>5, <2>6, <2>7
<1>5. CASE what = "request" /\ Verdict(p, what, t) = "ok"
  <2>1. PICK x \in 0..MaxSecond : AddJob(p, Get(t, x)) /\ row' = row
    BY <1>5 DEF Endpoint
  <2>2. PICK j \in Job : j = Get(t, x) /\ j.token = t /\ j.created = now
    BY JobsMade
  <2>3. /\ Tables' /\ \A s \in Server : \A i \in Job : i \in jobs'[s] <=> i \in jobs[s] \/ (s = p /\ i = j)
    BY <1>1, <2>1, <2>2, AddJobEffect
  <2>4. JobsTyped'
    <3>1. ASSUME NEW s \in Server, NEW i \in jobs'[s] PROVE i.token \in issued' /\ i.created <= now'
      <4>1. i \in Job
        BY <2>3 DEF Tables
      <4> QED  BY <1>1, <2>2, <2>3, <4>1, KnownJobs
    <3> QED  BY <2>3, <3>1 DEF JobsTyped
  <2>5. RowTyped' /\ RowsElsewhere(p)
    BY <1>1, <2>1, UntouchedTypes DEF RowsElsewhere
  <2> QED  BY <1>2, <1>3, <1>5, <2>1, <2>2, <2>3, <2>4, <2>5
<1>6. CASE ~(what = "get" /\ Giving(p, t)) /\ ~(what = "request" /\ Verdict(p, what, t) = "ok")
  <2>1. UNCHANGED <<jobs, reserved>> /\ row' = row
    BY <1>2, <1>6 DEF Endpoint
  <2>2. RowTyped' /\ JobsTyped' /\ RowsElsewhere(p)
    BY <1>1, <2>1, UntouchedTypes DEF RowsElsewhere
  <2> QED  BY <1>3, <1>6, <2>1, <2>2
<1> QED
  BY <1>4, <1>5, <1>6

\* Only cron process k goes on.
OthersWait(k) == \A l \in Cron : l # k => work'[l] = work[l]

\* What k does next is about the job it ran, or it is done.
LEMMA GoesOn ==
  ASSUME Types, UNCHANGED <<issued, now>>, NEW k \in Cron, NEW w \in WorkType, Go(k, w),
         w # Idle => w.job.token \in issued /\ w.job.created <= now
  PROVE  WorkTyped' /\ work'[k] = w /\ OthersWait(k)
<1>1. work' \in [Cron -> WorkType] /\ work'[k] = w /\ OthersWait(k)
  BY GoEffect DEF Types, WorkTyped, OthersWait
<1> QED
  BY <1>1 DEF Types, WorkTyped, OthersWait

OverlapEffect(what) == /\ blame \subseteq blame' /\ blame' \subseteq blame \cup {"overlap"}
                       /\ what = "get" /\ (Cardinality(OpenGets) > 1 \/ LateGets # {}) => "overlap" \in blame'

LEMMA OverlapTyped ==
  ASSUME Types, UNCHANGED <<issued, now, losses, mishaps>>, NEW what, Overlap(what)
  PROVE  CountsTyped' /\ OverlapEffect(what)
BY DEF Types, CountsTyped, Overlap, OverlapEffect, Blame, BlameType

LEMMA HandleEffect ==
  ASSUME Types, NEW k \in Cron, Handle(k)
  PROVE  LET p == Peer(Home[k])  j == work[k].job IN
         /\ Types' /\ UNCHANGED <<adding, late>> /\ OthersWait(k) /\ RowsElsewhere(p)
         /\ OverlapEffect(j.what)
         /\ work[k] # Idle /\ work[k].at = "sent" /\ p \in Server
         /\ work'[k] # Idle /\ work'[k].at = "answered" /\ work'[k].job = j
         /\ row'[p] = NoRow <=> row[p] = NoRow
         /\ row[p] # NoRow => row'[p].token = row[p].token /\ row'[p].status = row[p].status
         /\ IF j.what = "get" /\ Giving(p, j.token) THEN row'[p].secret = work'[k].reply.secret ELSE UNCHANGED row
         /\ j.what = "get" => (work'[k].reply.code = "ok" <=> Giving(p, j.token))
         /\ \A s \in Server : \A i \in Job :
              /\ i \in jobs[s] => i \in jobs'[s]
              /\ i \in jobs'[s] => i \in jobs[s] \/ (s = p /\ Listing(p, i.token))
<1> DEFINE p == Peer(Home[k])
<1>1. p \in Server /\ Home[k] \in Server
  BY Peers
<1>2. PICK j \in Job : j = work[k].job /\ j.token \in issued /\ j.created <= now /\ j.what \in {"request", "get"}
  BY KnownJobs, WorkFields DEF Handle, Types, WorkTyped
<1>3. work[k] # Idle /\ work[k].at = "sent"
  BY WorkFields DEF Handle, Types, WorkTyped
<1>4. /\ Endpoint(p, j.what, j.token) /\ Overlap(j.what)
      /\ Go(k, [at |-> "answered", job |-> j, reply |-> Answer(p, j.what, j.token)])
      /\ UNCHANGED <<adding, late, issued, now, losses, mishaps>>
  BY <1>2 DEF Handle
<1> HIDE DEF p
<1>5. PICK what \in {"request", "get"} : what = j.what
  BY <1>2
<1>6. PICK t \in issued : t = j.token
  BY <1>2
<1>7. PICK r \in Reply : r = Answer(p, what, t)
  BY <1>1, <1>4, <1>5, <1>6, EndpointEffect
<1>8. PICK w \in WorkType : /\ w = [at |-> "answered", job |-> j, reply |-> r] /\ w # Idle
                            /\ w.at = "answered" /\ w.job = j /\ w.reply = r
  BY AnsweredMade
<1>9. Go(k, w)
  BY <1>4, <1>5, <1>6, <1>7, <1>8
<1>10. WorkTyped' /\ work'[k] = w /\ OthersWait(k)
  BY <1>2, <1>4, <1>8, <1>9, GoesOn
<1>11. /\ RowTyped' /\ JobsTyped' /\ RowsElsewhere(p)
       /\ row'[p] = NoRow <=> row[p] = NoRow
       /\ row[p] # NoRow => row'[p].token = row[p].token /\ row'[p].status = row[p].status
       /\ IF what = "get" /\ Giving(p, t) THEN row'[p].secret = NewSecret ELSE UNCHANGED row
       /\ \A s \in Server : \A i \in Job :
              /\ i \in jobs[s] => i \in jobs'[s]
              /\ i \in jobs'[s] => i \in jobs[s] \/ (s = p /\ i.token = t /\ Listing(p, t))
       /\ what = "get" =>
            /\ r.code = "ok" => Giving(p, t) /\ r.secret = NewSecret
            /\ Giving(p, t) => r.code = "ok"
  BY <1>1, <1>4, <1>5, <1>6, <1>7, EndpointEffect
<1>12. AddingTyped' /\ LateTyped' /\ CountsTyped' /\ OverlapEffect(j.what)
  BY <1>4, UntouchedTypes, OverlapTyped
<1>13. Types'
  BY <1>10, <1>11, <1>12 DEF Types
<1> QED
  BY <1>1, <1>2, <1>3, <1>4, <1>5, <1>6, <1>8, <1>9, <1>10, <1>11, <1>12, <1>13 DEF p

LEMMA LateEffect ==
  ASSUME Types, NEW m \in late, HandleLate(m)
  PROVE  /\ Types' /\ UNCHANGED <<adding, work>>
         /\ blame \subseteq blame' /\ (UNCHANGED row \/ "overlap" \in blame')
         /\ \A s \in Server : /\ row'[s] = NoRow <=> row[s] = NoRow
                              /\ row[s] # NoRow => row'[s].token = row[s].token /\ row'[s].status = row[s].status
         /\ \A s \in Server : \A i \in Job :
              /\ i \in jobs[s] => i \in jobs'[s]
              /\ i \in jobs'[s] => i \in jobs[s] \/ Listing(s, i.token)
<1>1. /\ m.to \in Server /\ m.what \in {"request", "get"} /\ m.token \in issued
  BY DEF Types, LateTyped
<1>2. /\ late' = late \ {m} /\ Endpoint(m.to, m.what, m.token) /\ Overlap(m.what)
      /\ UNCHANGED <<adding, work, issued, now, losses, mishaps>>
  BY DEF HandleLate
<1>3. PICK p \in Server : p = m.to
  BY <1>1
<1>4. PICK what \in {"request", "get"} : what = m.what
  BY <1>1
<1>5. PICK t \in issued : t = m.token
  BY <1>1
<1>6. /\ RowTyped' /\ JobsTyped' /\ RowsElsewhere(p)
      /\ row'[p] = NoRow <=> row[p] = NoRow
      /\ row[p] # NoRow => row'[p].token = row[p].token /\ row'[p].status = row[p].status
      /\ what = "request" => UNCHANGED row
      /\ \A s \in Server : \A i \in Job :
              /\ i \in jobs[s] => i \in jobs'[s]
              /\ i \in jobs'[s] => i \in jobs[s] \/ (s = p /\ i.token = t /\ Listing(p, t))
  BY <1>2, <1>3, <1>4, <1>5, EndpointEffect
<1>7. AddingTyped' /\ WorkTyped' /\ CountsTyped' /\ OverlapEffect(what)
  BY <1>2, <1>4, UntouchedTypes, OverlapTyped
<1>8. LateTyped'
  BY <1>2 DEF Types, LateTyped
<1>9. what = "get" => LateGets # {}
  BY <1>4 DEF LateGets
<1>10. Types'
  BY <1>6, <1>7, <1>8 DEF Types
<1> QED
  BY <1>2, <1>6, <1>7, <1>9, <1>10 DEF OverlapEffect, RowsElsewhere

LEMMA StartEffect ==
  ASSUME Types, NEW k \in Cron, NEW j, Start(k, j)
  PROVE  LET s == Home[k] IN
         /\ Types' /\ UNCHANGED <<adding, late, jobs>> /\ OthersWait(k) /\ RowsElsewhere(s)
         /\ j \in jobs[s] /\ j \in Job /\ s \in Server /\ work[k] = Idle
         /\ work'[k] # Idle /\ work'[k].job = j /\ work'[k].at \in {"remove", "sent"}
         /\ row'[s] = NoRow <=> row[s] = NoRow
         /\ row[s] # NoRow => row'[s].token = row[s].token /\ row'[s].secret = row[s].secret
         /\ work'[k].at = "sent" => UNCHANGED row
         /\ work'[k].at = "remove" => row[s] = NoRow \/ row'[s].status = "failure"
         /\ row[s] = NoRow => UNCHANGED row
         /\ row[s] # NoRow /\ row[s].status = "failure" => row'[s].status = "failure"
         /\ blame \subseteq blame' /\ (Runners(s, j) = {} \/ "twice" \in blame')
<1>1. PICK s \in Server : s = Home[k]
  OBVIOUS
<1>2. /\ j \in jobs[s] /\ work[k] = Idle /\ UNCHANGED <<adding, late, issued, now, losses>>
      /\ j \in Job /\ j.token \in issued /\ j.created <= now
  BY <1>1, KnownJobs DEF Start
<1>3. /\ blame \subseteq blame' /\ blame' \subseteq blame \cup {"twice"} /\ (Mishap \/ UNCHANGED mishaps)
      /\ Runners(s, j) = {} \/ "twice" \in blame'
  BY <1>1 DEF Start, Blame
<1>4. CountsTyped' /\ AddingTyped' /\ LateTyped'
  <2>1. blame' \subseteq BlameType
    BY <1>3 DEF Types, CountsTyped, BlameType
  <2>2. CountsTyped'
    BY <1>2, <1>3, <2>1, MishapTyped DEF Types, CountsTyped
  <2> QED  BY <1>2, <2>2, UntouchedTypes
<1>5. ASSUME Table(s, jobs[s], reserved[s] \cup {j}) \/ UNCHANGED <<jobs, reserved>>
      PROVE  JobsTyped' /\ UNCHANGED jobs
  <2>1. CASE UNCHANGED <<jobs, reserved>>
    BY <1>2, <2>1, UntouchedTypes
  <2>2. CASE Table(s, jobs[s], reserved[s] \cup {j})
    <3>1. /\ jobs \in [Server -> SUBSET Job] /\ jobs[s] \in SUBSET Job /\ reserved[s] \cup {j} \in SUBSET jobs[s]
      BY <1>2 DEF Types, JobsTyped, Tables
    <3>2. Tables' /\ UNCHANGED jobs
      BY <2>2, <3>1, TableEffect DEF Types, JobsTyped, Table
    <3> QED  BY <1>2, <3>2 DEF Types, JobsTyped
  <2> QED  BY <1>5, <2>1, <2>2
<1>6. CASE row[s] = NoRow
  <2>1. PICK w \in WorkType : /\ w = [at |-> "remove", job |-> j, retain |-> FALSE] /\ w # Idle
                              /\ w.at = "remove" /\ w.job = j /\ w.retain = FALSE
    BY <1>2, RemoveMade
  <2>2. Go(k, w) /\ Table(s, jobs[s], reserved[s] \cup {j}) /\ UNCHANGED row
    BY <1>1, <1>6, <2>1 DEF Start
  <2>3. WorkTyped' /\ work'[k] = w /\ OthersWait(k)
    BY <1>2, <2>1, <2>2, GoesOn
  <2>4. RowTyped' /\ RowsElsewhere(s) /\ JobsTyped' /\ UNCHANGED jobs
    BY <1>2, <1>5, <2>2, UntouchedTypes DEF RowsElsewhere
  <2> QED  BY <1>1, <1>2, <1>3, <1>4, <1>6, <2>1, <2>2, <2>3, <2>4 DEF Types
<1>7. CASE row[s] # NoRow /\ TooOld(j)
  <2>1. PICK w \in WorkType : /\ w = [at |-> "remove", job |-> j, retain |-> FALSE] /\ w # Idle
                              /\ w.at = "remove" /\ w.job = j /\ w.retain = FALSE
    BY <1>2, RemoveMade
  <2>2. Go(k, w) /\ UNCHANGED <<jobs, reserved>> /\ row' = [row EXCEPT ![s].status = "failure"]
    BY <1>1, <1>7, <2>1 DEF Start
  <2>3. WorkTyped' /\ work'[k] = w /\ OthersWait(k)
    BY <1>2, <2>1, <2>2, GoesOn
  <2>4. PICK old \in RowType : old = row[s]
    BY <1>7 DEF Types, RowTyped
  <2>5. PICK new \in RowType : /\ new = [old EXCEPT !.status = "failure"] /\ new.status = "failure"
                               /\ new.token = old.token /\ new.secret = old.secret
    BY RowFields
  <2>6. row' = [row EXCEPT ![s] = new] /\ new.token = row[s].token
    BY <2>2, <2>4, <2>5
  <2>7. RowTyped' /\ row'[s] = new /\ row'[s] # NoRow /\ RowsElsewhere(s)
    BY <1>2, <1>7, <2>6, RowKept
  <2>8. JobsTyped' /\ UNCHANGED jobs
    BY <1>5, <2>2
  <2> QED  BY <1>1, <1>2, <1>3, <1>4, <1>7, <2>1, <2>3, <2>4, <2>5, <2>7, <2>8 DEF Types
<1>8. CASE row[s] # NoRow /\ ~TooOld(j)
  <2>1. PICK w \in WorkType : w = [at |-> "sent", job |-> j] /\ w.at = "sent" /\ w.job = j /\ w # Idle
    BY <1>2, SentMade
  <2>2. Go(k, w) /\ Table(s, jobs[s], reserved[s] \cup {j}) /\ UNCHANGED row
    BY <1>1, <1>8, <2>1 DEF Start
  <2>3. WorkTyped' /\ work'[k] = w /\ OthersWait(k)
    BY <1>2, <2>1, <2>2, GoesOn
  <2>4. RowTyped' /\ RowsElsewhere(s) /\ JobsTyped' /\ UNCHANGED jobs
    BY <1>2, <1>5, <2>2, UntouchedTypes DEF RowsElsewhere
  <2> QED  BY <1>1, <1>2, <1>3, <1>4, <1>8, <2>1, <2>2, <2>3, <2>4 DEF Types
<1> QED
  BY <1>6, <1>7, <1>8

LEMMA GiveUpEffect ==
  ASSUME Types, NEW k \in Cron, GiveUp(k)
  PROVE  /\ Types' /\ UNCHANGED <<row, adding, jobs, blame>> /\ OthersWait(k)
         /\ work[k] # Idle /\ work[k].at \in {"sent", "answered"}
         /\ work'[k] # Idle /\ work'[k].job = work[k].job /\ work'[k].at = "answered"
         /\ work'[k].reply.code = "failed"
<1>1. PICK j \in Job : j = work[k].job /\ j.token \in issued /\ j.created <= now /\ j.what \in {"request", "get"}
  BY KnownJobs, WorkFields DEF GiveUp, Types, WorkTyped
<1>2. work[k] # Idle /\ work[k].at \in {"sent", "answered"}
  BY WorkFields DEF GiveUp, Types, WorkTyped
<1>3. PICK w \in WorkType : /\ w = [at |-> "answered", job |-> j, reply |-> NoAnswer] /\ w # Idle
                            /\ w.at = "answered" /\ w.job = j /\ w.reply = NoAnswer
  BY AnsweredMade, ReplyFields
<1>4. /\ Go(k, w) /\ UNCHANGED <<row, adding, jobs, reserved, issued, now, mishaps, blame>>
      /\ losses < MaxLosses /\ losses' = losses + 1
      /\ UNCHANGED late \/ late' = late \cup {[to |-> Peer(Home[k]), what |-> j.what, token |-> j.token]}
  BY <1>1, <1>3 DEF GiveUp
<1>5. WorkTyped' /\ work'[k] = w /\ OthersWait(k)
  BY <1>1, <1>3, <1>4, GoesOn
<1>6. RowTyped' /\ AddingTyped' /\ JobsTyped'
  BY <1>4, UntouchedTypes
<1>7. CountsTyped'
  BY <1>4 DEF Types, CountsTyped
<1>8. LateTyped'
  <2>1. CASE UNCHANGED late
    BY <1>4, <2>1, UntouchedTypes
  <2>2. CASE late' = late \cup {[to |-> Peer(Home[k]), what |-> j.what, token |-> j.token]}
    <3>1. Peer(Home[k]) \in Server
      BY Peers
    <3>2. PICK m : m = [to |-> Peer(Home[k]), what |-> j.what, token |-> j.token]
      OBVIOUS
    <3>3. m \in [to : Server, what : {"request", "get"}, token : Token] /\ m.token \in issued
      BY <1>1, <3>1, <3>2 DEF Types, CountsTyped
    <3>4. late' = late \cup {m}
      BY <2>2, <3>2
    <3> QED  BY <1>4, <3>3, <3>4 DEF Types, LateTyped
  <2> QED  BY <1>4, <2>1, <2>2
<1>9. Types'
  BY <1>5, <1>6, <1>7, <1>8 DEF Types
<1> QED
  BY <1>1, <1>2, <1>3, <1>4, <1>5, <1>9, ReplyFields

LEMMA ApplyEffect ==
  ASSUME Types, NEW k \in Cron, Apply(k)
  PROVE  LET s == Home[k]  j == work[k].job  reply == work[k].reply IN
         /\ Types' /\ UNCHANGED <<adding, late, jobs, blame>> /\ OthersWait(k) /\ RowsElsewhere(s)
         /\ s \in Server /\ work[k] # Idle /\ work[k].at = "answered"
         /\ work'[k] # Idle /\ work'[k].at = "remove" /\ work'[k].job = j
         /\ reply.code = "failed" => work'[k].retain
         /\ row'[s] = NoRow <=> row[s] = NoRow
         /\ row[s] # NoRow => row'[s].token = row[s].token /\ row'[s].status = row[s].status
         /\ IF j.what = "get" /\ reply.code = "ok" /\ row[s] # NoRow
            THEN row'[s].secret = reply.secret ELSE UNCHANGED row
<1>1. PICK s \in Server : s = Home[k]
  OBVIOUS
<1>2. work[k] # Idle /\ work[k].at = "answered" /\ work[k] \in WorkType
  BY WorkFields DEF Apply, Types, WorkTyped
<1>3. PICK j \in Job : j = work[k].job /\ j.token \in issued /\ j.created <= now
  BY <1>2, KnownJobs
<1>4. PICK r \in Reply : r = work[k].reply
  BY <1>2, WorkFields
<1>5. PICK b \in BOOLEAN : b = Retain(j, r.code)
  BY DEF Retain
<1>6. r.code = "failed" => b
  BY <1>5 DEF Retain
<1>7. PICK w \in WorkType : /\ w = [at |-> "remove", job |-> j, retain |-> b] /\ w # Idle
                            /\ w.at = "remove" /\ w.job = j /\ w.retain = b
  BY <1>3, RemoveMade
<1>8. /\ Go(k, w) /\ Table(s, jobs[s], reserved[s] \ {j})
      /\ UNCHANGED <<adding, late, issued, blame, now, losses, mishaps>>
      /\ row' = IF j.what = "get" /\ r.code = "ok" /\ row[s] # NoRow
                THEN [row EXCEPT ![s].secret = r.secret] ELSE row
  BY <1>1, <1>3, <1>4, <1>5, <1>7 DEF Apply
<1>9. WorkTyped' /\ work'[k] = w /\ OthersWait(k)
  BY <1>3, <1>7, <1>8, GoesOn
<1>10. JobsTyped' /\ UNCHANGED jobs
  <2>1. /\ jobs \in [Server -> SUBSET Job] /\ jobs[s] \in SUBSET Job /\ reserved[s] \ {j} \in SUBSET jobs[s]
    BY DEF Types, JobsTyped, Tables
  <2>2. Tables' /\ UNCHANGED jobs
    BY <1>8, <2>1, TableEffect DEF Types, JobsTyped, Table
  <2> QED  BY <1>8, <2>2 DEF Types, JobsTyped
<1>11. /\ RowTyped' /\ RowsElsewhere(s) /\ (row'[s] = NoRow <=> row[s] = NoRow)
       /\ row[s] # NoRow => row'[s].token = row[s].token /\ row'[s].status = row[s].status
       /\ IF j.what = "get" /\ r.code = "ok" /\ row[s] # NoRow
          THEN row'[s].secret = r.secret ELSE UNCHANGED row
  <2>1. CASE ~(j.what = "get" /\ r.code = "ok" /\ row[s] # NoRow)
    BY <1>8, <2>1, UntouchedTypes DEF RowsElsewhere
  <2>2. CASE j.what = "get" /\ r.code = "ok" /\ row[s] # NoRow
    <3>1. PICK old \in RowType : old = row[s]
      BY <2>2 DEF Types, RowTyped
    <3>2. PICK x \in Secret \cup {NoSecret} : x = r.secret
      BY ReplyFields
    <3>3. PICK new \in RowType : /\ new = [old EXCEPT !.secret = x] /\ new.secret = x
                                 /\ new.token = old.token /\ new.status = old.status
      BY RowFields
    <3>4. row' = [row EXCEPT ![s] = new] /\ new.token = row[s].token
      BY <1>8, <2>2, <3>1, <3>2, <3>3
    <3>5. RowTyped' /\ row'[s] = new /\ row'[s] # NoRow /\ RowsElsewhere(s)
      BY <1>8, <2>2, <3>4, RowKept
    <3> QED  BY <2>2, <3>1, <3>2, <3>3, <3>5
  <2> QED  BY <2>1, <2>2
<1>12. AddingTyped' /\ LateTyped' /\ CountsTyped'
  BY <1>8, UntouchedTypes
<1>13. Types'
  BY <1>9, <1>10, <1>11, <1>12 DEF Types
<1> QED
  BY <1>1, <1>2, <1>3, <1>4, <1>6, <1>7, <1>8, <1>9, <1>10, <1>11, <1>13

LEMMA RemoveEffect ==
  ASSUME Types, NEW k \in Cron, Remove(k)
  PROVE  LET s == Home[k]  j == work[k].job IN
         /\ Types' /\ UNCHANGED <<row, adding, late, blame>> /\ OthersWait(k)
         /\ s \in Server /\ work[k] # Idle /\ work[k].at = "remove"
         /\ IF work[k].retain THEN work'[k] # Idle /\ work'[k].at = "add" /\ work'[k].job = j ELSE work'[k] = Idle
         /\ \A t \in Server : \A i \in Job : i \in jobs'[t] <=> i \in jobs[t] /\ ~(t = s /\ i = j)
<1>1. PICK s \in Server : s = Home[k]
  OBVIOUS
<1>2. PICK v \in WorkType : v = work[k] /\ v # Idle /\ v.at = "remove"
  BY WorkFields DEF Remove, Types, WorkTyped
<1>3. PICK j \in Job : j = v.job /\ j.token \in issued /\ j.created <= now
  BY <1>2, KnownJobs
<1>4. /\ DropJob(s, j) /\ Go(k, IF v.retain THEN [v EXCEPT !.at = "add"] ELSE Idle)
      /\ UNCHANGED <<row, adding, late, issued, blame, now, losses, mishaps>>
  BY <1>1, <1>2, <1>3 DEF Remove
<1>5. PICK w \in WorkType : /\ w = IF v.retain THEN [v EXCEPT !.at = "add"] ELSE Idle
                            /\ IF v.retain THEN w # Idle /\ w.at = "add" /\ w.job = j ELSE w = Idle
  <2>1. CASE v.retain
    <3>1. PICK w \in WorkType : w = [v EXCEPT !.at = "add"] /\ w.at = "add" /\ w.job = v.job
      BY <1>2, WorkFields
    <3>2. w # Idle
      BY <3>1, WorkFields
    <3> QED  BY <1>3, <2>1, <3>1, <3>2
  <2>2. CASE ~v.retain
    BY <2>2, IdleWork
  <2> QED  BY <2>1, <2>2
<1>6. WorkTyped' /\ work'[k] = w /\ OthersWait(k)
  BY <1>3, <1>4, <1>5, GoesOn
<1>7. /\ Tables'
      /\ \A t \in Server : \A i \in Job : i \in jobs'[t] <=> i \in jobs[t] /\ ~(t = s /\ i = j)
  BY <1>4, DropJobEffect DEF Types, JobsTyped
<1>8. JobsTyped'
  BY <1>4, <1>7 DEF Types, JobsTyped, Tables
<1>9. RowTyped' /\ AddingTyped' /\ LateTyped' /\ CountsTyped'
  BY <1>4, UntouchedTypes
<1>10. Types'
  BY <1>6, <1>8, <1>9 DEF Types
<1> QED
  BY <1>1, <1>2, <1>3, <1>4, <1>5, <1>6, <1>7, <1>10

LEMMA ReAddEffect ==
  ASSUME Types, NEW k \in Cron, ReAdd(k)
  PROVE  LET s == Home[k]  j == work[k].job IN
         /\ Types' /\ UNCHANGED <<row, adding, late, blame>> /\ OthersWait(k)
         /\ s \in Server /\ work[k] # Idle /\ work[k].at = "add" /\ work'[k] = Idle
         /\ \A t \in Server : jobs[t] \subseteq jobs'[t]
         /\ j.what = "get" => /\ j \in jobs'[s]
                              /\ \A t \in Server : \A i \in Job : i \in jobs'[t] => i \in jobs[t] \/ (t = s /\ i = j)
         /\ j.what # "get" => \A t \in Server : \A i \in Job : i \in jobs'[t] /\ i.what = "get" => i \in jobs[t]
<1>1. PICK s \in Server : s = Home[k]
  OBVIOUS
<1>2. work[k] # Idle /\ work[k].at = "add"
  BY WorkFields DEF ReAdd, Types, WorkTyped
<1>3. PICK j \in Job : j = work[k].job /\ j.token \in issued /\ j.created <= now
  BY <1>2, KnownJobs
<1>4. PICK n \in 0..MaxAttempts :
        n = IF j.what = "request" /\ j.attempt < MaxAttempts THEN j.attempt + 1 ELSE j.attempt
  BY JobFields
<1>5. PICK i \in Job : /\ i = [j EXCEPT !.attempt = n] /\ i.what = j.what /\ i.token = j.token
                       /\ i.created = j.created /\ (n = j.attempt => i = j)
  BY JobFields
<1>6. j.what = "get" => i = j
  BY <1>4, <1>5
<1>7. /\ AddJob(s, i) /\ Go(k, Idle)
      /\ UNCHANGED <<row, adding, late, issued, blame, now, losses, mishaps>>
  BY <1>1, <1>3, <1>4, <1>5 DEF ReAdd
<1>8. WorkTyped' /\ work'[k] = Idle /\ OthersWait(k)
  BY <1>7, IdleWork, GoesOn
<1>9. /\ Tables' /\ i \in jobs'[s]
      /\ \A t \in Server : \A l \in Job : l \in jobs'[t] <=> l \in jobs[t] \/ (t = s /\ l = i)
  BY <1>7, AddJobEffect DEF Types, JobsTyped
<1>10. JobsTyped'
  <2>1. ASSUME NEW t \in Server, NEW l \in jobs'[t] PROVE l.token \in issued' /\ l.created <= now'
    <3>1. l \in Job
      BY <1>9 DEF Tables
    <3>2. CASE l \in jobs[t]
      BY <1>7, <3>2, KnownJobs
    <3>3. CASE l = i
      BY <1>3, <1>5, <1>7, <3>3
    <3> QED  BY <1>9, <3>1, <3>2, <3>3
  <2> QED  BY <1>9, <2>1 DEF JobsTyped
<1>11. RowTyped' /\ AddingTyped' /\ LateTyped' /\ CountsTyped'
  BY <1>7, UntouchedTypes
<1>12. Types'
  BY <1>8, <1>10, <1>11 DEF Types
<1>13. \A t \in Server : jobs[t] \subseteq jobs'[t]
  BY <1>9 DEF Types, JobsTyped, Tables
<1>14. j.what # "get" => \A t \in Server : \A l \in Job : l \in jobs'[t] /\ l.what = "get" => l \in jobs[t]
  BY <1>5, <1>9
<1> QED
  BY <1>1, <1>2, <1>3, <1>6, <1>7, <1>8, <1>9, <1>12, <1>13, <1>14

LEMMA CrashEffect ==
  ASSUME Types, NEW k \in Cron, Crash(k)
  PROVE  /\ Types' /\ UNCHANGED <<row, adding, jobs, late>> /\ OthersWait(k)
         /\ work'[k] = Idle /\ blame \subseteq blame' /\ "killed" \in blame'
<1>1. /\ Go(k, Idle) /\ Mishap /\ blame' = blame \cup {"killed"}
      /\ UNCHANGED <<row, adding, jobs, reserved, late, issued, now, losses>>
  BY DEF Crash, Blame
<1>2. WorkTyped' /\ work'[k] = Idle /\ OthersWait(k)
  BY <1>1, IdleWork, GoesOn
<1>3. CountsTyped'
  <2>1. blame' \subseteq BlameType /\ losses' \in 0..MaxLosses
    BY <1>1 DEF Types, CountsTyped, BlameType
  <2> QED  BY <1>1, <2>1, MishapTyped
<1>4. RowTyped' /\ AddingTyped' /\ JobsTyped' /\ LateTyped'
  BY <1>1, UntouchedTypes
<1> QED
  BY <1>1, <1>2, <1>3, <1>4 DEF Types

LEMMA UnblockEffect ==
  ASSUME Types, NEW s \in Server, NEW j, Unblock(s, j)
  PROVE  Types' /\ UNCHANGED <<row, adding, jobs, work, late, blame>>
<1>1. /\ Table(s, jobs[s], reserved[s] \ {j})
      /\ UNCHANGED <<row, adding, work, late, issued, blame, now, losses, mishaps>>
  BY DEF Unblock
<1>2. /\ jobs \in [Server -> SUBSET Job] /\ jobs[s] \in SUBSET Job /\ reserved[s] \ {j} \in SUBSET jobs[s]
  BY DEF Types, JobsTyped, Tables
<1>3. Tables' /\ UNCHANGED jobs
  BY <1>1, <1>2, TableEffect DEF Types, JobsTyped, Table
<1>4. JobsTyped'
  BY <1>1, <1>3 DEF Types, JobsTyped
<1>5. RowTyped' /\ AddingTyped' /\ WorkTyped' /\ LateTyped' /\ CountsTyped'
  BY <1>1, UntouchedTypes
<1> QED
  BY <1>1, <1>3, <1>4, <1>5 DEF Types

LEMMA TickEffect ==
  ASSUME Types, Tick
  PROVE  Types' /\ UNCHANGED <<row, adding, jobs, work, late, blame>>
<1>1. /\ UNCHANGED <<row, adding, jobs, reserved, work, late, issued, losses, blame>>
      /\ issued \subseteq issued' /\ issued' \subseteq Token /\ now <= now' /\ now' \in 0..MaxTime
      /\ Mishap
  BY DEF Tick, Types, CountsTyped
<1>2. RowTyped' /\ AddingTyped' /\ JobsTyped' /\ WorkTyped' /\ LateTyped'
  BY <1>1, UnchangedTypes
<1>3. CountsTyped'
  BY <1>1 DEF Types, CountsTyped, Mishap
<1> QED
  BY <1>1, <1>2, <1>3 DEF Types

-----------------------------------------------------------------------------
(* The inductive invariant.                                                 *)

\* A server has no token while addServer is about to generate one, and no two
\* servers have the same.
Tokens == \A s \in Server :
  /\ adding[s].at = "token" /\ row[s] # NoRow => row[s].token = NoToken
  /\ row[s] # NoRow /\ row[Peer(s)] # NoRow /\ row[s].token # NoToken => row[s].token # row[Peer(s)].token

\* A job that fetches a secret, listed or running, has a token that is not
\* less than that of its server.
Live(s, j) == j.what = "get" /\ (j \in jobs[s] \/ \E k \in Cron : Home[k] = s /\ work[k] # Idle /\ work[k].job = j)
Gets == "survived" \notin blame => \A s \in Server : \A j \in Job : Live(s, j) => Listing(s, j.token)

\* A secret that was given and has not arrived is one at a time, and it is the
\* one its giver stores.
Ok(k)  == /\ work[k] # Idle /\ work[k].at = "answered"
          /\ work[k].job.what = "get" /\ work[k].reply.code = "ok"
OneOk  == "overlap" \notin blame => \A k, l \in Cron : Ok(k) /\ Ok(l) => k = l
OkFits == "overlap" \notin blame =>
  \A k \in Cron : Ok(k) /\ row[Peer(Home[k])] # NoRow
                  => row[Peer(Home[k])].secret \in {NoSecret, work[k].reply.secret}

\* No two crons of a server run one job.
RunOnce == "twice" \notin blame =>
  \A k, l \in Cron : work[k] # Idle /\ work[l] # Idle /\ Home[k] = Home[l] /\ work[k].job = work[l].job => k = l

\* Where the secrets differ, a server knows of a failure, or somebody fetches a
\* secret with the token that the other accepts and is not yet refused.
Apart == \A s \in Server : /\ row[s] # NoRow /\ row[s].secret # NoSecret
                           /\ row[s].secret # row[Peer(s)].secret
Failed == \E s \in Server : row[s] # NoRow /\ row[s].status = "failure"
Fetching(k) ==
  LET w == work[k]  p == Peer(Home[k]) IN
  /\ w # Idle /\ w.job.what = "get" /\ row[p] # NoRow /\ w.job.token = row[p].token
  /\ \/ w.at \in {"sent", "add"}
     \/ w.at = "answered" /\ w.reply.code = "failed"
     \/ w.at = "answered" /\ w.reply.code = "ok" /\ w.reply.secret = row[p].secret
     \/ w.at = "remove" /\ w.retain
Listed(s) == /\ row[Peer(s)] # NoRow
             /\ \E j \in jobs[s] : /\ j.what = "get" /\ j.token = row[Peer(s)].token
                                   /\ Runners(s, j) = {}
Agree == blame \cap {"overlap", "twice", "killed"} = {} /\ Apart
         => Failed \/ (\E k \in Cron : Fetching(k)) \/ \E s \in Server : Listed(s)

Agreement == OneOk /\ OkFits /\ RunOnce /\ Agree
Inv == Types /\ Tokens /\ Gets /\ Agreement

-----------------------------------------------------------------------------
(* What keeps the parts of the invariant.                                   *)

\* Rows keep their tokens or are removed.
TokensStay == \A s \in Server : row'[s] = NoRow \/ (row[s] # NoRow /\ row'[s].token = row[s].token)

LEMMA TokensKept ==
  ASSUME Tokens, TokensStay, \A s \in Server : adding'[s].at = "token" => adding[s].at = "token"
  PROVE  Tokens'
<1> SUFFICES ASSUME NEW s \in Server
             PROVE  /\ adding'[s].at = "token" /\ row'[s] # NoRow => row'[s].token = NoToken
                    /\ row'[s] # NoRow /\ row'[Peer(s)] # NoRow /\ row'[s].token # NoToken
                       => row'[s].token # row'[Peer(s)].token
  BY DEF Tokens
<1>1. Peer(s) \in Server
  BY Peers
<1> QED
  BY <1>1 DEF Tokens, TokensStay

\* No job that fetches a secret is new, unless its token may win.
NoNewGets(s) == \A j \in Job : Live(s, j)' => Live(s, j) \/ Listing(s, j.token)

LEMMA GetsKept ==
  ASSUME Gets, blame \subseteq blame',
         \A s \in Server : /\ NoNewGets(s)
                           /\ row[s] # NoRow => row'[s] # NoRow /\ row'[s].token = row[s].token
  PROVE  Gets'
<1> SUFFICES ASSUME "survived" \notin blame', NEW s \in Server, NEW j \in Job, Live(s, j)'
             PROVE  Listing(s, j.token)'
  BY DEF Gets
<1>1. Listing(s, j.token)
  BY DEF Gets, NoNewGets
<1> QED
  BY <1>1 DEF Listing

LEMMA NoNew ==
  ASSUME NEW s \in Server, \A j \in Job : j \in jobs'[s] /\ j.what = "get" => j \in jobs[s] \/ Listing(s, j.token),
         \A k \in Cron : work'[k] # Idle /\ Home[k] = s =>
           (work[k] # Idle /\ work'[k].job = work[k].job) \/ work'[k].job \in jobs[s]
  PROVE  NoNewGets(s)
BY DEF NoNewGets, Live

\* The crons go on with their jobs or are done.
SameJobs == \A k \in Cron : work'[k] # Idle => work[k] # Idle /\ work'[k].job = work[k].job

LEMMA RunOnceKept ==
  ASSUME RunOnce, blame \subseteq blame', SameJobs
  PROVE  RunOnce'
BY DEF RunOnce, SameJobs

\* No secret is given, and none is stored.
SecretsStay == \A s \in Server : row'[s] # NoRow =>
  row'[s].secret = NoSecret \/ (row[s] # NoRow /\ row'[s].secret = row[s].secret)
SameOk == \A k \in Cron : Ok(k)' => Ok(k) /\ work'[k].reply = work[k].reply

LEMMA OkKept ==
  ASSUME OneOk, OkFits, blame \subseteq blame', SecretsStay, SameOk
  PROVE  OneOk' /\ OkFits'
<1>1. OneOk'
  BY DEF OneOk, SameOk
<1>2. OkFits'
  <2> SUFFICES ASSUME "overlap" \notin blame', NEW k \in Cron, Ok(k)', row'[Peer(Home[k])] # NoRow
               PROVE  row'[Peer(Home[k])].secret \in {NoSecret, work'[k].reply.secret}
    BY DEF OkFits
  <2>1. Peer(Home[k]) \in Server
    BY Peers
  <2> QED  BY <2>1 DEF OkFits, SecretsStay, SameOk
<1> QED
  BY <1>1, <1>2

LEMMA OkSame ==
  ASSUME NEW k \in Cron, work'[k] = work[k]
  PROVE  Ok(k)' => Ok(k) /\ work'[k].reply = work[k].reply
BY DEF Ok

LEMMA AgreeKept ==
  ASSUME Agree, blame \subseteq blame', SecretsStay,
         \A s \in Server : row[s] # NoRow /\ row[s].status = "failure" /\ row'[s] # NoRow => row'[s].status = "failure",
         Apart' => \A k \in Cron : Fetching(k) => Fetching(k)' \/ \E s \in Server : Listed(s)',
         Apart' => \A s \in Server : Listed(s) => Listed(s)' \/ \E k \in Cron : Fetching(k)'
  PROVE  Agree'
<1> SUFFICES ASSUME blame' \cap {"overlap", "twice", "killed"} = {}, Apart'
             PROVE  Failed' \/ (\E k \in Cron : Fetching(k)') \/ \E s \in Server : Listed(s)'
  BY DEF Agree
<1>1. Apart
  <2> SUFFICES ASSUME NEW s \in Server
               PROVE  row[s] # NoRow /\ row[s].secret # NoSecret /\ row[s].secret # row[Peer(s)].secret
    BY DEF Apart
  <2>1. Peer(s) \in Server
    BY Peers
  <2> QED  BY <2>1 DEF Apart, SecretsStay
<1>2. Failed => Failed'
  BY DEF Failed, Apart
<1>3. blame \cap {"overlap", "twice", "killed"} = {}
  OBVIOUS
<1>4. Failed \/ (\E k \in Cron : Fetching(k)) \/ \E s \in Server : Listed(s)
  BY <1>1, <1>3 DEF Agree
<1> QED
  BY <1>2, <1>4

LEMMA FetchingSame ==
  ASSUME NEW k \in Cron, work'[k] = work[k], UNCHANGED row
  PROVE  Fetching(k) => Fetching(k)'
BY DEF Fetching

LEMMA ListedSame ==
  ASSUME NEW s \in Server, jobs[s] \subseteq jobs'[s], UNCHANGED row, SameJobs
  PROVE  Listed(s) => Listed(s)'
<1> SUFFICES ASSUME NEW j \in jobs[s], row[Peer(s)] # NoRow, j.what = "get", j.token = row[Peer(s)].token,
                    Runners(s, j) = {}
             PROVE  Listed(s)'
  BY DEF Listed
<1>1. Runners(s, j)' = {}
  BY DEF Runners, SameJobs
<1> QED
  BY <1>1 DEF Listed

-----------------------------------------------------------------------------
(* Every action keeps the invariant.                                        *)

LEMMA InsertKeeps ==
  ASSUME Inv, NEW s \in Server, InsertServer(s)
  PROVE  Inv'
<1>1. /\ Types' /\ UNCHANGED <<jobs, work, late, blame>>
      /\ row[s] = NoRow /\ row'[s] # NoRow /\ row'[s].token = NoToken /\ row'[s].secret = NoSecret
      /\ \A t \in Server : t # s => row'[t] = row[t] /\ adding'[t] = adding[t]
  BY InsertEffect DEF Inv, RowsElsewhere
<1>2. Tokens'
  <2> SUFFICES ASSUME NEW t \in Server
               PROVE  /\ adding'[t].at = "token" /\ row'[t] # NoRow => row'[t].token = NoToken
                      /\ row'[t] # NoRow /\ row'[Peer(t)] # NoRow /\ row'[t].token # NoToken
                         => row'[t].token # row'[Peer(t)].token
    BY DEF Tokens
  <2>1. Peer(t) \in Server /\ Peer(t) # t
    BY Peers
  <2> QED  BY <1>1, <2>1 DEF Inv, Tokens
<1>3. Gets'
  <2> SUFFICES ASSUME "survived" \notin blame', NEW t \in Server, NEW j \in Job, Live(t, j)'
               PROVE  Listing(t, j.token)'
    BY DEF Gets
  <2>1. Live(t, j)
    BY <1>1 DEF Live
  <2>2. Listing(t, j.token)
    BY <1>1, <2>1 DEF Inv, Gets
  <2> QED  BY <1>1, <2>2 DEF Listing
<1>4. SecretsStay /\ SameOk /\ SameJobs
  BY <1>1 DEF SecretsStay, SameOk, SameJobs, Ok
<1>5. ~Apart'
  BY <1>1 DEF Apart
<1>6. OneOk' /\ OkFits' /\ RunOnce'
  BY <1>1, <1>4, OkKept, RunOnceKept DEF Inv, Agreement
<1>7. Agree'
  BY <1>5 DEF Agree
<1> QED
  BY <1>1, <1>2, <1>3, <1>6, <1>7 DEF Inv, Agreement

LEMMA StoreKeeps ==
  ASSUME Inv, NEW s \in Server, StoreToken(s)
  PROVE  Inv'
<1>1. /\ Types' /\ UNCHANGED <<jobs, work, late, blame>>
      /\ adding[s].at = "token" /\ adding'[s].at = "job"
      /\ \A t \in Server : t # s => row'[t] = row[t] /\ adding'[t] = adding[t]
      /\ row'[s] = NoRow <=> row[s] = NoRow
      /\ row[s] # NoRow => /\ row'[s].secret = row[s].secret /\ row'[s].status = row[s].status
                           /\ row'[s].token \in Token \ issued
  BY StoreEffect DEF Inv, RowsElsewhere
<1>2. Tokens'
  <2> SUFFICES ASSUME NEW t \in Server
               PROVE  /\ adding'[t].at = "token" /\ row'[t] # NoRow => row'[t].token = NoToken
                      /\ row'[t] # NoRow /\ row'[Peer(t)] # NoRow /\ row'[t].token # NoToken
                         => row'[t].token # row'[Peer(t)].token
    BY DEF Tokens
  <2>1. Peer(t) \in Server /\ Peer(t) # t /\ (t = s \/ Peer(t) = s)
    BY Peers
  <2>2. adding'[t].at = "token" /\ row'[t] # NoRow => row'[t].token = NoToken
    BY <1>1 DEF Inv, Tokens
  <2>3. \A r \in Server : row[r] # NoRow => row[r].token \in issued \cup {NoToken}
    BY DEF Inv, Types, RowTyped
  <2>4. CASE t = s
    BY <1>1, <2>1, <2>2, <2>3, <2>4
  <2>5. CASE Peer(t) = s
    BY <1>1, <2>1, <2>2, <2>3, <2>5
  <2> QED  BY <2>1, <2>4, <2>5
<1>3. Gets'
  <2> SUFFICES ASSUME "survived" \notin blame', NEW t \in Server, NEW j \in Job, Live(t, j)'
               PROVE  Listing(t, j.token)'
    BY DEF Gets
  <2>1. Live(t, j)
    BY <1>1 DEF Live
  <2>2. Listing(t, j.token)
    BY <1>1, <2>1 DEF Inv, Gets
  <2>3. t # s
    BY <1>1, <2>2 DEF Inv, Tokens, Listing
  <2> QED  BY <1>1, <2>2, <2>3 DEF Listing
<1>4. SecretsStay /\ SameOk /\ SameJobs
  BY <1>1 DEF SecretsStay, SameOk, SameJobs, Ok
<1>5. OneOk' /\ OkFits' /\ RunOnce'
  BY <1>1, <1>4, OkKept, RunOnceKept DEF Inv, Agreement
<1>6. ASSUME NEW t \in Server, NEW x \in Token, row[t] # NoRow, row[t].token = x
      PROVE  row'[t] = row[t]
  BY <1>1, <1>6 DEF Inv, Tokens
<1>7. ASSUME NEW k \in Cron, Fetching(k) PROVE Fetching(k)'
  <2>1. Peer(Home[k]) \in Server
    BY Peers
  <2>2. work[k].job.token \in Token
    BY <1>7, KnownJobs DEF Inv, Fetching
  <2>3. row'[Peer(Home[k])] = row[Peer(Home[k])]
    BY <1>6, <1>7, <2>1, <2>2 DEF Fetching
  <2> QED  BY <1>1, <1>7, <2>3 DEF Fetching
<1>8. ASSUME NEW t \in Server, Listed(t) PROVE Listed(t)'
  <2>1. PICK j \in jobs[t] : j.what = "get" /\ j.token = row[Peer(t)].token /\ Runners(t, j) = {}
    BY <1>8 DEF Listed
  <2>2. j.token \in Token /\ Peer(t) \in Server
    BY KnownJobs, Peers DEF Inv
  <2>3. row'[Peer(t)] = row[Peer(t)]
    BY <1>6, <1>8, <2>1, <2>2 DEF Listed
  <2>4. Runners(t, j)' = {}
    BY <1>1, <2>1 DEF Runners
  <2> QED  BY <1>1, <1>8, <2>1, <2>3, <2>4 DEF Listed
<1>9. \A t \in Server : row[t] # NoRow /\ row[t].status = "failure" /\ row'[t] # NoRow => row'[t].status = "failure"
  BY <1>1
<1>10. Agree'
  BY <1>1, <1>4, <1>7, <1>8, <1>9, AgreeKept DEF Inv, Agreement
<1> QED
  BY <1>1, <1>2, <1>3, <1>5, <1>10 DEF Inv, Agreement

LEMMA ListKeeps ==
  ASSUME Inv, NEW s \in Server, ListRequest(s)
  PROVE  Inv'
<1>1. /\ Types' /\ UNCHANGED <<row, work, late, blame>>
      /\ \A t \in Server : adding'[t].at = "token" => adding[t].at = "token"
      /\ \A t \in Server : jobs[t] \subseteq jobs'[t]
      /\ \A t \in Server : \A j \in Job : j \in jobs'[t] /\ j.what = "get" => j \in jobs[t]
  BY ListEffect DEF Inv
<1>2. SecretsStay /\ SameOk /\ SameJobs /\ TokensStay
  BY <1>1 DEF SecretsStay, SameOk, SameJobs, TokensStay, Ok
<1>3. Tokens'
  BY <1>1, <1>2, TokensKept DEF Inv
<1>4. \A t \in Server : NoNewGets(t)
  BY <1>1, NoNew
<1>5. Gets'
  BY <1>1, <1>4, GetsKept DEF Inv
<1>6. OneOk' /\ OkFits' /\ RunOnce'
  BY <1>1, <1>2, OkKept, RunOnceKept DEF Inv, Agreement
<1>7. \A k \in Cron : Fetching(k) => Fetching(k)'
  BY <1>1, FetchingSame
<1>8. \A t \in Server : Listed(t) => Listed(t)'
  BY <1>1, <1>2, ListedSame
<1>9. Agree'
  BY <1>1, <1>2, <1>7, <1>8, AgreeKept DEF Inv, Agreement
<1> QED
  BY <1>1, <1>3, <1>5, <1>6, <1>9 DEF Inv, Agreement

LEMMA RemovedKeeps ==
  ASSUME Inv, NEW s \in Server, RemoveServer(s)
  PROVE  Inv'
<1>1. /\ Types' /\ UNCHANGED <<adding, work, late>> /\ blame \subseteq blame'
      /\ row'[s] = NoRow /\ \A t \in Server : t # s => row'[t] = row[t] /\ jobs'[t] = jobs[t]
      /\ jobs'[s] = {}
      /\ \A k \in Cron : Home[k] = s /\ work[k] # Idle => "survived" \in blame'
  BY RemovedEffect DEF Inv, RowsElsewhere
<1>2. SecretsStay /\ SameOk /\ SameJobs /\ TokensStay
  BY <1>1 DEF SecretsStay, SameOk, SameJobs, TokensStay, Ok
<1>3. Tokens'
  BY <1>1, <1>2, TokensKept DEF Inv
<1>4. Gets'
  <2> SUFFICES ASSUME "survived" \notin blame', NEW t \in Server, NEW j \in Job, Live(t, j)'
               PROVE  Listing(t, j.token)'
    BY DEF Gets
  <2>1. t # s
    BY <1>1 DEF Live
  <2>2. Live(t, j)
    BY <1>1, <2>1 DEF Live
  <2>3. Listing(t, j.token)
    BY <1>1, <2>2 DEF Inv, Gets
  <2> QED  BY <1>1, <2>1, <2>3 DEF Listing
<1>5. OneOk' /\ OkFits' /\ RunOnce'
  BY <1>1, <1>2, OkKept, RunOnceKept DEF Inv, Agreement
<1>6. Agree'
  BY <1>1 DEF Agree, Apart
<1> QED
  BY <1>1, <1>3, <1>4, <1>5, <1>6 DEF Inv, Agreement

LEMMA TwoOpen ==
  ASSUME NEW k \in OpenGets, NEW l \in OpenGets, k # l
  PROVE  Cardinality(OpenGets) > 1
<1>1. PICK O : O = OpenGets
  OBVIOUS
<1>2. O \in SUBSET Cron
  BY <1>1 DEF OpenGets
<1>3. IsFiniteSet(O) /\ Cardinality(O) \in Nat
  BY <1>2, FS_Subset, FS_CardinalityType
<1>4. PICK S : S = {k}
  OBVIOUS
<1>5. IsFiniteSet(S) /\ Cardinality(S) = 1 /\ l \notin S
  BY <1>4, FS_Singleton
<1>6. IsFiniteSet(S \cup {l}) /\ Cardinality(S \cup {l}) = 2
  BY <1>5, FS_AddElement
<1>7. PICK T : T = S \cup {l}
  OBVIOUS
<1>8. Cardinality(T) = 2 /\ T \in SUBSET O
  BY <1>1, <1>4, <1>6, <1>7
<1>9. Cardinality(T) <= Cardinality(O)
  BY <1>3, <1>8, FS_Subset
<1> QED
  BY <1>1, <1>3, <1>8, <1>9

LEMMA HandleKeeps ==
  ASSUME Inv, NEW k \in Cron, Handle(k)
  PROVE  Inv'
<1>1. PICK p \in Server : p = Peer(Home[k])
  BY HandleEffect DEF Inv
<1>2. PICK j : j = work[k].job
  OBVIOUS
<1>3. /\ Types' /\ UNCHANGED <<adding, late>> /\ OthersWait(k)
      /\ \A t \in Server : t # p => row'[t] = row[t]
      /\ OverlapEffect(j.what)
      /\ work[k] # Idle /\ work[k].at = "sent"
      /\ work'[k] # Idle /\ work'[k].at = "answered" /\ work'[k].job = j
      /\ row'[p] = NoRow <=> row[p] = NoRow
      /\ row[p] # NoRow => row'[p].token = row[p].token /\ row'[p].status = row[p].status
      /\ IF j.what = "get" /\ Giving(p, j.token) THEN row'[p].secret = work'[k].reply.secret ELSE UNCHANGED row
      /\ j.what = "get" => (work'[k].reply.code = "ok" <=> Giving(p, j.token))
      /\ \A s \in Server : \A i \in Job :
              /\ i \in jobs[s] => i \in jobs'[s]
              /\ i \in jobs'[s] => i \in jobs[s] \/ (s = p /\ Listing(p, i.token))
  BY <1>1, <1>2, HandleEffect DEF Inv, RowsElsewhere
<1>4. j \in Job /\ j.token \in Token /\ (j.what = "get" \/ j.what = "request")
  BY <1>2, <1>3, KnownJobs DEF Inv
<1>5. blame \subseteq blame' /\ TokensStay /\ SameJobs
  BY <1>2, <1>3 DEF OverlapEffect, TokensStay, SameJobs, OthersWait
<1>6. Tokens'
  BY <1>3, <1>5, TokensKept DEF Inv
<1>7. Gets'
  <2>1. \A s \in Server : row[s] # NoRow => row'[s] # NoRow /\ row'[s].token = row[s].token
    BY <1>3
  <2>2. \A s \in Server : NoNewGets(s)
    BY <1>3, <1>5, NoNew DEF SameJobs
  <2> QED  BY <1>5, <2>1, <2>2, GetsKept DEF Inv
<1>8. RunOnce'
  BY <1>5, RunOnceKept DEF Inv, Agreement
<1>9. \A l \in Cron : l # k => (Ok(l)' <=> Ok(l))
  BY <1>3 DEF OthersWait, Ok
<1>10. \A l \in Cron : l # k /\ Ok(l) /\ j.what = "get" => "overlap" \in blame'
  <2> SUFFICES ASSUME NEW l \in Cron, l # k, Ok(l), j.what = "get" PROVE "overlap" \in blame'
    OBVIOUS
  <2>1. k \in OpenGets /\ l \in OpenGets
    BY <1>2, <1>3 DEF OpenGets, Ok
  <2> QED  BY <1>3, <2>1, TwoOpen DEF OverlapEffect
<1>11. Ok(k)' => j.what = "get" /\ Giving(p, j.token)
  BY <1>3 DEF Ok
<1>12. OneOk'
  <2> SUFFICES ASSUME "overlap" \notin blame', NEW l \in Cron, NEW m \in Cron, Ok(l)', Ok(m)' PROVE l = m
    BY DEF OneOk
  <2>1. l # k /\ m # k => l = m
    BY <1>5, <1>9 DEF Inv, Agreement, OneOk
  <2> QED  BY <1>9, <1>10, <1>11, <2>1
<1>13. OkFits'
  <2> SUFFICES ASSUME "overlap" \notin blame', NEW l \in Cron, Ok(l)', row'[Peer(Home[l])] # NoRow
               PROVE  row'[Peer(Home[l])].secret \in {NoSecret, work'[l].reply.secret}
    BY DEF OkFits
  <2>1. CASE l = k
    BY <1>1, <1>3, <1>11, <2>1
  <2>2. CASE l # k
    <3>1. Ok(l) /\ j.what # "get"
      BY <1>9, <1>10, <2>2
    <3>2. UNCHANGED row /\ work'[l] = work[l]
      BY <1>3, <2>2, <3>1 DEF OthersWait
    <3> QED  BY <1>5, <3>1, <3>2 DEF Inv, Agreement, OkFits
  <2> QED  BY <2>1, <2>2
<1>14. CASE j.what = "get" /\ Giving(p, j.token)
  <2>1. Fetching(k)'
    BY <1>1, <1>3, <1>14 DEF Fetching, Giving
  <2>2. Agree'
    BY <2>1 DEF Agree
  <2> QED  BY <1>3, <1>6, <1>7, <1>8, <1>12, <1>13, <2>2 DEF Inv, Agreement
<1>15. CASE ~(j.what = "get" /\ Giving(p, j.token))
  <2>1. UNCHANGED row
    BY <1>3, <1>15
  <2>2. SecretsStay
    BY <2>1 DEF SecretsStay
  <2>3. ASSUME NEW l \in Cron, Fetching(l) PROVE Fetching(l)'
    <3>1. l # k
      BY <1>1, <1>2, <1>15, <2>3 DEF Fetching, Giving
    <3> QED  BY <1>3, <2>1, <2>3, <3>1, FetchingSame DEF OthersWait
  <2>4. ASSUME NEW s \in Server, Listed(s) PROVE Listed(s)'
    <3>1. jobs[s] \subseteq jobs'[s]
      BY <1>3, KnownJobs DEF Inv
    <3> QED  BY <1>5, <2>1, <2>4, <3>1, ListedSame
  <2>5. Agree'
    BY <1>5, <2>1, <2>2, <2>3, <2>4, AgreeKept DEF Inv, Agreement
  <2> QED  BY <1>3, <1>6, <1>7, <1>8, <1>12, <1>13, <2>5 DEF Inv, Agreement
<1> QED
  BY <1>14, <1>15

LEMMA LateKeeps ==
  ASSUME Inv, NEW m \in late, HandleLate(m)
  PROVE  Inv'
<1>1. /\ Types' /\ UNCHANGED <<adding, work>>
      /\ blame \subseteq blame' /\ (UNCHANGED row \/ "overlap" \in blame')
      /\ \A s \in Server : /\ row'[s] = NoRow <=> row[s] = NoRow
                           /\ row[s] # NoRow => row'[s].token = row[s].token /\ row'[s].status = row[s].status
      /\ \A s \in Server : \A i \in Job :
           /\ i \in jobs[s] => i \in jobs'[s]
           /\ i \in jobs'[s] => i \in jobs[s] \/ Listing(s, i.token)
  BY LateEffect DEF Inv
<1>2. TokensStay /\ SameJobs /\ SameOk
  BY <1>1 DEF TokensStay, SameJobs, SameOk, Ok
<1>3. Tokens'
  BY <1>1, <1>2, TokensKept DEF Inv
<1>4. Gets'
  <2>1. \A s \in Server : NoNewGets(s)
    BY <1>1, NoNew
  <2> QED  BY <1>1, <2>1, GetsKept DEF Inv
<1>5. RunOnce'
  BY <1>1, <1>2, RunOnceKept DEF Inv, Agreement
<1>6. CASE "overlap" \in blame'
  BY <1>1, <1>3, <1>4, <1>5, <1>6 DEF Inv, Agreement, OneOk, OkFits, Agree
<1>7. CASE UNCHANGED row
  <2>1. SecretsStay
    BY <1>7 DEF SecretsStay
  <2>2. OneOk' /\ OkFits'
    BY <1>1, <1>2, <2>1, OkKept DEF Inv, Agreement
  <2>3. \A k \in Cron : Fetching(k) => Fetching(k)'
    BY <1>1, <1>7, FetchingSame
  <2>4. ASSUME NEW s \in Server PROVE Listed(s) => Listed(s)'
    <3>1. jobs[s] \subseteq jobs'[s]
      BY <1>1, KnownJobs DEF Inv
    <3> QED  BY <1>2, <1>7, <3>1, ListedSame
  <2>5. Agree'
    BY <1>1, <1>7, <2>1, <2>3, <2>4, AgreeKept DEF Inv, Agreement
  <2> QED  BY <1>1, <1>3, <1>4, <1>5, <2>2, <2>5 DEF Inv, Agreement
<1> QED
  BY <1>1, <1>6, <1>7

LEMMA StartKeeps ==
  ASSUME Inv, NEW k \in Cron, NEW j, Start(k, j)
  PROVE  Inv'
<1>1. PICK s \in Server : s = Home[k]
  OBVIOUS
<1>2. /\ Types' /\ UNCHANGED <<adding, late, jobs>> /\ OthersWait(k)
      /\ \A t \in Server : t # s => row'[t] = row[t]
      /\ j \in jobs[s] /\ j \in Job /\ work[k] = Idle
      /\ work'[k] # Idle /\ work'[k].job = j /\ work'[k].at \in {"remove", "sent"}
      /\ row'[s] = NoRow <=> row[s] = NoRow
      /\ row[s] # NoRow => row'[s].token = row[s].token /\ row'[s].secret = row[s].secret
      /\ work'[k].at = "sent" => UNCHANGED row
      /\ work'[k].at = "remove" => row[s] = NoRow \/ row'[s].status = "failure"
      /\ row[s] = NoRow => UNCHANGED row
      /\ row[s] # NoRow /\ row[s].status = "failure" => row'[s].status = "failure"
      /\ blame \subseteq blame' /\ (Runners(s, j) = {} \/ "twice" \in blame')
  BY <1>1, StartEffect DEF Inv, RowsElsewhere
<1>3. \A l \in Cron : l # k => work'[l] = work[l]
  BY <1>2 DEF OthersWait
<1>4. TokensStay /\ SecretsStay /\ SameOk
  BY <1>2, <1>3 DEF TokensStay, SecretsStay, SameOk, Ok
<1>5. Tokens'
  BY <1>2, <1>4, TokensKept DEF Inv
<1>6. Gets'
  <2>1. \A t \in Server : NoNewGets(t)
    BY <1>1, <1>2, <1>3, NoNew
  <2>2. \A t \in Server : row[t] # NoRow => row'[t] # NoRow /\ row'[t].token = row[t].token
    BY <1>2
  <2> QED  BY <1>2, <2>1, <2>2, GetsKept DEF Inv
<1>7. OneOk' /\ OkFits'
  BY <1>2, <1>4, OkKept DEF Inv, Agreement
<1>8. RunOnce'
  <2> SUFFICES ASSUME "twice" \notin blame', NEW l \in Cron, NEW m \in Cron, l # m, work'[l] # Idle, work'[m] # Idle,
                      Home[l] = Home[m], work'[l].job = work'[m].job
               PROVE  FALSE
    BY DEF RunOnce
  <2>1. \A n \in Cron : ~(Home[n] = s /\ work[n] # Idle /\ work[n].job = j)
    BY <1>2 DEF Runners
  <2>2. l # k /\ m # k
    BY <1>1, <1>2, <1>3, <2>1
  <2> QED  BY <1>2, <1>3, <2>2 DEF Inv, Agreement, RunOnce
<1>9. CASE work'[k].at = "sent"
  <2>1. UNCHANGED row
    BY <1>2, <1>9
  <2>2. \A l \in Cron : Fetching(l) => Fetching(l)'
    <3> SUFFICES ASSUME NEW l \in Cron, Fetching(l) PROVE Fetching(l)'
      OBVIOUS
    <3>1. l # k
      BY <1>2 DEF Fetching
    <3> QED  BY <1>3, <2>1, <3>1, FetchingSame
  <2>3. \A t \in Server : Listed(t) => Listed(t)' \/ \E l \in Cron : Fetching(l)'
    <3> SUFFICES ASSUME NEW t \in Server, Listed(t) PROVE Listed(t)' \/ Fetching(k)'
      OBVIOUS
    <3>1. PICK i \in jobs[t] : i.what = "get" /\ i.token = row[Peer(t)].token /\ Runners(t, i) = {}
      BY DEF Listed
    <3>2. CASE t = s /\ i = j
      BY <1>1, <1>2, <1>9, <2>1, <3>1, <3>2 DEF Listed, Fetching
    <3>3. CASE ~(t = s /\ i = j)
      <4>1. Runners(t, i)' = {}
        BY <1>1, <1>2, <1>3, <3>1, <3>3 DEF Runners
      <4> QED  BY <1>2, <2>1, <3>1, <4>1 DEF Listed
    <3> QED  BY <3>2, <3>3
  <2>4. Agree'
    BY <1>2, <1>4, <2>1, <2>2, <2>3, AgreeKept DEF Inv, Agreement
  <2> QED  BY <1>2, <1>5, <1>6, <1>7, <1>8, <2>4 DEF Inv, Agreement
<1>10. CASE work'[k].at = "remove"
  <2>1. Apart' => Failed'
    BY <1>2, <1>10 DEF Apart, Failed
  <2>2. Agree'
    BY <2>1 DEF Agree
  <2> QED  BY <1>2, <1>5, <1>6, <1>7, <1>8, <2>2 DEF Inv, Agreement
<1> QED
  BY <1>2, <1>9, <1>10

LEMMA GiveUpKeeps ==
  ASSUME Inv, NEW k \in Cron, GiveUp(k)
  PROVE  Inv'
<1>1. /\ Types' /\ UNCHANGED <<row, adding, jobs, blame>>
      /\ \A l \in Cron : l # k => work'[l] = work[l]
      /\ work[k] # Idle /\ work[k].at \in {"sent", "answered"}
      /\ work'[k] # Idle /\ work'[k].job = work[k].job /\ work'[k].at = "answered"
      /\ work'[k].reply.code = "failed"
  BY GiveUpEffect DEF Inv, OthersWait
<1>2. SecretsStay /\ SameOk /\ SameJobs /\ TokensStay
  BY <1>1 DEF SecretsStay, SameOk, SameJobs, TokensStay, Ok
<1>3. Tokens'
  BY <1>1, <1>2, TokensKept DEF Inv
<1>4. Gets'
  <2>1. \A s \in Server : NoNewGets(s)
    BY <1>1, <1>2, NoNew DEF SameJobs
  <2> QED  BY <1>1, <2>1, GetsKept DEF Inv
<1>5. OneOk' /\ OkFits' /\ RunOnce'
  BY <1>1, <1>2, OkKept, RunOnceKept DEF Inv, Agreement
<1>6. ASSUME NEW l \in Cron, Fetching(l) PROVE Fetching(l)'
  <2>1. CASE l = k
    BY <1>1, <1>6, <2>1 DEF Fetching
  <2>2. CASE l # k
    BY <1>1, <1>6, <2>2, FetchingSame
  <2> QED  BY <2>1, <2>2
<1>7. \A s \in Server : Listed(s) => Listed(s)'
  BY <1>1, <1>2, ListedSame
<1>8. Agree'
  BY <1>1, <1>2, <1>6, <1>7, AgreeKept DEF Inv, Agreement
<1> QED
  BY <1>1, <1>3, <1>4, <1>5, <1>8 DEF Inv, Agreement

LEMMA ApplyKeeps ==
  ASSUME Inv, NEW k \in Cron, Apply(k)
  PROVE  Inv'
<1>1. PICK s \in Server : s = Home[k]
  OBVIOUS
<1>2. PICK r : r = work[k].reply
  OBVIOUS
<1>3. /\ Types' /\ UNCHANGED <<adding, late, jobs, blame>>
      /\ \A l \in Cron : l # k => work'[l] = work[l]
      /\ \A t \in Server : t # s => row'[t] = row[t]
      /\ work[k] # Idle /\ work[k].at = "answered"
      /\ work'[k] # Idle /\ work'[k].at = "remove" /\ work'[k].job = work[k].job
      /\ r.code = "failed" => work'[k].retain
      /\ row'[s] = NoRow <=> row[s] = NoRow
      /\ row[s] # NoRow => row'[s].token = row[s].token /\ row'[s].status = row[s].status
      /\ IF Ok(k) /\ row[s] # NoRow THEN row'[s].secret = r.secret ELSE UNCHANGED row
  BY <1>1, <1>2, ApplyEffect DEF Inv, RowsElsewhere, OthersWait, Ok
<1>4. TokensStay /\ SameJobs /\ SameOk
  BY <1>3 DEF TokensStay, SameJobs, SameOk, Ok
<1>5. Tokens'
  BY <1>3, <1>4, TokensKept DEF Inv
<1>6. Gets'
  <2>1. \A t \in Server : NoNewGets(t)
    BY <1>3, <1>4, NoNew DEF SameJobs
  <2>2. \A t \in Server : row[t] # NoRow => row'[t] # NoRow /\ row'[t].token = row[t].token
    BY <1>3
  <2> QED  BY <1>3, <2>1, <2>2, GetsKept DEF Inv
<1>7. RunOnce'
  BY <1>3, <1>4, RunOnceKept DEF Inv, Agreement
<1>8. CASE ~(Ok(k) /\ row[s] # NoRow)
  <2>1. UNCHANGED row /\ SecretsStay
    BY <1>3, <1>8 DEF SecretsStay
  <2>2. OneOk' /\ OkFits'
    BY <1>3, <1>4, <2>1, OkKept DEF Inv, Agreement
  <2>3. ASSUME Apart', NEW l \in Cron, Fetching(l) PROVE Fetching(l)'
    <3>1. CASE l = k
      <4>1. row[s] # NoRow
        BY <2>1, <2>3 DEF Apart
      <4>2. r.code = "failed"
        BY <1>2, <1>3, <1>8, <2>3, <3>1, <4>1 DEF Fetching, Ok
      <4> QED  BY <1>3, <2>1, <2>3, <3>1, <4>2 DEF Fetching
    <3>2. CASE l # k
      BY <1>3, <2>1, <2>3, <3>2, FetchingSame
    <3> QED  BY <3>1, <3>2
  <2>4. \A t \in Server : Listed(t) => Listed(t)'
    BY <1>3, <1>4, <2>1, ListedSame
  <2>5. Agree'
    BY <1>3, <2>1, <2>3, <2>4, AgreeKept DEF Inv, Agreement
  <2> QED  BY <1>3, <1>5, <1>6, <1>7, <2>2, <2>5 DEF Inv, Agreement
<1>9. CASE Ok(k) /\ row[s] # NoRow
  <2>1. row'[s].secret = r.secret /\ Peer(s) \in Server /\ Peer(s) # s /\ Peer(Peer(s)) = s /\ ~Ok(k)'
    BY <1>3, <1>9, Peers DEF Ok
  <2>2. \A l \in Cron : Ok(l)' => Ok(l) /\ work'[l] = work[l] /\ l # k
    BY <1>3, <2>1 DEF Ok
  <2>3. ASSUME "overlap" \notin blame', NEW l \in Cron PROVE ~Ok(l)'
    BY <1>3, <1>9, <2>2, <2>3 DEF Inv, Agreement, OneOk
  <2>4. OneOk' /\ OkFits'
    BY <2>3 DEF OneOk, OkFits
  <2>5. ASSUME "overlap" \notin blame', Apart' PROVE FALSE
    <3>1. row'[Peer(s)] = row[Peer(s)] /\ row[Peer(s)] # NoRow /\ row[Peer(s)].secret # NoSecret
      BY <1>3, <2>1, <2>5 DEF Apart
    <3>2. row[Peer(s)].secret = r.secret
      BY <1>1, <1>2, <1>3, <1>9, <2>5, <3>1 DEF Inv, Agreement, OkFits
    <3> QED  BY <1>1, <2>1, <2>5, <3>1, <3>2 DEF Apart
  <2>6. Agree'
    BY <2>5 DEF Agree
  <2> QED  BY <1>3, <1>5, <1>6, <1>7, <2>4, <2>6 DEF Inv, Agreement
<1> QED
  BY <1>8, <1>9

LEMMA RemoveKeeps ==
  ASSUME Inv, NEW k \in Cron, Remove(k)
  PROVE  Inv'
<1>1. PICK s \in Server : s = Home[k]
  OBVIOUS
<1>2. PICK j : j = work[k].job
  OBVIOUS
<1>3. /\ Types' /\ UNCHANGED <<row, adding, late, blame>>
      /\ \A l \in Cron : l # k => work'[l] = work[l]
      /\ work[k] # Idle /\ work[k].at = "remove"
      /\ IF work[k].retain THEN work'[k] # Idle /\ work'[k].at = "add" /\ work'[k].job = j ELSE work'[k] = Idle
      /\ \A t \in Server : \A i \in Job : i \in jobs'[t] <=> i \in jobs[t] /\ ~(t = s /\ i = j)
  BY <1>1, <1>2, RemoveEffect DEF Inv, OthersWait
<1>4. SecretsStay /\ SameOk /\ SameJobs /\ TokensStay
  BY <1>2, <1>3, IdleWork DEF SecretsStay, SameOk, SameJobs, TokensStay, Ok
<1>5. Tokens'
  BY <1>3, <1>4, TokensKept DEF Inv
<1>6. Gets'
  <2>1. \A t \in Server : NoNewGets(t)
    BY <1>3, <1>4, NoNew DEF SameJobs
  <2> QED  BY <1>3, <2>1, GetsKept DEF Inv
<1>7. OneOk' /\ OkFits' /\ RunOnce'
  BY <1>3, <1>4, OkKept, RunOnceKept DEF Inv, Agreement
<1>8. ASSUME NEW l \in Cron, Fetching(l) PROVE Fetching(l)'
  <2>1. CASE l = k
    BY <1>2, <1>3, <1>8, <2>1 DEF Fetching
  <2>2. CASE l # k
    BY <1>3, <1>8, <2>2, FetchingSame
  <2> QED  BY <2>1, <2>2
<1>9. ASSUME NEW t \in Server, Listed(t) PROVE Listed(t)'
  <2>1. PICK i \in jobs[t] : i.what = "get" /\ i.token = row[Peer(t)].token /\ Runners(t, i) = {}
    BY <1>9 DEF Listed
  <2>2. i \in Job /\ ~(t = s /\ i = j)
    BY <1>1, <1>2, <1>3, <2>1, KnownJobs DEF Inv, Runners
  <2>3. Runners(t, i)' = {}
    BY <1>4, <2>1 DEF Runners, SameJobs
  <2> QED  BY <1>3, <1>9, <2>1, <2>2, <2>3 DEF Listed
<1>10. Agree'
  BY <1>3, <1>4, <1>8, <1>9, AgreeKept DEF Inv, Agreement
<1> QED
  BY <1>3, <1>5, <1>6, <1>7, <1>10 DEF Inv, Agreement

LEMMA ReAddKeeps ==
  ASSUME Inv, NEW k \in Cron, ReAdd(k)
  PROVE  Inv'
<1>1. PICK s \in Server : s = Home[k]
  OBVIOUS
<1>2. PICK j : j = work[k].job
  OBVIOUS
<1>3. /\ Types' /\ UNCHANGED <<row, adding, late, blame>>
      /\ \A l \in Cron : l # k => work'[l] = work[l]
      /\ work[k] # Idle /\ work[k].at = "add" /\ work'[k] = Idle
      /\ \A t \in Server : jobs[t] \subseteq jobs'[t]
      /\ j.what = "get" => /\ j \in jobs'[s]
                           /\ \A t \in Server : \A i \in Job : i \in jobs'[t] => i \in jobs[t] \/ (t = s /\ i = j)
      /\ j.what # "get" => \A t \in Server : \A i \in Job : i \in jobs'[t] /\ i.what = "get" => i \in jobs[t]
  BY <1>1, <1>2, ReAddEffect DEF Inv, OthersWait
<1>4. SecretsStay /\ SameOk /\ SameJobs /\ TokensStay
  BY <1>3, IdleWork DEF SecretsStay, SameOk, SameJobs, TokensStay, Ok
<1>5. Tokens'
  BY <1>3, <1>4, TokensKept DEF Inv
<1>6. Gets'
  <2>1. ASSUME NEW t \in Server PROVE NoNewGets(t)
    <3> SUFFICES ASSUME NEW i \in Job, Live(t, i)' PROVE Live(t, i)
      BY DEF NoNewGets
    <3>1. CASE i \in jobs'[t]
      BY <1>1, <1>2, <1>3, <3>1 DEF Live
    <3>2. CASE i \notin jobs'[t]
      BY <1>4, <3>2 DEF Live, SameJobs
    <3> QED  BY <3>1, <3>2
  <2> QED  BY <1>3, <2>1, GetsKept DEF Inv
<1>7. OneOk' /\ OkFits' /\ RunOnce'
  BY <1>3, <1>4, OkKept, RunOnceKept DEF Inv, Agreement
<1>8. \A t \in Server : Listed(t) => Listed(t)'
  BY <1>3, <1>4, ListedSame
<1>9. CASE "twice" \in blame
  BY <1>3, <1>5, <1>6, <1>7, <1>9 DEF Inv, Agreement, Agree
<1>10. CASE "twice" \notin blame
  <2>1. ASSUME NEW l \in Cron, Fetching(l) PROVE Fetching(l)' \/ Listed(s)'
    <3>1. CASE l # k
      BY <1>3, <2>1, <3>1, FetchingSame
    <3>2. CASE l = k
      <4>1. j.what = "get" /\ row[Peer(s)] # NoRow /\ j.token = row[Peer(s)].token
        BY <1>1, <1>2, <2>1, <3>2 DEF Fetching
      <4>2. Runners(s, j)' = {}
        <5> SUFFICES ASSUME NEW n \in Cron, Home[n] = s, work'[n] # Idle, work'[n].job = j PROVE FALSE
          BY DEF Runners
        <5>1. n # k /\ work[n] # Idle /\ work[n].job = j
          BY <1>3, <1>4 DEF SameJobs
        <5> QED  BY <1>1, <1>2, <1>3, <1>10, <5>1 DEF Inv, Agreement, RunOnce
      <4> QED  BY <1>3, <4>1, <4>2 DEF Listed
    <3> QED  BY <3>1, <3>2
  <2>2. Agree'
    BY <1>3, <1>4, <1>8, <2>1, AgreeKept DEF Inv, Agreement
  <2> QED  BY <1>3, <1>5, <1>6, <1>7, <2>2 DEF Inv, Agreement
<1> QED
  BY <1>9, <1>10

LEMMA CrashKeeps ==
  ASSUME Inv, NEW k \in Cron, Crash(k)
  PROVE  Inv'
<1>1. /\ Types' /\ UNCHANGED <<row, adding, jobs, late>> /\ work'[k] = Idle
      /\ \A l \in Cron : l # k => work'[l] = work[l]
      /\ blame \subseteq blame' /\ "killed" \in blame'
  BY CrashEffect DEF Inv, OthersWait
<1>2. SecretsStay /\ SameOk /\ SameJobs /\ TokensStay
  BY <1>1, IdleWork DEF SecretsStay, SameOk, SameJobs, TokensStay, Ok
<1>3. Tokens'
  BY <1>1, <1>2, TokensKept DEF Inv
<1>4. Gets'
  <2>1. \A s \in Server : NoNewGets(s)
    BY <1>1, <1>2, NoNew DEF SameJobs
  <2> QED  BY <1>1, <2>1, GetsKept DEF Inv
<1>5. OneOk' /\ OkFits' /\ RunOnce'
  BY <1>1, <1>2, OkKept, RunOnceKept DEF Inv, Agreement
<1>6. Agree'
  BY <1>1 DEF Agree
<1> QED
  BY <1>1, <1>3, <1>4, <1>5, <1>6 DEF Inv, Agreement

\* A step that only the clock or a reservation sees.
LEMMA NothingMoves ==
  ASSUME Inv, Types', UNCHANGED <<row, adding, jobs, work, late, blame>>
  PROVE  Inv'
<1>1. SecretsStay /\ SameOk /\ SameJobs /\ TokensStay
  BY DEF SecretsStay, SameOk, SameJobs, TokensStay, Ok
<1>2. Tokens'
  BY <1>1, TokensKept DEF Inv
<1>3. Gets'
  <2>1. \A s \in Server : NoNewGets(s)
    BY NoNew
  <2> QED  BY <2>1, GetsKept DEF Inv
<1>4. OneOk' /\ OkFits' /\ RunOnce'
  BY <1>1, OkKept, RunOnceKept DEF Inv, Agreement
<1>5. \A k \in Cron : Fetching(k) => Fetching(k)'
  BY FetchingSame
<1>6. \A s \in Server : Listed(s) => Listed(s)'
  BY <1>1, ListedSame
<1>7. Agree'
  BY <1>1, <1>5, <1>6, AgreeKept DEF Inv, Agreement
<1> QED
  BY <1>2, <1>3, <1>4, <1>7 DEF Inv, Agreement

LEMMA InitInv == Init => Inv
<1> SUFFICES ASSUME Init PROVE Inv
  OBVIOUS
<1>1. /\ \A s \in Server : row[s] = NoRow /\ adding[s] = NoCall /\ jobs[s] = {} /\ reserved[s] = {}
      /\ \A k \in Cron : work[k] = Idle
  BY DEF Init
<1>2. NoCall \in [at : {"none", "token", "job"}, token : {} \cup {NoToken}] /\ NoCall.at = "none"
  BY DEF NoCall
<1>3. Types
  <2>1. RowTyped /\ JobsTyped /\ LateTyped
    BY <1>1 DEF Init, RowTyped, JobsTyped, Tables, LateTyped
  <2>2. WorkTyped
    BY <1>1, IdleWork DEF Init, WorkTyped
  <2>3. CountsTyped
    BY DEF Init, CountsTyped, BlameType
  <2>4. AddingTyped
    <3>1. PICK c : c = NoCall
      OBVIOUS
    <3>2. adding = [s \in Server |-> c]
      BY <3>1 DEF Init
    <3>3. issued = {}
      BY DEF Init
    <3> QED  BY <1>2, <3>1, <3>2, <3>3 DEF AddingTyped
  <2> QED  BY <2>1, <2>2, <2>3, <2>4 DEF Types
<1>4. Tokens
  BY <1>1 DEF Tokens
<1>5. Gets
  BY <1>1 DEF Gets, Live
<1>6. OneOk /\ OkFits /\ RunOnce
  BY <1>1 DEF OneOk, OkFits, RunOnce, Ok
<1>7. Agree
  <2>1. \E s \in Server : TRUE
    <3> SUFFICES ASSUME Server = {} PROVE FALSE
      OBVIOUS
    <3> QED  BY FS_EmptySet
  <2> QED  BY <1>1, <2>1 DEF Agree, Apart
<1> QED
  BY <1>3, <1>4, <1>5, <1>6, <1>7 DEF Inv, Agreement

-----------------------------------------------------------------------------
(* Theorems.                                                                *)

LEMMA Keeps == Inv /\ [Next]_vars => Inv'
<1> SUFFICES ASSUME Inv, [Next]_vars PROVE Inv'
  OBVIOUS
<1>1. ASSUME NEW s \in Server, InsertServer(s) PROVE Inv'
  BY <1>1, InsertKeeps
<1>2. ASSUME NEW s \in Server, StoreToken(s) PROVE Inv'
  BY <1>2, StoreKeeps
<1>3. ASSUME NEW s \in Server, ListRequest(s) PROVE Inv'
  BY <1>3, ListKeeps
<1>4. ASSUME NEW s \in Server, RemoveServer(s) PROVE Inv'
  BY <1>4, RemovedKeeps
<1>5. ASSUME NEW s \in Server, StartAny(s) PROVE Inv'
  BY <1>5, StartKeeps DEF StartAny
<1>6. ASSUME NEW k \in Cron, Continue(k) PROVE Inv'
  BY <1>6, HandleKeeps, ApplyKeeps, RemoveKeeps, ReAddKeeps DEF Continue
<1>7. ASSUME NEW k \in Cron, GiveUp(k) PROVE Inv'
  BY <1>7, GiveUpKeeps
<1>8. ASSUME NEW k \in Cron, Crash(k) PROVE Inv'
  BY <1>8, CrashKeeps
<1>9. ASSUME NEW s \in Server, NEW j \in jobs[s], Unblock(s, j) PROVE Inv'
  <2>1. Types' /\ UNCHANGED <<row, adding, jobs, work, late, blame>>
    BY <1>9, UnblockEffect DEF Inv
  <2> QED  BY <2>1, NothingMoves
<1>10. ASSUME NEW m \in late, HandleLate(m) PROVE Inv'
  BY <1>10, LateKeeps
<1>11. ASSUME Tick PROVE Inv'
  <2>1. Types' /\ UNCHANGED <<row, adding, jobs, work, late, blame>>
    BY <1>11, TickEffect DEF Inv
  <2> QED  BY <2>1, NothingMoves
<1>12. ASSUME UNCHANGED vars PROVE Inv'
  <2>1. /\ UNCHANGED <<row, adding, jobs, work, late, blame>>
        /\ UNCHANGED <<reserved, issued, now, losses, mishaps>>
    BY <1>12 DEF vars
  <2>2. Types'
    BY <2>1, UntouchedTypes DEF Inv, Types
  <2> QED  BY <2>1, <2>2, NothingMoves
<1> QED
  BY <1>1, <1>2, <1>3, <1>4, <1>5, <1>6, <1>7, <1>8, <1>9, <1>10, <1>11, <1>12 DEF Next, AddServer

\* The invariant holds of every run.
THEOREM Invariance == Spec => []Inv
BY InitInv, Keeps, PTL DEF Spec

\* Types hold: a token that is stored or on its way was generated, and only
\* rows of the job table are reserved, whatever is lost, late or killed.
THEOREM TypeCorrect == Spec => []TypeOK
<1>1. Inv => TypeOK
  BY TypesGiveTypeOK DEF Inv
<1> QED
  BY <1>1, Invariance, PTL

\* Never do both servers fetch a secret with a token that the other accepts,
\* although requestSharedSecret compares the two tokens on either side at a
\* time of its own, unless a job outlived the row it is about.
THEOREM OneSideFetches == Spec => []OneFetches
<1>1. Inv => OneFetches
  <2> SUFFICES ASSUME Inv, "survived" \notin blame, \A s \in Server : Fetches(s) PROVE FALSE
    BY DEF OneFetches
  <2>1. PICK s \in Server : TRUE
    <3> SUFFICES ASSUME Server = {} PROVE FALSE
      OBVIOUS
    <3> QED  BY FS_EmptySet
  <2>2. PICK p \in Server : p = Peer(s) /\ Peer(p) = s
    BY Peers
  <2>3. PICK i \in jobs[s] : i.what = "get" /\ i.token = row[p].token
    BY <2>2 DEF Fetches
  <2>4. PICK j \in jobs[p] : j.what = "get" /\ j.token = row[s].token
    BY <2>2 DEF Fetches
  <2>5. i \in Job /\ j \in Job
    BY KnownJobs DEF Inv
  <2>6. Listing(s, i.token) /\ Listing(p, j.token)
    BY <2>3, <2>4, <2>5 DEF Inv, Gets, Live
  <2>7. row[s].token \in Nat /\ row[p].token \in Nat /\ row[s].token # NoToken
    BY <2>6 DEF Listing
  <2>8. row[s].token = row[p].token
    BY <2>3, <2>4, <2>6, <2>7 DEF Listing
  <2> QED  BY <2>2, <2>6, <2>7, <2>8 DEF Inv, Tokens, Listing
<1> QED
  BY <1>1, Invariance, PTL

\* When nothing is under way any more and both servers have a secret, it is
\* the same, or a server knows of the failure, for any number of requests that
\* are lost, late or answered in vain: getSharedSecret gives a new secret each
\* time, and the job that did not receive it comes back for another.
THEOREM SecretsComeToAgree == Spec => []SecretsAgree
<1>1. Inv => SecretsAgree
  <2> SUFFICES ASSUME Inv, ~Exchanging, blame \cap {"overlap", "twice", "killed"} = {},
                      \A s \in Server : row[s] # NoRow /\ row[s].secret # NoSecret,
                      Cardinality(Secrets) # 1
               PROVE  \E s \in Server : row[s].status = "failure"
    BY DEF SecretsAgree
  <2>1. Apart
    <3> SUFFICES ASSUME NEW s \in Server, row[s].secret = row[Peer(s)].secret PROVE FALSE
      BY DEF Apart
    <3>1. Secrets = {row[s].secret}
      BY Peers DEF Secrets
    <3> QED  BY <3>1, FS_Singleton
  <2>2. \A k \in Cron : ~Fetching(k)
    BY DEF Exchanging, Fetching
  <2>3. \A s \in Server : ~Listed(s)
    BY DEF Exchanging, Listed
  <2>4. Failed
    BY <2>1, <2>2, <2>3 DEF Inv, Agreement, Agree
  <2> QED  BY <2>4 DEF Failed
<1> QED
  BY <1>1, Invariance, PTL
=============================================================================
