------------------------ MODULE FederationHandshake ------------------------
(***************************************************************************)
(* apps/federation: how two servers whose administrators trust each other  *)
(* come to share a secret.  Each side stores a token and lists a           *)
(* RequestSharedSecret job; the side that is asked compares the tokens and *)
(* lists a GetSharedSecret job, which fetches the secret from the other.   *)
(*                                                                         *)
(* A job is run by a cron process: the HTTP request, the answer and the    *)
(* three statements after it are steps of their own.  The client waits for *)
(* three seconds; a request it gave up may never arrive, arrive late, or   *)
(* have been handled although its answer is lost.                          *)
(***************************************************************************)
EXTENDS Integers, FiniteSets

CONSTANTS
  Server,        \* two servers
  Cron,          \* cron processes
  Home,          \* Home[k]: the server that cron process k belongs to
  Token,         \* random tokens, ordered as strcmp orders them
  NoToken, NoRow,
  Secret,        \* random secrets: more than are ever known at one time
  NoSecret,
  MaxAttempts,   \* how often a refusal is retried, 5 in the code
  Lifespan,      \* 30 days, in ticks
  MaxSecond,     \* bound: seconds of a tick that are told apart
  MaxTime,       \* bound: ticks the clock runs
  MaxLosses,     \* bound: requests that are given up, lost or late
  MaxMishaps     \* bound: days that pass, jobs that run twice at once, killed
                 \* processes and removed servers

ASSUME ConstantsAssumption ==
  /\ IsFiniteSet(Server) /\ Cardinality(Server) = 2
  /\ IsFiniteSet(Cron) /\ Home \in [Cron -> Server]
  /\ Token \subseteq Nat /\ Secret \subseteq Nat
  /\ IsFiniteSet(Secret) => Cardinality(Secret) > Cardinality(Server) + Cardinality(Cron)
  /\ NoToken \notin Token /\ NoSecret \notin Secret
  /\ {MaxAttempts, Lifespan, MaxSecond, MaxTime, MaxLosses, MaxMishaps} \subseteq Nat

VARIABLES
  row,       \* row[s]: what s stores about its peer in trusted_servers, or NoRow
  adding,    \* adding[s]: where the administrator's addServer call stands
  jobs,      \* jobs[s]: the rows of both job classes in the job table of s
  reserved,  \* reserved[s]: those a process has reserved
  work,      \* work[k]: the job that cron process k of s is running
  late,      \* requests that were given up and still arrive, with their receiver
  issued,    \* the tokens that were ever generated
  now,       \* the clock
  losses, mishaps,  \* how many of them happened
  blame      \* history: what the properties depend on, see BlameType

vars == <<row, adding, jobs, reserved, work, late, issued, now, losses, mishaps, blame>>

Peer(s) == CHOOSE t \in Server : t # s

\* The argument has the second it was created in: a tick and a second of it.
Job == [what : {"request", "get"}, token : Token, created : 0..MaxTime, second : 0..MaxSecond,
        attempt : 0..MaxAttempts]
RowType == [token : Token \cup {NoToken}, secret : Secret \cup {NoSecret},
            status : {"pending", "failure"}]

ASSUME RowAssumption == NoRow \notin RowType

Reply == [code : {"ok"}, secret : Secret \cup {NoSecret}]
         \cup [code : {"denied", "failed"}, secret : {NoSecret}]

Idle == [at |-> "idle"]
NoAnswer == [code |-> "failed", secret |-> NoSecret]
NoCall == [at |-> "none", token |-> NoToken]
WorkType == {Idle} \cup [at : {"sent"}, job : Job] \cup [at : {"answered"}, job : Job, reply : Reply]
            \cup [at : {"remove", "add"}, job : Job, retain : BOOLEAN]

Mishap == mishaps < MaxMishaps /\ mishaps' = mishaps + 1

\* "overlap": two requests for a secret were open at once; "twice": two
\* processes ran one job; "survived": a job ran while the row it is about was
\* removed; "killed", "removed": a process, a row.
BlameType == {"overlap", "twice", "survived", "killed", "removed"}
Blame(why) == blame' = blame \cup why

\* Every variable has its type; a token that is stored or on its way was
\* generated; only rows of the table are reserved.
TypeOK ==
  /\ row \in [Server -> RowType \cup {NoRow}]
  /\ adding \in [Server -> [at : {"none", "token", "job"}, token : issued \cup {NoToken}]]
  /\ jobs \in [Server -> SUBSET Job] /\ work \in [Cron -> WorkType]
  /\ \A s \in Server :
       /\ reserved[s] \subseteq jobs[s]
       /\ row[s] # NoRow => row[s].token \in issued \cup {NoToken}
       /\ \A j \in jobs[s] : j.token \in issued /\ j.created <= now
  /\ late \subseteq [to : Server, what : {"request", "get"}, token : Token]
  /\ issued \subseteq Token /\ now \in 0..MaxTime
  /\ losses \in 0..MaxLosses /\ mishaps \in 0..MaxMishaps /\ blame \subseteq BlameType

-----------------------------------------------------------------------------
(* The job table: has() compares class and argument, so equal jobs are one  *)
(* row, and to add it again frees it; jobs for one token that were created  *)
(* in different seconds are two.  No two requests have the same token.      *)

Request(t) == [what |-> "request", token |-> t, created |-> now, second |-> 0, attempt |-> 0]
Get(t, x)     == [what |-> "get", token |-> t, created |-> now, second |-> x, attempt |-> 0]

Table(s, J, R) == /\ jobs' = [jobs EXCEPT ![s] = J]
                  /\ reserved' = [reserved EXCEPT ![s] = R]
AddJob(s, j)   == Table(s, jobs[s] \cup {j}, reserved[s] \ {j})
DropJob(s, j)  == Table(s, jobs[s] \ {j}, reserved[s] \ {j})

Runners(s, j) == {k \in Cron : Home[k] = s /\ work[k] # Idle /\ work[k].job = j}

Go(k, w) == work' = [work EXCEPT ![k] = w]

-----------------------------------------------------------------------------
(* TrustedServers: the administrator's calls.                               *)

\* checkServer and the INSERT.
InsertServer(s) ==
  /\ adding[s] = NoCall /\ row[s] = NoRow /\ Token \ issued # {}
  /\ row' = [row EXCEPT ![s] = [token |-> NoToken, secret |-> NoSecret, status |-> "pending"]]
  /\ adding' = [adding EXCEPT ![s].at = "token"]
  /\ UNCHANGED <<jobs, reserved, work, late, issued, blame, now, losses, mishaps>>

\* addToken.
StoreToken(s) ==
  /\ adding[s].at = "token"
  /\ \E t \in Token \ issued :
       /\ issued' = issued \cup {t}
       /\ row' = IF row[s] = NoRow THEN row ELSE [row EXCEPT ![s].token = t]
       /\ adding' = [adding EXCEPT ![s] = [at |-> "job", token |-> t]]
  /\ UNCHANGED <<jobs, reserved, work, late, blame, now, losses, mishaps>>

\* Fault: the job is given a token before there is one.
ListRequest_NoToken(s) ==
  /\ adding[s].at = "job"
  /\ AddJob(s, Request(NoToken))
  /\ adding' = [adding EXCEPT ![s] = NoCall]
  /\ UNCHANGED <<row, work, late, issued, blame, now, losses, mishaps>>

\* jobList->add(RequestSharedSecret).
ListRequest(s) ==
  /\ adding[s].at = "job"
  /\ AddJob(s, Request(adding[s].token))
  /\ adding' = [adding EXCEPT ![s] = NoCall]
  /\ UNCHANGED <<row, work, late, issued, blame, now, losses, mishaps>>

\* removeServer and TrustedServerRemovedListener, which removes the jobs.
RemoveServer(s) ==
  /\ row[s] # NoRow
  /\ Mishap
  /\ Blame({"removed"} \cup {"survived" : k \in {l \in Cron : Home[l] = s /\ work[l] # Idle}})
  /\ row' = [row EXCEPT ![s] = NoRow] /\ Table(s, {}, {})
  /\ UNCHANGED <<adding, work, late, issued, now, losses>>

-----------------------------------------------------------------------------
(* OCSAuthAPIController: what server p does with a request of its peer.     *)

\* 403 where the peer is not trusted or presents the wrong token; getToken
\* throws while none is stored.
Checked(p, accepted) == IF row[p] = NoRow THEN "denied"
                        ELSE IF row[p].token = NoToken THEN "failed"
                        ELSE IF accepted THEN "ok" ELSE "denied"

\* Fault: any request for a trusted server is accepted.
Verdict_AnyToken(p, what, t) ==
  Checked(p, IF what = "request" THEN TRUE ELSE row[p].token = t)

\* The greater token wins, and a secret is given for the stored token.
Verdict(p, what, t) ==
  Checked(p, IF what = "request" THEN row[p].token <= t ELSE row[p].token = t)

Known == {row[s].secret : s \in {t \in Server : row[t] # NoRow}}
         \cup {work[k].reply.secret : k \in {l \in Cron : work[l].at = "answered"}}

\* securerandom: a secret that is not known to anybody.
NewSecret == CHOOSE x \in Secret : x \notin Known

\* requestSharedSecret lists a job, getSharedSecret stores a new secret.
Endpoint(p, what, t) ==
  LET ok == Verdict(p, what, t) = "ok" IN
  /\ IF ok /\ what = "request" THEN \E x \in 0..MaxSecond : AddJob(p, Get(t, x)) ELSE UNCHANGED <<jobs, reserved>>
  /\ row' = IF ok /\ what = "get" THEN [row EXCEPT ![p].secret = NewSecret] ELSE row

Answer(p, what, t) ==
  LET code == Verdict(p, what, t) IN
  [code |-> code, secret |-> IF code = "ok" /\ what = "get" THEN NewSecret ELSE NoSecret]

\* The requests for a secret that are open: not handled yet, or not delivered.
OpenGets == {k \in Cron : work[k].at \in {"sent", "answered"} /\ work[k].job.what = "get"}
LateGets == {m \in late : m.what = "get"}

\* Two requests for a secret are open when one is handled, or nobody waits
\* for the one that is handled.
Overlap(what) == IF what = "get" /\ (Cardinality(OpenGets) > 1 \/ LateGets # {})
                 THEN Blame({"overlap"}) ELSE UNCHANGED blame

Handle(k) ==
  LET p == Peer(Home[k])  j == work[k].job IN
  /\ work[k].at = "sent"
  /\ Endpoint(p, j.what, j.token)
  /\ Go(k, [at |-> "answered", job |-> j, reply |-> Answer(p, j.what, j.token)])
  /\ Overlap(j.what)
  /\ UNCHANGED <<adding, late, issued, now, losses, mishaps>>

\* A request its sender gave up is handled; the answer reaches nobody.
HandleLate(m) ==
  /\ m \in late /\ late' = late \ {m}
  /\ Endpoint(m.to, m.what, m.token)
  /\ Overlap(m.what)
  /\ UNCHANGED <<adding, work, issued, now, losses, mishaps>>

-----------------------------------------------------------------------------
(* RequestSharedSecret and GetSharedSecret, the background jobs.            *)

TooOld(j) == j.created < now - Lifespan

\* start and run up to the HTTP request.
Start(k, j) ==
  LET s == Home[k] IN
  /\ work[k] = Idle /\ j \in jobs[s] \ reserved[s]
  /\ \/ /\ row[s] = NoRow
        /\ Go(k, [at |-> "remove", job |-> j, retain |-> FALSE])
        /\ Table(s, jobs[s], reserved[s] \cup {j}) /\ UNCHANGED row
     \/ /\ row[s] # NoRow /\ TooOld(j)
        /\ row' = [row EXCEPT ![s].status = "failure"]
        /\ Go(k, [at |-> "remove", job |-> j, retain |-> FALSE])
        /\ UNCHANGED <<jobs, reserved>>
     \/ /\ row[s] # NoRow /\ ~TooOld(j)
        /\ Go(k, [at |-> "sent", job |-> j])
        /\ Table(s, jobs[s], reserved[s] \cup {j}) /\ UNCHANGED row
  /\ IF Runners(s, j) = {} THEN UNCHANGED <<mishaps, blame>> ELSE Mishap /\ Blame({"twice"})
  /\ UNCHANGED <<adding, late, issued, now, losses>>

\* The client has waited three seconds, or the connection breaks: the request
\* is lost or late, or it was handled and the answer is lost.
GiveUp(k) ==
  LET s == Home[k]  j == work[k].job IN
  /\ \/ work[k].at = "sent"
     \/ work[k].at = "answered" /\ work[k].reply # NoAnswer
  /\ losses < MaxLosses /\ losses' = losses + 1
  /\ Go(k, [at |-> "answered", job |-> j, reply |-> NoAnswer])
  /\ \/ UNCHANGED late
     \/ /\ work[k].at = "sent"
        /\ late' = late \cup {[to |-> Peer(s), what |-> j.what, token |-> j.token]}
  /\ UNCHANGED <<row, adding, jobs, reserved, issued, now, mishaps, blame>>

\* Fault: only refusals are tried again.
Retain_NotFailed(j, code) == code = "denied" /\ j.what = "request" /\ j.attempt < MaxAttempts

Retain(j, code) ==
  \/ code = "failed"
  \/ code = "denied" /\ j.what = "request" /\ j.attempt < MaxAttempts

\* Fault: a server that has a secret keeps it.
Apply_KeepsSecret(k) ==
  LET s == Home[k]  j == work[k].job  reply == work[k].reply IN
  /\ work[k].at = "answered"
  /\ row' = IF j.what = "get" /\ reply.code = "ok" /\ row[s] # NoRow
            THEN [row EXCEPT ![s].secret = IF @ = NoSecret THEN reply.secret ELSE @] ELSE row
  /\ Table(s, jobs[s], reserved[s] \ {j})
  /\ Go(k, [at |-> "remove", job |-> j, retain |-> Retain(j, reply.code)])
  /\ UNCHANGED <<adding, late, issued, blame, now, losses, mishaps>>

\* The rest of run: store the secret, and setExecutionTime frees the row.
Apply(k) ==
  LET s == Home[k]  j == work[k].job  reply == work[k].reply IN
  /\ work[k].at = "answered"
  /\ row' = IF j.what = "get" /\ reply.code = "ok" /\ row[s] # NoRow
            THEN [row EXCEPT ![s].secret = reply.secret] ELSE row
  /\ Table(s, jobs[s], reserved[s] \ {j})
  /\ Go(k, [at |-> "remove", job |-> j, retain |-> Retain(j, reply.code)])
  /\ UNCHANGED <<adding, late, issued, blame, now, losses, mishaps>>

\* jobList->remove, by class and argument.
Remove(k) ==
  LET s == Home[k]  w == work[k] IN
  /\ w.at = "remove"
  /\ DropJob(s, w.job)
  /\ Go(k, IF w.retain THEN [w EXCEPT !.at = "add"] ELSE Idle)
  /\ UNCHANGED <<row, adding, late, issued, blame, now, losses, mishaps>>

\* reAddJob: a request counts its attempts; those beyond the limit are alike.
ReAdd(k) ==
  LET s == Home[k]  j == work[k].job IN
  /\ work[k].at = "add"
  /\ AddJob(s, [j EXCEPT !.attempt = IF j.what = "request" /\ @ < MaxAttempts THEN @ + 1 ELSE @])
  /\ Go(k, Idle)
  /\ UNCHANGED <<row, adding, late, issued, blame, now, losses, mishaps>>

-----------------------------------------------------------------------------
Crash(k) ==
  /\ work[k] # Idle /\ Mishap /\ Blame({"killed"})
  /\ Go(k, Idle)
  /\ UNCHANGED <<row, adding, jobs, reserved, late, issued, now, losses>>

\* Twelve hours later the row of a killed process is free again.
Unblock(s, j) ==
  /\ j \in reserved[s] /\ Runners(s, j) = {}
  /\ Table(s, jobs[s], reserved[s] \ {j})
  /\ UNCHANGED <<row, adding, work, late, issued, blame, now, losses, mishaps>>

Tick ==
  /\ now < MaxTime /\ now' = now + 1 /\ Mishap
  /\ UNCHANGED <<row, adding, jobs, reserved, work, late, issued, losses, blame>>

Init ==
  /\ row = [s \in Server |-> NoRow] /\ adding = [s \in Server |-> NoCall]
  /\ jobs = [s \in Server |-> {}] /\ reserved = [s \in Server |-> {}]
  /\ work = [k \in Cron |-> Idle]
  /\ late = {} /\ issued = {} /\ now = 0
  /\ losses = 0 /\ mishaps = 0 /\ blame = {}

StartAny(s) == \E k \in Cron : Home[k] = s /\ \E j \in jobs[s] : Start(k, j)
Continue(k) == Handle(k) \/ Apply(k) \/ Remove(k) \/ ReAdd(k)
AddServer(s) == StoreToken(s) \/ ListRequest(s)

Next ==
  \/ \E s \in Server : InsertServer(s) \/ AddServer(s) \/ RemoveServer(s) \/ StartAny(s)
  \/ \E k \in Cron : Continue(k) \/ GiveUp(k) \/ Crash(k)
  \/ \E s \in Server : \E j \in jobs[s] : Unblock(s, j)
  \/ \E m \in late : HandleLate(m)
  \/ Tick

Spec == Init /\ [][Next]_vars

\* Cron comes back and jobs that are started go on, on one server or the other;
\* requests are answered but for MaxLosses of them, and nothing is assumed of
\* the administrators.
Fairness == /\ WF_vars(\E s \in Server : StartAny(s))
            /\ WF_vars(\E k \in Cron : Continue(k))
FairSpec == Spec /\ Fairness

-----------------------------------------------------------------------------
(* Properties.                                                              *)

Exchanging == \/ \E k \in Cron : work[k] # Idle
              \/ \E s \in Server : \E j \in jobs[s] : j.what = "get"
              \/ late # {}

Secrets == {row[s].secret : s \in Server}

\* When nothing is under way any more and both servers have a secret, it is
\* the same one, however many requests and answers were lost and repeated, or
\* a server knows that the exchange failed; unless two requests for a secret
\* overlapped, two processes ran one job or a process was killed.
SecretsAgree ==
  /\ ~Exchanging /\ blame \cap {"overlap", "twice", "killed"} = {}
  /\ \A s \in Server : row[s] # NoRow /\ row[s].secret # NoSecret
  => Cardinality(Secrets) = 1 \/ \E s \in Server : row[s].status = "failure"

Fetches(s) == /\ row[s] # NoRow /\ row[Peer(s)] # NoRow
              /\ \E j \in jobs[s] : j.what = "get" /\ j.token = row[Peer(s)].token

\* "if both server initiated the exchange of the shared secret the greater
\* token wins": never do both sides fetch a secret with a token the other
\* accepts, although each compared the tokens at a time of its own, unless a
\* job outlived the row it is about.
OneFetches == "survived" \in blame \/ \E s \in Server : ~Fetches(s)

Pending(s) == LET p == Peer(s) IN
  /\ row[s] # NoRow /\ row[p] # NoRow /\ row[p].token # NoToken
  /\ \E j \in jobs[s] : /\ j.what = "request" /\ j.token = row[s].token /\ j.token > row[p].token
                        /\ Runners(s, j) = {}

Agreed == /\ \A s \in Server : row[s] # NoRow /\ row[s].secret # NoSecret
          /\ Cardinality(Secrets) = 1

\* Once both sides trust each other and the request with the greater token is
\* listed, they come to share a secret: whichever requests and answers are
\* lost, unless two requests for a secret overlap, a process is killed, a row
\* is removed or the job gets too old first.
EventuallyAgreed == \A s \in Server :
  Pending(s) ~> Agreed \/ blame \cap {"removed", "killed", "twice", "overlap"} # {} \/ now > Lifespan

-----------------------------------------------------------------------------
(* A promise that the code does not keep.                                   *)

\* "remote server presented lower token. We will initiate the exchange of the
\* shared secret": a server that refuses for this reason has its own request
\* listed or running, or the secret already.
RefusedWillInitiate == [][\A k \in Cron :
  LET p == Peer(Home[k]) IN
    /\ work[k].at = "sent" /\ work'[k].at = "answered" /\ work[k].job.what = "request"
    /\ work'[k].reply.code = "denied" /\ row[p] # NoRow
    => \/ row[p].secret # NoSecret \/ adding[p] # NoCall
       \/ \E j \in jobs[p] : j.what = "request" /\ j.token = row[p].token
       \/ \E l \in Cron : Home[l] = p /\ work[l] # Idle]_vars
=============================================================================
