------------------------------- MODULE RWLock -------------------------------
(***************************************************************************)
(* What Nextcloud's transactional file locking promises its callers,       *)
(* whatever stores the locks: a table of shared and exclusive holds, one   *)
(* entry per path, where an exclusive hold excludes every other hold.      *)
(*                                                                         *)
(* Locks are leases.  A path on which a lease ended under a live holder is *)
(* "lapsed"; the promise says nothing more about it.  A request that dies  *)
(* gives up its holds here; that its entry stays in the store until the    *)
(* lease ends only makes an implementation stricter than this table.       *)
(***************************************************************************)
EXTENDS Integers

CONSTANTS Request,   \* the PHP requests that take locks
          Path       \* the lock keys (hashed storage paths)

VARIABLES readers,   \* readers[r][p]: how many shared holds r has on p
          writers,   \* writers[r]: the paths r holds exclusively
          lapsed     \* the paths whose lease ended under a live holder

vars == <<readers, writers, lapsed>>

NoReaderBut(r, p) == \A q \in Request \ {r} : readers[q][p] = 0
NoWriterBut(r, p) == \A q \in Request \ {r} : p \notin writers[q]
NoWriter(p)       == \A q \in Request : p \notin writers[q]

Init == /\ readers = [r \in Request |-> [p \in Path |-> 0]]
        /\ writers = [r \in Request |-> {}]
        /\ lapsed = {}

\* A store may give a shared hold to the request that holds p exclusively.
AcquireShared(r, p) ==
  /\ p \in lapsed \/ NoWriterBut(r, p)
  /\ readers' = [readers EXCEPT ![r][p] = @ + 1]
  /\ UNCHANGED <<writers, lapsed>>

AcquireExclusive(r, p) ==
  /\ p \in lapsed \/ (NoWriter(p) /\ NoReaderBut(r, p) /\ readers[r][p] = 0)
  /\ writers' = [writers EXCEPT ![r] = @ \cup {p}]
  /\ UNCHANGED <<readers, lapsed>>

ReleaseShared(r, p) ==
  /\ readers[r][p] > 0
  /\ readers' = [readers EXCEPT ![r][p] = @ - 1]
  /\ UNCHANGED <<writers, lapsed>>

\* The store may free more than the exclusive hold, which is a loss.
ReleaseExclusive(r, p) ==
  /\ p \in writers[r]
  /\ writers' = [writers EXCEPT ![r] = @ \ {p}]
  /\ lapsed' \in {lapsed, lapsed \cup {p}}
  /\ UNCHANGED readers

\* A single shared hold becomes the exclusive one.
Upgrade(r, p) ==
  /\ readers[r][p] > 0
  /\ p \in lapsed \/ (NoWriter(p) /\ NoReaderBut(r, p) /\ readers[r][p] = 1)
  /\ readers' = [readers EXCEPT ![r][p] = @ - 1]
  /\ writers' = [writers EXCEPT ![r] = @ \cup {p}]
  /\ UNCHANGED lapsed

Downgrade(r, p) ==
  /\ p \in writers[r]
  /\ readers' = [readers EXCEPT ![r][p] = @ + 1]
  /\ writers' = [writers EXCEPT ![r] = @ \ {p}]
  /\ UNCHANGED lapsed

\* The request dies without releasing anything.
Die(r) ==
  /\ readers' = [readers EXCEPT ![r] = [p \in Path |-> 0]]
  /\ writers' = [writers EXCEPT ![r] = {}]
  /\ UNCHANGED lapsed

\* The store loses or forgets locks on some paths, under a holder or not.
Lapse(S) ==
  /\ lapsed' = lapsed \cup S
  /\ UNCHANGED <<readers, writers>>

\* Once nobody holds a path any more its loss is history.
Recover(p) ==
  /\ NoWriter(p) /\ \A r \in Request : readers[r][p] = 0
  /\ lapsed' = lapsed \ {p}
  /\ UNCHANGED <<readers, writers>>

Next == \/ \E r \in Request, p \in Path :
             \/ AcquireShared(r, p)
             \/ AcquireExclusive(r, p)
             \/ ReleaseShared(r, p)
             \/ ReleaseExclusive(r, p)
             \/ Upgrade(r, p)
             \/ Downgrade(r, p)
        \/ \E r \in Request : Die(r)
        \/ \E S \in SUBSET Path : Lapse(S)
        \/ \E p \in Path : Recover(p)

Spec == Init /\ [][Next]_vars
=============================================================================
