------------------------------ MODULE ViewLocks ------------------------------
(***************************************************************************)
(* lib/private/Files/View.php: which locks an operation on files takes, in  *)
(* which order, and what it gives back when one of them is refused, a hook  *)
(* vetoes it or the storage throws.  The locks themselves are the table of  *)
(* RWLock, which MemcacheLocking implements; none of them is ever lost.     *)
(*                                                                         *)
(* Every call of the locking provider is one step.  An operation is the     *)
(* sequence of its steps, each with what is left to do when it fails: the   *)
(* catch and finally blocks around it, or nothing when no try is.           *)
(***************************************************************************)
EXTENDS Integers, Sequences, FiniteSets

CONSTANTS
  Request, Path,
  Parents,       \* Parents[p]: getParents(p) but for the root, topmost first
  MaxOps         \* bound: operations of one request

ASSUME ConstantsAssumption ==
  /\ Parents \in [Path -> Seq(Path)]
  /\ \A p \in Path : \A i \in DOMAIN Parents[p] : Parents[p][i] # p
  /\ MaxOps \in Nat

VARIABLES
  readers,       \* readers[r][p]: shared locks, as the provider of r counts them
  writers,       \* writers[r]: the paths that r has locked exclusively
  op,            \* op[r]: the paths the operation of r writes and reads
  todo,          \* todo[r]: the steps that are left of it
  ops,           \* ops[r]: operations that r has begun
  cut            \* cut[r]: history, a call of r failed outside of any try

vars == <<readers, writers, op, todo, ops, cut>>

Lock == INSTANCE RWLock WITH lapsed <- {}

None == [writes |-> {}, reads |-> {}]

-----------------------------------------------------------------------------
(* The operations.                                                          *)

Call(do, p, otherwise) == <<[do |-> do, path |-> p, otherwise |-> otherwise]>>
OnParents(do, p, otherwise) ==
  [i \in DOMAIN Parents[p] |-> Call(do, Parents[p][i], otherwise)[1]]

\* A parent that is refused leaves the locks before it.
LockFile(p, otherwise) == Call("share", p, otherwise) \o OnParents("share", p, otherwise)
UnlockFile(p, release) == Call(release, p, <<>>) \o OnParents("unshare", p, <<>>)

\* The listeners of a hook run outside of any try; what they answer is heeded.
Ask(p, unlock) == Call("hook", p, <<>>) \o Call("hook", p, unlock)

Read(p) ==
  LET unlock == UnlockFile(p, "unshare") IN
  LockFile(p, <<>>) \o Ask(p, unlock) \o Call("work", p, unlock)
    \o Call("hook", p, <<>>) \o unlock

\* Fault: a lock that cannot be made exclusive is given back as an exclusive one.
Stored_FreesShared(p, rest) ==
  LET free == UnlockFile(p, "free") IN
  LockFile(p, <<>>) \o Ask(p, UnlockFile(p, "unshare")) \o Call("raise", p, free)
    \o Call("work", p, free) \o Call(rest, p, <<>>) \o Call("lower", p, <<>>)
    \o Call("hook", p, <<>>) \o UnlockFile(p, "unshare")

\* What throws between the first work and the unlocking is not caught.
Stored(p, rest) ==
  LET unlock == UnlockFile(p, "unshare") IN
  LockFile(p, <<>>) \o Ask(p, unlock) \o Call("raise", p, unlock)
    \o Call("work", p, UnlockFile(p, "free")) \o Call(rest, p, <<>>)
    \o Call("lower", p, <<>>) \o Call("hook", p, <<>>) \o unlock

\* After the storage comes the update of the cache.  Also for a stream, which
\* frees the exclusive lock when it is closed.
Write(p) == Stored(p, "hook")
\* The file is opened and then copied into; fopen says no with false.
Put(p)   == Stored(p, "work")

Rename(source, target) ==
  LET unlock == UnlockFile(source, "unshare") \o UnlockFile(target, "unshare")
      lower  == Call("lower", source, unlock) \o Call("lower", target, unlock) \o unlock IN
  LockFile(source, <<>>) \o LockFile(target, unlock) \o Call("hook", source, unlock)
    \o Call("raise", source, unlock) \o Call("raise", target, lower)
    \o Call("work", target, lower) \o lower

Copy(source, target) ==
  LET Unlock(release) == UnlockFile(target, release) \o UnlockFile(source, "unshare") IN
  LockFile(target, <<>>) \o LockFile(source, <<>>)
    \o Call("hook", target, Unlock("unshare")) \o Call("raise", target, Unlock("unshare"))
    \o Call("work", target, Unlock("free")) \o Call("lower", target, Unlock("free"))
    \o Unlock("unshare")

\* p and everything below it.
Within(p) == {q \in Path : q = p \/ \E i \in DOMAIN Parents[q] : Parents[q][i] = p}

Begin(r) ==
  /\ todo[r] = <<>> /\ ops[r] < MaxOps
  /\ \E p, q \in Path :
       \/ /\ p = q
          /\ \/ /\ op' = [op EXCEPT ![r] = [None EXCEPT !.reads = {p}]]
                /\ todo' = [todo EXCEPT ![r] = Read(p)]
             \/ /\ op' = [op EXCEPT ![r] = [None EXCEPT !.writes = {p}]]
                /\ todo' \in {[todo EXCEPT ![r] = s] : s \in {Write(p), Put(p)}}
       \/ /\ q \notin Within(p)
          /\ op' = [op EXCEPT ![r] = [None EXCEPT !.writes = {p, q}]]
          /\ todo' = [todo EXCEPT ![r] = Rename(p, q)]
       \/ /\ p # q
          /\ op' = [op EXCEPT ![r] = [writes |-> {q}, reads |-> {p}]]
          /\ todo' = [todo EXCEPT ![r] = Copy(p, q)]
  /\ ops' = [ops EXCEPT ![r] = @ + 1]
  /\ UNCHANGED <<readers, writers, cut>>

-----------------------------------------------------------------------------
(* The steps.                                                               *)

At(r, do)  == todo[r] # <<>> /\ Head(todo[r]).do = do
Target(r)  == Head(todo[r]).path
Go(r)      == todo' = [todo EXCEPT ![r] = Tail(@)] /\ UNCHANGED <<op, ops, cut>>
\* With nothing otherwise, the call is outside of any try.
Throw(r)   ==
  /\ todo' = [todo EXCEPT ![r] = Head(@).otherwise]
  /\ cut' = [cut EXCEPT ![r] = @ \/ Head(todo[r]).otherwise = <<>>]
  /\ UNCHANGED <<readers, writers, op, ops>>

Alone(r, p) == Lock!NoWriter(p) /\ Lock!NoReaderBut(r, p) /\ readers[r][p] = 1

\* A request that has left an exclusive lock behind may be refused by its own.
Share(r) ==
  LET p == Target(r) IN
  /\ At(r, "share")
  /\ \/ Lock!AcquireShared(r, p) /\ Go(r)
     \/ ~Lock!NoWriter(p) /\ Throw(r)

\* A counter of one becomes exclusive, if the lock is that of the caller.
Raise(r) ==
  LET p == Target(r) IN
  /\ At(r, "raise")
  /\ \/ Lock!Upgrade(r, p) /\ Go(r)
     \/ ~Alone(r, p) /\ Throw(r)

Lower(r) ==
  LET p == Target(r) IN
  /\ At(r, "lower")
  /\ \/ Lock!Downgrade(r, p) /\ Go(r)
     \/ p \notin writers[r] /\ Throw(r)

\* Fault, and what DBLockingProvider does on the command line: a lock that
\* somebody else holds is released.
Unshare_Unguarded(r) ==
  LET p == Target(r) IN
  /\ At(r, "unshare") /\ Go(r)
  /\ \/ Lock!ReleaseShared(r, p)
     \/ /\ readers[r][p] = 0
        /\ \E q \in Request : Lock!ReleaseShared(q, p)
     \/ (\A q \in Request : readers[q][p] = 0) /\ UNCHANGED <<readers, writers>>

\* "if we are not holding the lock, don't try to release it".
Unshare(r) ==
  LET p == Target(r) IN
  /\ At(r, "unshare") /\ Go(r)
  /\ \/ Lock!ReleaseShared(r, p)
     \/ readers[r][p] = 0 /\ UNCHANGED <<readers, writers>>

\* Nobody asks whose exclusive lock it is.
Unlock(r) ==
  LET p == Target(r) IN
  /\ At(r, "free") /\ Go(r)
  /\ writers' = [q \in Request |-> writers[q] \ {p}]
  /\ UNCHANGED readers

\* A listener vetoes the operation or throws, the storage fails, or the update
\* of the cache does.
Proceed(r) == /\ At(r, "hook") \/ At(r, "work")
              /\ Go(r) /\ UNCHANGED <<readers, writers>>
Object(r) == (At(r, "hook") \/ At(r, "work")) /\ Throw(r)

\* The request ends, in the middle of an operation when PHP gives up on it;
\* releaseAll is a shutdown function.
End(r) ==
  /\ ops[r] > 0
  /\ Lock!Die(r)
  /\ todo' = [todo EXCEPT ![r] = <<>>] /\ op' = [op EXCEPT ![r] = None]
  /\ ops' = [ops EXCEPT ![r] = 0] /\ cut' = [cut EXCEPT ![r] = FALSE]

-----------------------------------------------------------------------------
Init ==
  /\ Lock!Init
  /\ op = [r \in Request |-> None] /\ todo = [r \in Request |-> <<>>]
  /\ ops = [r \in Request |-> 0] /\ cut = [r \in Request |-> FALSE]

Next == \E r \in Request :
  \/ Begin(r) \/ Share(r) \/ Raise(r) \/ Lower(r) \/ Unshare(r) \/ Unlock(r)
  \/ Proceed(r) \/ Object(r) \/ End(r)

Spec == Init /\ [][Next]_vars

-----------------------------------------------------------------------------
(* Properties.                                                              *)

\* Every variable has its type, and an operation that is over has given back
\* every lock it took, on the path and on all its parents, also when it was
\* refused, vetoed or thrown out of a try; only a request of which a call failed
\* outside of every try may have kept some.
TypeOK ==
  /\ readers \in [Request -> [Path -> Nat]] /\ writers \in [Request -> SUBSET Path]
  /\ op \in [Request -> [writes : SUBSET Path, reads : SUBSET Path]]
  /\ ops \in [Request -> 0..MaxOps] /\ cut \in [Request -> BOOLEAN]
  /\ \A r \in Request : todo[r] = <<>> /\ ~cut[r] =>
       writers[r] = {} /\ \A p \in Path : readers[r][p] = 0

Works(r) == At(r, "work")

\* While an operation writes a path, nobody else works on it or on anything
\* below it: what others lock and release, and operations that were refused
\* half of their locks, do not take the locks of an operation away.
Isolated == \A r, q \in Request : r # q /\ Works(r) /\ Works(q) =>
  \A p \in op[r].writes : (op[q].writes \cup op[q].reads) \cap Within(p) = {}

-----------------------------------------------------------------------------
(* A promise that the code does not keep.                                   *)

\* However an operation ends, it leaves no lock behind until the request ends.
NothingLeft == \A r \in Request : todo[r] = <<>> =>
  writers[r] = {} /\ \A p \in Path : readers[r][p] = 0
=============================================================================
