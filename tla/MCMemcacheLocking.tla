------------------------- MODULE MCMemcacheLocking -------------------------
(* Small instances of MemcacheLocking for TLC.                             *)
EXTENDS MemcacheLocking, TLC

RequestSymmetry == Permutations(Request)

\* Where to look on: while no key has vanished under a holder, and after a
\* crash only before the last second; behind a key that vanished only without
\* a crash, with one hold each.
Scope == \/ lapsed = {} /\ (crashes = 0 \/ now <= 1)
         \/ crashes = 0 /\ now <= 1 /\ \A r \in Request, p \in Path : own[r][p] <= 1
=============================================================================
