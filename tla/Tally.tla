------------------------------- MODULE Tally -------------------------------
(***************************************************************************)
(* Counting the holds of many requests on one lock.  f[r] is how often     *)
(* request r holds it, at most M times; the tally is the sum of f over R,  *)
(* written as the cardinality of a set of tokens so that it can be         *)
(* reasoned about with the library's facts on finite sets.                 *)
(***************************************************************************)
EXTENDS Integers, FiniteSets

Tokens(R, M, f) == {t \in R \X (1..M) : t[2] <= f[t[1]]}

Tally(R, M, f) == Cardinality(Tokens(R, M, f))
=============================================================================
