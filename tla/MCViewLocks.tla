----------------------------- MODULE MCViewLocks -----------------------------
(* Small instances of ViewLocks for TLC: d/x and d/s/y.                    *)
EXTENDS ViewLocks, TLC
CONSTANTS d, x, s, y

MCParents == [p \in Path |-> IF p = d THEN <<>> ELSE IF p = y THEN <<d, s>> ELSE <<d>>]
\* A second operation is one behind locks that the first has left: after an
\* operation that gave all back it begins like a first one.  While a request is
\* at its second operation, nobody else is, and nobody is in y.
Scope ==
  \/ \A r \in Request : ops[r] <= 1
  \/ /\ Cardinality({r \in Request : ops[r] > 1}) = 1
     /\ \A r \in Request : /\ ops[r] > 1 => cut[r]
                           /\ y \notin op[r].writes \cup op[r].reads

RequestSymmetry == Permutations(Request)
=============================================================================
