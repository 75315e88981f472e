------------------------------ MODULE MCJobList ------------------------------
(* Instances of JobList for TLC: seven rows, of which a run lists two or     *)
(* three at a time, with an hour or six hours to a tick.                     *)
EXTENDS JobList, TLC

CONSTANTS p1, p2, c1, c2, timed, queued, plain, twin, off, gone,
          i1, i2, i3, i4, i5, i6, i7

\* The class of each row.
Classes == i1 :> timed @@ i2 :> queued @@ i3 :> twin @@ i4 :> twin
           @@ i5 :> off @@ i6 :> gone @@ i7 :> plain
MCClassOf == [i \in Id |-> Classes[i]]

\* Every row has a key of its own, or the two twins are equal.
MCKeyOf == [i \in Id |-> i]
MCSame  == [i \in Id |-> IF i = i4 THEN i3 ELSE i]
MCKeys  == Id


\* Intervals of the timed classes, in ticks.
MCZero  == [c \in Timed |-> 0]
MCShort == [c \in Timed |-> 1]

\* Cron runs that ask for every class, and workers limited to one.
MCAll == {Class}
MCFilters == {Class, {timed}}

\* Two calls, or a call and a killed process.
FewEvents == calls + crashes <= 2

Symmetric == Permutations({p1, p2}) \cup Permutations({c1, c2})
===============================================================================
