----------------------- MODULE MemcacheLockingProofs -----------------------
(***************************************************************************)
(* Theorems about MemcacheLocking, for every number of requests and keys   *)
(* and every TTL.  CountCovers and CounterExact are inductive together     *)
(* with TypeOK: a step of one request on one key has one of a few effects  *)
(* on the key and on what the request holds there (Effect); each of them   *)
(* keeps the counter at or above the holds and, where nobody died, exact,  *)
(* and each is a step of the abstract lock table or changes no hold        *)
(* (Turn, Same), so that the provider implements RWLock.  What holds of a  *)
(* key that its holders may have lost is Ends, from which it follows that  *)
(* such a key is gone or 0 once they are done.                             *)
(***************************************************************************)
EXTENDS MemcacheLocking, TallyProofs

USE ConstantsAssumption

\* What a request holds is a number of shared locks within the bound, and the
\* total is the tally of these numbers.
HoldsOK ==
  \A p \in Path :
    /\ Holds(p) \in [Request -> 0..MaxShared]
    /\ \A r \in Request : Holds(p)[r] = Held(r, p) /\ Held(r, p) \in 0..MaxShared
    /\ Total(p) = Tally(Request, MaxShared, Holds(p)) /\ Total(p) \in Nat

LEMMA HoldsType == TypeOK => HoldsOK
<1> SUFFICES ASSUME TypeOK, NEW p \in Path
             PROVE  /\ Holds(p) \in [Request -> 0..MaxShared]
                    /\ \A r \in Request :
                         Holds(p)[r] = Held(r, p) /\ Held(r, p) \in 0..MaxShared
                    /\ Total(p) = Tally(Request, MaxShared, Holds(p))
                    /\ Total(p) \in Nat
  BY DEF HoldsOK
<1>1. ASSUME NEW r \in Request PROVE Held(r, p) \in 0..MaxShared
  <2>1. own[r][p] \in 0..MaxShared /\ call[r] \in Calls /\ CallConsistent(r)
    BY DEF TypeOK, Types
  <2>2. CASE call[r].path # p
    BY <2>1, <2>2 DEF Held, Due
  <2>3. CASE call[r].path = p /\ Gaining(call[r])
    BY <2>1, <2>3 DEF Held, Due, Gaining, CallConsistent
  <2>4. CASE call[r].path = p /\ ~Gaining(call[r]) /\ Losing(call[r])
    BY <2>1, <2>4 DEF Held, Due, Losing, CallConsistent
  <2>5. CASE call[r].path = p /\ ~Gaining(call[r]) /\ ~Losing(call[r])
    BY <2>1, <2>5 DEF Held, Due
  <2> QED  BY <2>2, <2>3, <2>4, <2>5
<1>2. Holds(p) \in [Request -> 0..MaxShared]
  BY <1>1 DEF Holds
<1> QED
  BY <1>1, <1>2, TokensFinite DEF Holds, Total

\* The part of CountCovers that is about one key.
Covered(p) ==
  /\ lock[p] = NoKey => ~InUse(p)
  /\ lock[p] \in Int => Total(p) <= lock[p] /\ \A r \in Request : ~HasX(r, p)
  /\ lock[p] = Exclusive =>
       /\ \A r \in Request : Held(r, p) = 0
       /\ \A r, q \in Request : HasX(r, p) /\ HasX(q, p) => r = q

\* The part of CounterExact that is about one key.
Exact(p) ==
  /\ Total(p) = IF lock[p] \in Int THEN lock[p] ELSE 0
  /\ lock[p] = Exclusive => \E r \in Request : HasX(r, p)

\* Never below what is held, and exact where no holder died.
Covers == CountCovers /\ CounterExact

\* r has counted p below zero and is about to reset it to nothing.
Pending(r, p) == call[r].path = p /\ InCall(r, "reset") /\ call[r].seen = lock[p]

\* What a step of r may do to the key p and to what r holds on it.
GivesUp(r, p)   == Held(r, p)' <= Held(r, p) /\ (HasX(r, p)' => HasX(r, p))
SameX(r, p)     == HasX(r, p)' <=> HasX(r, p)
Same(r, p)      == Held(r, p)' = Held(r, p) /\ SameX(r, p)

Untouched(r, p) == lock'[p] = lock[p] /\ Same(r, p)
Created(r, p)   == lock[p] = NoKey /\ lock'[p] = 0 /\ Same(r, p)
Shared(r, p)    == /\ lock[p] # Exclusive /\ SameX(r, p)
                   /\ lock'[p] = IF lock[p] = NoKey THEN 1 ELSE lock[p] + 1
                   /\ Held(r, p)' = Held(r, p) + 1
Returned(r, p)  == /\ lock[p] \in Int /\ lock'[p] = lock[p] - 1 /\ SameX(r, p)
                   /\ Held(r, p)' = Held(r, p) - 1
                   /\ lock'[p] >= 0 \/ Pending(r, p)'
Excluded(r, p)  == /\ lock[p] = 0 \/ (lock[p] = 1 /\ Held(r, p) > 0)
                   /\ lock'[p] = Exclusive /\ HasX(r, p)'
                   /\ Held(r, p)' = Held(r, p) - lock[p]
Lowered(r, p)   == /\ lock[p] = Exclusive /\ lock'[p] = 1 /\ HasX(r, p)
                   /\ ~HasX(r, p)' /\ Held(r, p)' = Held(r, p) + 1
Deleted(r, p)   == /\ lock[p] = 1 /\ Held(r, p) > 0 /\ lock'[p] = NoKey
                   /\ Held(r, p)' = Held(r, p) - 1 /\ SameX(r, p)
Freed(r, p)     == /\ lock[p] = Exclusive /\ HasX(r, p) /\ lock'[p] = NoKey
                   /\ ~HasX(r, p)' /\ Held(r, p)' = Held(r, p)
\* Deleted although r gives nothing up, which only hurts where p is in use.
Vanished(r, p)  == ~InUse(p) /\ lock'[p] = NoKey /\ Same(r, p)

Effect(r, p) == \/ Untouched(r, p) \/ Created(r, p) \/ Shared(r, p)
                \/ Returned(r, p) \/ Excluded(r, p) \/ Lowered(r, p)
                \/ Deleted(r, p) \/ Freed(r, p) \/ Vanished(r, p)

\* What else happens to a key that has lapsed.
Loose(r, p) == \/ lock'[p] \in {NoKey, 0}
               \/ lock'[p] = lock[p] /\ lock[p] \notin Int /\ SameX(r, p)
               \/ /\ lock'[p] = lock[p] /\ lock[p] # Exclusive
                  /\ Held(r, p)' = Held(r, p)

\* The key still counts what r gave up when it died.
Abandoned(r, p) == lock'[p] = lock[p] /\ GivesUp(r, p)

\* The other requests hold on p what they held.
OthersKeep(r, p) == \A q \in Request \ {r} : /\ Held(q, p)' = Held(q, p)
                                             /\ HasX(q, p)' <=> HasX(q, p)

\* One step of one request keeps its key covered.
LEMMA EffectCovered ==
  ASSUME TypeOK, TypeOK', NEW r \in Request, NEW p \in Path,
         Covered(p), OthersKeep(r, p), Effect(r, p) \/ Abandoned(r, p)
  PROVE  Covered(p)'
<1> DEFINE f == Holds(p)
           g == Holds(p)'
<1>1. /\ f \in [Request -> 0..MaxShared]
      /\ \A q \in Request : f[q] = Held(q, p) /\ Held(q, p) \in 0..MaxShared
      /\ Total(p) = Tally(Request, MaxShared, f) /\ Total(p) \in Nat
  BY HoldsType DEF HoldsOK
<1>2. /\ g \in [Request -> 0..MaxShared]
      /\ \A q \in Request : g[q] = Held(q, p)' /\ Held(q, p)' \in 0..MaxShared
      /\ Total(p)' = Tally(Request, MaxShared, g) /\ Total(p)' \in Nat
  <2>1. (TypeOK => HoldsOK)'
    BY HoldsType, PTL
  <2> QED  BY <2>1 DEF HoldsOK
<1>3. \A q \in Request \ {r} : g[q] = f[q]
  BY <1>1, <1>2 DEF OthersKeep
<1>4. lock[p] \in LockValue /\ lock'[p] \in LockValue
  BY DEF TypeOK, Types
<1> HIDE DEF f, g
<1>5. Held(r, p)' <= Held(r, p) => Total(p)' <= Total(p)
  <2> SUFFICES ASSUME Held(r, p)' <= Held(r, p) PROVE Total(p)' <= Total(p)
    OBVIOUS
  <2>1. \A q \in Request : g[q] <= f[q]
    BY <1>1, <1>2, <1>3
  <2> QED  BY <1>1, <1>2, <2>1, TallyMonotone
<1>6. Held(r, p)' = Held(r, p) + 1 => Total(p)' = Total(p) + 1
  BY <1>1, <1>2, <1>3, TallyIncrement
<1>7. Held(r, p)' = Held(r, p) - 1 => Total(p)' = Total(p) - 1
  BY <1>1, <1>2, <1>3, TallyDecrement
<1>8. Total(p) <= 1 /\ Held(r, p) > 0 =>
        Held(r, p) = 1 /\ \A q \in Request \ {r} : Held(q, p) = 0
  BY <1>1, TallyOne
<1>9. Total(p) = 0 <=> \A q \in Request : Held(q, p) = 0
  BY <1>1, TallyZero
<1>10. Total(p)' = 0 <=> \A q \in Request : Held(q, p)' = 0
  BY <1>2, TallyZero
<1>11. Same(r, p) => GivesUp(r, p)
  BY <1>1 DEF Same, SameX, GivesUp
<1>12. CASE Untouched(r, p) \/ Abandoned(r, p)
  BY <1>1, <1>2, <1>4, <1>5, <1>11, <1>12
     DEF Covered, InUse, Untouched, Abandoned, GivesUp, OthersKeep, LockValue
<1>13. CASE Created(r, p)
  BY <1>1, <1>2, <1>9, <1>5, <1>11, <1>13 DEF Covered, InUse, Created, GivesUp, OthersKeep
<1>14. CASE Shared(r, p)
  BY <1>1, <1>2, <1>4, <1>6, <1>9, <1>14 DEF Covered, InUse, Shared, SameX, OthersKeep, LockValue
<1>15. CASE Returned(r, p)
  BY <1>1, <1>2, <1>4, <1>7, <1>15 DEF Covered, InUse, Returned, SameX, OthersKeep, LockValue
<1>16. CASE Excluded(r, p)
  BY <1>1, <1>2, <1>8, <1>9, <1>16 DEF Covered, InUse, Excluded, OthersKeep
<1>17. CASE Lowered(r, p)
  BY <1>1, <1>2, <1>6, <1>9, <1>17 DEF Covered, InUse, Lowered, OthersKeep
<1>18. CASE Deleted(r, p)
  BY <1>1, <1>2, <1>8, <1>18 DEF Covered, InUse, Deleted, SameX, OthersKeep
<1>19. CASE Freed(r, p)
  BY <1>1, <1>2, <1>19 DEF Covered, InUse, Freed, OthersKeep
<1>20. CASE Vanished(r, p)
  BY <1>1, <1>2, <1>11, <1>20 DEF Covered, InUse, Vanished, GivesUp, OthersKeep
<1> QED
  BY <1>12, <1>13, <1>14, <1>15, <1>16, <1>17, <1>18, <1>19, <1>20 DEF Effect

\* Where nobody holds the key and where it is exclusive, the total is zero.
LEMMA NothingHeld ==
  ASSUME TypeOK, NEW p \in Path, Covered(p), lock[p] \in {NoKey, Exclusive}
  PROVE  Total(p) = 0
<1>1. /\ Holds(p) \in [Request -> 0..MaxShared]
      /\ \A q \in Request : Holds(p)[q] = Held(q, p) /\ Held(q, p) \in 0..MaxShared
      /\ Total(p) = Tally(Request, MaxShared, Holds(p))
  BY HoldsType DEF HoldsOK
<1>2. ASSUME NEW q \in Request PROVE Held(q, p) = 0
  BY <1>1 DEF Covered, InUse
<1> QED
  BY <1>1, <1>2, TallyZero

\* One step of one request keeps the counter of its key exact.
LEMMA EffectExact ==
  ASSUME TypeOK, TypeOK', NEW r \in Request, NEW p \in Path, p \notin stray',
         Covered(p), Exact(p), OthersKeep(r, p), Effect(r, p)
  PROVE  Exact(p)'
<1> DEFINE f == Holds(p)
           g == Holds(p)'
<1>1. /\ f \in [Request -> 0..MaxShared]
      /\ \A q \in Request : f[q] = Held(q, p) /\ Held(q, p) \in 0..MaxShared
      /\ Total(p) = Tally(Request, MaxShared, f) /\ Total(p) \in Nat
  BY HoldsType DEF HoldsOK
<1>2. /\ g \in [Request -> 0..MaxShared]
      /\ \A q \in Request : g[q] = Held(q, p)' /\ Held(q, p)' \in 0..MaxShared
      /\ Total(p)' = Tally(Request, MaxShared, g) /\ Total(p)' \in Nat
  <2>1. (TypeOK => HoldsOK)'
    BY HoldsType, PTL
  <2> QED  BY <2>1 DEF HoldsOK
<1>3. \A q \in Request \ {r} : g[q] = f[q]
  BY <1>1, <1>2 DEF OthersKeep
<1>4. lock[p] \in LockValue /\ lock'[p] \in LockValue
  BY DEF TypeOK, Types
<1>5. lock'[p] \in {NoKey, Exclusive} => Total(p)' = 0
  <2>1. Covered(p)'
    BY EffectCovered
  <2>2. (TypeOK /\ Covered(p) /\ lock[p] \in {NoKey, Exclusive} => Total(p) = 0)'
    BY NothingHeld, PTL
  <2> QED  BY <2>1, <2>2
<1>6. lock[p] \in {NoKey, Exclusive} => Total(p) = 0
  BY NothingHeld
<1> HIDE DEF f, g
<1>7. Held(r, p)' = Held(r, p) => Total(p)' = Total(p)
  <2> SUFFICES ASSUME Held(r, p)' = Held(r, p) PROVE Total(p)' = Total(p)
    OBVIOUS
  <2>1. f = g
    BY <1>1, <1>2, <1>3
  <2> QED  BY <1>1, <1>2, <2>1
<1>8. Held(r, p)' = Held(r, p) + 1 => Total(p)' = Total(p) + 1
  BY <1>1, <1>2, <1>3, TallyIncrement
<1>9. Held(r, p)' = Held(r, p) - 1 => Total(p)' = Total(p) - 1
  BY <1>1, <1>2, <1>3, TallyDecrement
<1>10. CASE lock'[p] = NoKey
  BY <1>5, <1>10 DEF Exact
<1>11. CASE Untouched(r, p)
  BY <1>7, <1>11 DEF Exact, Untouched, Same, SameX, OthersKeep
<1>12. CASE Created(r, p)
  BY <1>6, <1>7, <1>12 DEF Exact, Created, Same
<1>13. CASE Shared(r, p)
  BY <1>4, <1>6, <1>8, <1>13 DEF Exact, Shared, LockValue
<1>14. CASE Returned(r, p)
  BY <1>9, <1>14 DEF Exact, Returned
<1>15. CASE Excluded(r, p)
  BY <1>5, <1>15 DEF Exact, Excluded
<1>16. CASE Lowered(r, p)
  BY <1>6, <1>8, <1>16 DEF Exact, Lowered
<1> QED
  BY <1>10, <1>11, <1>12, <1>13, <1>14, <1>15, <1>16
     DEF Effect, Deleted, Freed, Vanished

-----------------------------------------------------------------------------
(* A key that its holders may have lost still ends well: it counts no more *)
(* than the holds, 'exclusive' has a holder, and below zero there is one   *)
(* who still has a lock to release or is about to reset the key.           *)

Ends(p) ==
  /\ lock[p] \in Int => lock[p] <= Total(p)
  /\ lock[p] = Exclusive => \E r \in Request : HasX(r, p)
  /\ lock[p] \in Int /\ lock[p] < 0 =>
       \E r \in Request : Held(r, p) > 0 \/ Pending(r, p)

Frees == \A p \in Path \ stray : Ends(p)

LEMMA EffectEnds ==
  ASSUME TypeOK, TypeOK', NEW r \in Request, NEW p \in Path, Ends(p),
         OthersKeep(r, p), \A q \in Request \ {r} : call'[q] = call[q],
         Pending(r, p) => lock'[p] = NoKey, Effect(r, p) \/ Loose(r, p)
  PROVE  Ends(p)'
<1> DEFINE f == Holds(p)
           g == Holds(p)'
<1>1. /\ f \in [Request -> 0..MaxShared]
      /\ \A q \in Request : f[q] = Held(q, p) /\ Held(q, p) \in 0..MaxShared
      /\ Total(p) = Tally(Request, MaxShared, f) /\ Total(p) \in Nat
  BY HoldsType DEF HoldsOK
<1>2. /\ g \in [Request -> 0..MaxShared]
      /\ \A q \in Request : g[q] = Held(q, p)' /\ Held(q, p)' \in 0..MaxShared
      /\ Total(p)' = Tally(Request, MaxShared, g) /\ Total(p)' \in Nat
  <2>1. (TypeOK => HoldsOK)'
    BY HoldsType, PTL
  <2> QED  BY <2>1 DEF HoldsOK
<1>3. \A q \in Request \ {r} : g[q] = f[q]
  BY <1>1, <1>2 DEF OthersKeep
<1>4. lock[p] \in LockValue /\ lock'[p] \in LockValue
  BY DEF TypeOK, Types
<1> HIDE DEF f, g
<1>5. Held(r, p)' = Held(r, p) => Total(p)' = Total(p)
  <2> SUFFICES ASSUME Held(r, p)' = Held(r, p) PROVE Total(p)' = Total(p)
    OBVIOUS
  <2>1. f = g
    BY <1>1, <1>2, <1>3
  <2> QED  BY <1>1, <1>2, <2>1
<1>6. Held(r, p)' = Held(r, p) + 1 => Total(p)' = Total(p) + 1 /\ Held(r, p)' > 0
  BY <1>1, <1>2, <1>3, TallyIncrement
<1>7. Held(r, p)' = Held(r, p) - 1 => Total(p)' = Total(p) - 1
  BY <1>1, <1>2, <1>3, TallyDecrement
<1>8. CASE lock'[p] \in {NoKey, 0, Exclusive} /\ (lock'[p] = Exclusive => HasX(r, p)')
  BY <1>2, <1>8 DEF Ends
<1>9. CASE lock'[p] = lock[p] /\ lock[p] # Exclusive /\ Held(r, p)' = Held(r, p)
  <2>1. \A q \in Request : Held(q, p)' = Held(q, p)
    BY <1>9 DEF OthersKeep
  <2>2. lock[p] # NoKey => \A q \in Request : Pending(q, p) => Pending(q, p)'
    BY <1>9 DEF Pending, InCall
  <2>3. lock[p] \in Int => lock[p] # NoKey
    OBVIOUS
  <2> QED  BY <1>1, <1>5, <1>9, <2>1, <2>2, <2>3 DEF Ends
<1>10. CASE lock'[p] = lock[p] /\ lock[p] \notin Int /\ SameX(r, p)
  BY <1>10 DEF Ends, SameX, OthersKeep
<1>11. CASE Shared(r, p) \/ Lowered(r, p)
  BY <1>1, <1>4, <1>6, <1>11 DEF Ends, Shared, Lowered, LockValue
<1>12. CASE Returned(r, p)
  BY <1>1, <1>7, <1>12 DEF Ends, Returned
<1> QED
  BY <1>4, <1>8, <1>9, <1>10, <1>11, <1>12
     DEF Effect, Loose, Untouched, Same, Created, Excluded, Deleted, Freed, Vanished, LockValue

-----------------------------------------------------------------------------
(* Every step is a step of the abstract lock table, or a stutter of it.    *)

\* What r holds on p changes in one of the ways of the abstract lock table.
Turn(r, p) ==
  \/ /\ Held(r, p)' = Held(r, p) + 1 /\ (HasX(r, p)' <=> HasX(r, p))
     /\ p \in lapsed \/ Table!NoWriter(p)
  \/ /\ Held(r, p)' = Held(r, p) - 1 /\ (HasX(r, p)' <=> HasX(r, p)) /\ Held(r, p) > 0
  \/ /\ Held(r, p)' = Held(r, p) /\ HasX(r, p)'
     /\ p \in lapsed \/ (Table!NoWriter(p) /\ Table!NoReaderBut(r, p) /\ Held(r, p) = 0)
  \/ /\ Held(r, p)' = Held(r, p) - 1 /\ Held(r, p) > 0 /\ HasX(r, p)'
     /\ p \in lapsed \/ (Table!NoWriter(p) /\ Table!NoReaderBut(r, p) /\ Held(r, p) = 1)
  \/ Held(r, p)' = Held(r, p) + 1 /\ HasX(r, p) /\ ~HasX(r, p)'
  \/ Held(r, p)' = Held(r, p) /\ HasX(r, p) /\ ~HasX(r, p)'

Simulates == Table!Next \/ UNCHANGED Table!vars

Readers == [r \in Request |-> [p \in Path |-> Held(r, p)]]
Writers == [r \in Request |-> {p \in Path : HasX(r, p)}]

\* Nothing but what r holds on p may change.
Only(r, p) == \A q \in Request, x \in Path : q # r \/ x # p =>
  Held(q, x)' = Held(q, x) /\ (HasX(q, x)' <=> HasX(q, x))

LEMMA ReadersAre ==
  ASSUME NEW r \in Request, NEW p \in Path, Only(r, p)
  PROVE  Readers' = [Readers EXCEPT ![r][p] = Held(r, p)']
<1>1. ASSUME NEW q \in Request, NEW x \in Path
      PROVE  Held(q, x)' = IF q = r /\ x = p THEN Held(r, p)' ELSE Held(q, x)
  BY DEF Only
<1> QED BY <1>1 DEF Readers

LEMMA ReadersSame ==
  ASSUME NEW r \in Request, NEW p \in Path, Only(r, p), Held(r, p)' = Held(r, p)
  PROVE  Readers' = Readers
<1>1. ASSUME NEW q \in Request, NEW x \in Path PROVE Held(q, x)' = Held(q, x)
  BY DEF Only
<1> QED BY <1>1 DEF Readers

LEMMA WritersAre ==
  ASSUME NEW r \in Request, NEW p \in Path, Only(r, p)
  PROVE  /\ HasX(r, p)' => Writers' = [Writers EXCEPT ![r] = @ \cup {p}]
         /\ ~HasX(r, p)' => Writers' = [Writers EXCEPT ![r] = @ \ {p}]
         /\ (HasX(r, p)' <=> HasX(r, p)) => Writers' = Writers
<1>1. /\ \A q \in Request \ {r} : {x \in Path : HasX(q, x)'} = {x \in Path : HasX(q, x)}
      /\ HasX(r, p)' => {x \in Path : HasX(r, x)'} = {x \in Path : HasX(r, x)} \cup {p}
      /\ ~HasX(r, p)' => {x \in Path : HasX(r, x)'} = {x \in Path : HasX(r, x)} \ {p}
      /\ (HasX(r, p)' <=> HasX(r, p)) => {x \in Path : HasX(r, x)'} = {x \in Path : HasX(r, x)}
  BY DEF Only
<1>2. HasX(r, p)' => Writers' = [Writers EXCEPT ![r] = @ \cup {p}] BY <1>1 DEF Writers
<1>3. ~HasX(r, p)' => Writers' = [Writers EXCEPT ![r] = @ \ {p}]
  <2>1. SUFFICES ASSUME ~HasX(r, p)' PROVE Writers' = [Writers EXCEPT ![r] = @ \ {p}]
    OBVIOUS
  <2>2. ASSUME NEW q \in Request
        PROVE  {x \in Path : HasX(q, x)'} = IF q = r THEN Writers[r] \ {p} ELSE Writers[q]
    BY <1>1, <2>1 DEF Writers
  <2>3. Writers' = [q \in Request |-> {x \in Path : HasX(q, x)'}]
    BY DEF Writers
  <2>4. Writers = [q \in Request |-> Writers[q]]
    BY DEF Writers
  <2> HIDE DEF Writers
  <2> QED BY <2>2, <2>3, <2>4
<1>4. (HasX(r, p)' <=> HasX(r, p)) => Writers' = Writers BY <1>1 DEF Writers
<1> QED BY <1>2, <1>3, <1>4

LEMMA TurnSimulates ==
  ASSUME NEW r \in Request, NEW p \in Path, Only(r, p), Turn(r, p), lapsed' = lapsed
  PROVE  Simulates
<1>0. Readers[r][p] = Held(r, p) /\ (p \in Writers[r] <=> HasX(r, p)) BY DEF Readers, Writers
<1>1. Readers' = [Readers EXCEPT ![r][p] = Held(r, p)'] BY ReadersAre
<1>2. CASE /\ Held(r, p)' = Held(r, p) + 1 /\ (HasX(r, p)' <=> HasX(r, p))
           /\ p \in lapsed \/ Table!NoWriter(p)
  <2>1. Readers' = [Readers EXCEPT ![r][p] = @ + 1] /\ Writers' = Writers
    BY <1>0, <1>1, <1>2, WritersAre
  <2>2. Table!AcquireShared(r, p)
    BY <1>2, <2>1 DEF Table!AcquireShared, Table!NoWriter, Table!NoWriterBut, Readers, Writers
  <2> QED BY <2>2 DEF Simulates, Table!Next
<1>3. CASE /\ Held(r, p)' = Held(r, p) - 1 /\ (HasX(r, p)' <=> HasX(r, p)) /\ Held(r, p) > 0
  <2>1. Readers' = [Readers EXCEPT ![r][p] = @ - 1] /\ Writers' = Writers
    BY <1>0, <1>1, <1>3, WritersAre
  <2>2. Table!ReleaseShared(r, p)
    BY <1>0, <1>3, <2>1 DEF Table!ReleaseShared, Readers, Writers
  <2> QED BY <2>2 DEF Simulates, Table!Next
<1>4. CASE /\ Held(r, p)' = Held(r, p) /\ HasX(r, p)'
           /\ p \in lapsed \/ (Table!NoWriter(p) /\ Table!NoReaderBut(r, p) /\ Held(r, p) = 0)
  <2>1. Readers' = Readers /\ Writers' = [Writers EXCEPT ![r] = @ \cup {p}]
    BY <1>4, ReadersSame, WritersAre
  <2>2. Table!AcquireExclusive(r, p)
    BY <1>0, <1>4, <2>1 DEF Table!AcquireExclusive, Readers, Writers
  <2> QED BY <2>2 DEF Simulates, Table!Next
<1>5. CASE /\ Held(r, p)' = Held(r, p) - 1 /\ Held(r, p) > 0 /\ HasX(r, p)'
           /\ p \in lapsed \/ (Table!NoWriter(p) /\ Table!NoReaderBut(r, p) /\ Held(r, p) = 1)
  <2>1. /\ Readers' = [Readers EXCEPT ![r][p] = @ - 1]
        /\ Writers' = [Writers EXCEPT ![r] = @ \cup {p}]
    BY <1>0, <1>1, <1>5, WritersAre
  <2>2. Table!Upgrade(r, p)
    BY <1>0, <1>5, <2>1 DEF Table!Upgrade, Readers, Writers
  <2> QED BY <2>2 DEF Simulates, Table!Next
<1>6. CASE Held(r, p)' = Held(r, p) + 1 /\ HasX(r, p) /\ ~HasX(r, p)'
  <2>1. /\ Readers' = [Readers EXCEPT ![r][p] = @ + 1]
        /\ Writers' = [Writers EXCEPT ![r] = @ \ {p}]
    BY <1>0, <1>1, <1>6, WritersAre
  <2>2. Table!Downgrade(r, p)
    BY <1>0, <1>6, <2>1 DEF Table!Downgrade, Readers, Writers
  <2> QED BY <2>2 DEF Simulates, Table!Next
<1>7. CASE Held(r, p)' = Held(r, p) /\ HasX(r, p) /\ ~HasX(r, p)'
  <2>1. Readers' = Readers /\ Writers' = [Writers EXCEPT ![r] = @ \ {p}]
    BY <1>7, ReadersSame, WritersAre
  <2>2. Table!ReleaseExclusive(r, p)
    BY <1>0, <1>7, <2>1 DEF Table!ReleaseExclusive, Readers, Writers
  <2> QED BY <2>2 DEF Simulates, Table!Next
<1> QED BY <1>2, <1>3, <1>4, <1>5, <1>6, <1>7 DEF Turn

\* A step that only ends leases.
LEMMA LapseSimulates ==
  ASSUME lapsed \subseteq lapsed', lapsed' \subseteq Path,
         \A q \in Request, x \in Path : Same(q, x)
  PROVE  Simulates
<1>1. Readers' = Readers /\ Writers' = Writers BY DEF Readers, Writers, Same, SameX
<1>2. PICK S \in SUBSET Path : lapsed' = lapsed \cup S OBVIOUS
<1>3. Table!Lapse(S) BY <1>1, <1>2 DEF Table!Lapse, Readers, Writers
<1> QED BY <1>3 DEF Simulates, Table!Next

\* An effect on the key is one of these changes of what is held, or none.
LEMMA EffectStep ==
  ASSUME TypeOK, TypeOK', CountCovers, NEW r \in Request, NEW p \in Path,
         Effect(r, p)
  PROVE  Same(r, p) \/ Turn(r, p)
<1> DEFINE f == Holds(p)
<1>1. /\ \A q \in Request : f[q] = Held(q, p) /\ Held(q, p) \in 0..MaxShared
      /\ f \in [Request -> 0..MaxShared]
      /\ Total(p) = Tally(Request, MaxShared, f) /\ Total(p) \in Nat
  BY HoldsType DEF HoldsOK
<1> HIDE DEF f
<1>2. Held(r, p)' \in 0..MaxShared
  <2>1. (TypeOK => HoldsOK)'
    BY HoldsType, PTL
  <2> QED  BY <2>1 DEF HoldsOK
<1>3. p \in lapsed \/ Covered(p)
  BY DEF CountCovers, Covered
<1>4. \A q \in Request : (p \in Writers[q] <=> HasX(q, p)) /\ Readers[q][p] = Held(q, p)
  BY DEF Readers, Writers
<1>5. lock[p] \in LockValue
  BY DEF TypeOK, Types
<1>6. Total(p) <= 1 /\ Held(r, p) > 0 =>
        Held(r, p) = 1 /\ \A q \in Request \ {r} : Held(q, p) = 0
  BY <1>1, TallyOne
<1>7. Total(p) = 0 <=> \A q \in Request : Held(q, p) = 0
  BY <1>1, TallyZero
<1>8. p \in lapsed \/ lock[p] = Exclusive \/ Table!NoWriter(p)
  BY <1>3, <1>4, <1>5 DEF Covered, InUse, LockValue, Table!NoWriter, Writers
<1>9. CASE Shared(r, p)
  BY <1>8, <1>9 DEF Shared, Turn, SameX
<1>10. CASE Returned(r, p) \/ Deleted(r, p)
  BY <1>1, <1>2, <1>10 DEF Returned, Deleted, Turn, SameX
<1>11. CASE Excluded(r, p)
  <2>1. lock[p] # Exclusive /\ lock[p] \in 0..1
    BY <1>11 DEF Excluded
  <2>2. CASE lock[p] = 0
    <3>1. p \in lapsed \/ \A q \in Request : Held(q, p) = 0
      BY <1>1, <1>3, <1>7, <2>2 DEF Covered
    <3>2. p \in lapsed \/ (Table!NoReaderBut(r, p) /\ Held(r, p) = 0)
      BY <1>4, <3>1 DEF Table!NoReaderBut, Readers
    <3> QED  BY <1>1, <1>8, <1>11, <2>1, <2>2, <3>2 DEF Excluded, Turn
  <2>3. CASE lock[p] = 1
    <3>1. Held(r, p) > 0
      BY <1>11, <2>3 DEF Excluded
    <3>2. p \in lapsed \/ (Held(r, p) = 1 /\ \A q \in Request \ {r} : Held(q, p) = 0)
      BY <1>1, <1>3, <1>6, <2>3, <3>1 DEF Covered
    <3>3. p \in lapsed \/ (Table!NoReaderBut(r, p) /\ Held(r, p) = 1)
      BY <1>4, <3>2 DEF Table!NoReaderBut, Readers
    <3> QED  BY <1>8, <1>11, <2>1, <2>3, <3>1, <3>3 DEF Excluded, Turn
  <2> QED  BY <2>1, <2>2, <2>3
<1>12. CASE Lowered(r, p) \/ Freed(r, p)
  BY <1>12 DEF Lowered, Freed, Turn
<1> QED
  BY <1>9, <1>10, <1>11, <1>12 DEF Effect, Untouched, Created, Vanished

-----------------------------------------------------------------------------
(* From a step of one request on one key to everything that is to be kept. *)

Keeps == TypeOK' /\ Covers' /\ Simulates /\ (Frees => Frees')

\* A step of r leaves the other requests and the other keys alone, where only
\* the key p may stop to be stray, by vanishing; leases may end.  A reset that
\* is due happens, unless the key has another value by now.
Confined(r, p) ==
  /\ \A q \in Request \ {r} :
       /\ own'[q] = own[q] /\ ownX'[q] = ownX[q]
       /\ saved'[q] = saved[q] /\ call'[q] = call[q]
  /\ \A x \in Path \ {p} :
       /\ lock'[x] = lock[x] /\ own'[r][x] = own[r][x]
       /\ x \in ownX'[r] <=> x \in ownX[r]
  /\ call[r].path \in {p, NoPath} /\ call'[r].path \in {p, NoPath}
  /\ stray' = stray \/ (stray' = stray \ {p} /\ lock'[p] = NoKey)
  /\ lapsed \subseteq lapsed'
  /\ call[r].at # "reset" \/ lock[p] # call[r].seen \/ lock'[p] = NoKey

\* No lease ends either.
Frame(r, p) == Confined(r, p) /\ lapsed' = lapsed

\* The invariant, key by key.
ByKey == \A p \in Path \ lapsed : Covered(p) /\ (p \in stray \/ Exact(p))

LEMMA CoversByKey == Covers <=> ByKey
  BY DEF ByKey, Covers, CountCovers, CounterExact, Covered, Exact

LEMMA ConfinedKeeps ==
  ASSUME TypeOK, Covers, NEW r \in Request, NEW p \in Path,
         Types', CallConsistent(r)', Confined(r, p),
         (p \in lapsed' /\ Loose(r, p)) \/ Effect(r, p),
         Same(r, p) \/ (lapsed' = lapsed /\ Turn(r, p))
  PROVE  Keeps
<1>1. ASSUME NEW q \in Request \ {r} PROVE CallConsistent(q)'
  <2>1. CallConsistent(q)
    BY DEF TypeOK
  <2> QED  BY <2>1 DEF CallConsistent, Confined
<1>2. TypeOK'
  BY <1>1 DEF TypeOK
<1>3. ASSUME NEW q \in Request, NEW x \in Path, q # r \/ x # p
      PROVE  Held(q, x)' = Held(q, x) /\ (HasX(q, x)' <=> HasX(q, x))
  <2>1. CASE q # r
    BY <2>1 DEF Confined, Held, HasX, Due
  <2>2. CASE q = r /\ x # p
    BY <2>2 DEF Confined, Held, HasX, Due
  <2> QED  BY <1>3, <2>1, <2>2
<1>4. \A x \in Path \ lapsed : Covered(x) /\ (x \in stray \/ Exact(x))
  BY CoversByKey DEF ByKey
<1>5. ASSUME NEW x \in Path \ {p}, x \notin lapsed'
      PROVE  Covered(x)' /\ (x \in stray' \/ Exact(x)')
  <2>1. lock'[x] = lock[x] /\ x \notin lapsed /\ (x \in stray' <=> x \in stray)
    BY <1>5 DEF Confined
  <2>2. Covered(x) /\ (x \in stray \/ Exact(x))
    BY <1>4, <2>1
  <2>3. OthersKeep(r, x) /\ Untouched(r, x)
    BY <1>3, <2>1 DEF OthersKeep, Untouched, Same, SameX
  <2> QED  BY <1>2, <2>1, <2>2, <2>3, EffectCovered, EffectExact DEF Effect
<1>6. ASSUME p \notin lapsed' PROVE Covered(p)' /\ (p \in stray' \/ Exact(p)')
  <2>1. p \notin lapsed /\ Effect(r, p)
    BY <1>6 DEF Confined
  <2>2. OthersKeep(r, p)
    BY <1>3 DEF OthersKeep
  <2>3. Covered(p)'
    BY <1>2, <1>4, <2>1, <2>2, EffectCovered
  <2>4. CASE lock'[p] = NoKey
    <3>1. (TypeOK /\ Covered(p) /\ lock[p] \in {NoKey, Exclusive} => Total(p) = 0)'
      BY NothingHeld, PTL
    <3> QED  BY <1>2, <2>3, <2>4, <3>1 DEF Exact
  <2>5. CASE lock'[p] # NoKey
    BY <1>2, <1>4, <2>1, <2>2, <2>3, <2>5, EffectExact DEF Confined
  <2> QED  BY <2>3, <2>4, <2>5
<1>7. Covers'
  <2>1. (Covers <=> ByKey)'
    BY CoversByKey, PTL
  <2> QED  BY <1>5, <1>6, <2>1 DEF ByKey
<1>8. Simulates
  <2>1. CASE Same(r, p)
    <3>1. lapsed' \subseteq Path /\ lapsed \subseteq lapsed'
      BY DEF Types, Confined
    <3>2. \A q \in Request, x \in Path : Same(q, x)
      BY <1>3, <2>1 DEF Same, SameX
    <3> QED  BY <3>1, <3>2, LapseSimulates
  <2>2. CASE lapsed' = lapsed /\ Turn(r, p)
    BY <1>3, <2>2, TurnSimulates DEF Only
  <2> QED  BY <2>1, <2>2
<1>9. ASSUME Frees PROVE Frees'
  <2> SUFFICES ASSUME NEW x \in Path, x \notin stray' PROVE Ends(x)'
    BY DEF Frees
  <2>1. \A q \in Request \ {r} : call'[q] = call[q]
    BY DEF Confined
  <2>2. CASE x # p
    <3>1. lock'[x] = lock[x] /\ x \notin stray /\ ~Pending(r, x)
      BY <2>2 DEF Confined, Pending
    <3>2. OthersKeep(r, x) /\ Untouched(r, x)
      BY <1>3, <2>2, <3>1 DEF OthersKeep, Untouched, Same, SameX
    <3> QED  BY <1>2, <1>9, <2>1, <3>1, <3>2, EffectEnds DEF Effect, Frees
  <2>3. CASE x = p /\ lock'[p] = NoKey
    BY <2>3 DEF Ends
  <2>4. CASE x = p /\ lock'[p] # NoKey
    <3>1. OthersKeep(r, p) /\ p \notin stray /\ ~Pending(r, p)
      BY <1>3, <2>4 DEF OthersKeep, Confined, Pending, InCall
    <3> QED  BY <1>2, <1>9, <2>1, <2>4, <3>1, EffectEnds DEF Frees
  <2> QED  BY <2>2, <2>3, <2>4
<1> QED
  BY <1>2, <1>7, <1>8, <1>9 DEF Keeps

\* The usual case: no lease ends.
LEMMA FrameKeeps ==
  ASSUME TypeOK, Covers, NEW r \in Request, NEW p \in Path,
         Types', CallConsistent(r)', Frame(r, p), Effect(r, p)
  PROVE  Keeps
<1>1. TypeOK'
  <2>1. ASSUME NEW q \in Request \ {r} PROVE CallConsistent(q)'
    <3>1. CallConsistent(q)
      BY DEF TypeOK
    <3> QED  BY <3>1 DEF CallConsistent, Frame, Confined
  <2> QED  BY <2>1 DEF TypeOK
<1>2. Same(r, p) \/ Turn(r, p)
  BY <1>1, EffectStep DEF Covers
<1> QED
  BY <1>2, ConfinedKeeps DEF Frame

-----------------------------------------------------------------------------
(* What the building blocks of the actions do.                             *)

Ops == {"none", "share", "exclude", "release", "up", "down"}
Ats == {"idle", "inc", "cas", "stamp", "dec", "get", "ttl", "set", "reset"}

\* The call of r has moved to the command a of the operation o on p, or has
\* ended; the calls of the others are what they were.
Moved(r, p, o, a) ==
  /\ call' \in [Request -> Calls]
  /\ call'[r].op = o /\ call'[r].at = a /\ call'[r].path = p
  /\ \A q \in Request \ {r} : call'[q] = call[q]

Ended(r) ==
  /\ call' \in [Request -> Calls] /\ call'[r] = Idle
  /\ \A q \in Request \ {r} : call'[q] = call[q]

LEMMA GotoFacts ==
  ASSUME Types, NEW r \in Request, NEW p \in Path, NEW o \in Ops, NEW a \in Ats,
         Goto(r, p, o, a)
  PROVE  Moved(r, p, o, a)
<1> DEFINE c == [op |-> o, at |-> a, path |-> p, seen |-> NoKey, elapsed |-> 0]
<1>1. c \in Calls /\ c.op = o /\ c.at = a /\ c.path = p
  BY DEF Calls, LockValue, Ops, Ats
<1> HIDE DEF c
<1>2. call' = [call EXCEPT ![r] = c]
  BY DEF Goto, c
<1> QED
  BY <1>1, <1>2 DEF Types, Moved

LEMMA ReturnFacts ==
  ASSUME Types, NEW r \in Request, Return(r)
  PROVE  Ended(r)
<1>1. Idle \in Calls
  BY DEF Idle, Calls, LockValue
<1> QED
  BY <1>1 DEF Return, Types, Ended

\* The key p has the value v now, the other keys are what they were.
Wrote(p, v) ==
  /\ lock' \in [Path -> LockValue] /\ expiry' \in [Path -> Int \cup {NoTtl}]
  /\ lock'[p] = v /\ \A x \in Path \ {p} : lock'[x] = lock[x]

\* A write to one key changes that key only.
LEMMA PutFacts ==
  ASSUME Types, NEW p \in Path, NEW v \in LockValue, NEW e \in Int \cup {NoTtl},
         Put(p, v, e)
  PROVE  Wrote(p, v) /\ lapsed' = lapsed /\ stray' = stray
  BY DEF Put, Types, Wrote

\* Deleting one key changes that key only.
LEMMA DropFacts ==
  ASSUME Types, NEW p \in Path, Drop({p})
  PROVE  Wrote(p, NoKey) /\ stray' = stray \ {p}
  BY DEF Drop, Types, LockValue, Wrote

\* The bookkeeping of r counts n shared holds on p now, and nothing else changed.
Marked(r, p, n) ==
  /\ own' \in [Request -> [Path -> 0..MaxShared]] /\ own'[r][p] = n
  /\ \A x \in Path \ {p} : own'[r][x] = own[r][x]
  /\ \A q \in Request \ {r} : own'[q] = own[q]

\* markRelease takes one shared hold from the bookkeeping of one request.
LEMMA MarkReleaseFacts ==
  ASSUME Types, NEW r \in Request, NEW p \in Path, own[r][p] > 0, MarkRelease(r, p)
  PROVE  Marked(r, p, own[r][p] - 1) /\ ownX' = ownX
  BY DEF MarkRelease, Types, Marked

\* Only what r saved of old TTLs may have changed.
Resaved(r) ==
  /\ saved' \in [Request -> [Path -> {NoSaved} \cup [ttl : Int, time : Int]]]
  /\ \A q \in Request \ {r} : saved'[q] = saved[q]

\* unset(oldTTLs[path]).
LEMMA ForgetFacts ==
  ASSUME Types, NEW r \in Request, NEW p \in Path, Forget(r, p)
  PROVE  Resaved(r)
  BY DEF Forget, Types, Resaved

\* The facts about a request inside a call that the steps below start from.
LEMMA InCallFacts ==
  ASSUME TypeOK, NEW r \in Request, call[r].at # "idle"
  PROVE  /\ call[r] \in Calls /\ call[r].path \in Path /\ CallConsistent(r) /\ Types
         /\ own[r][call[r].path] \in 0..MaxShared
         /\ lock[call[r].path] \in LockValue
  BY DEF TypeOK, Types, CallConsistent

\* What a request holds when none of its marks is due.
LEMMA SettledHolds ==
  ASSUME Types, NEW r \in Request, NEW p \in Path,
         call[r].at \in {"idle", "inc", "cas", "dec"} \/ call[r].path = NoPath
  PROVE  Held(r, p) = own[r][p] /\ (HasX(r, p) <=> p \in ownX[r])
<1>1. own[r][p] \in 0..MaxShared
  BY DEF Types
<1>2. Due(call[r], p) = 0
  BY DEF Due, Gaining, Losing
<1> QED
  BY <1>1, <1>2 DEF Held, HasX

LEMMA EndedHolds ==
  ASSUME NEW r \in Request, NEW p \in Path, Ended(r), own'[r][p] \in Int
  PROVE  Held(r, p)' = own'[r][p] /\ (HasX(r, p)' <=> p \in ownX'[r])
<1>1. call'[r].path = NoPath
  BY DEF Ended, Idle
<1>2. Due(call[r], p)' = 0
  BY <1>1 DEF Due
<1> QED
  BY <1>1, <1>2 DEF Held, HasX

-----------------------------------------------------------------------------
(* One lemma per action.  Each splits the action into its outcomes, says   *)
(* what an outcome changes, and names its effect on the key.               *)

\* inc: fails, hits zero (only on a lapsed key), or adds one shared hold.
LEMMA IncKeeps ==
  ASSUME TypeOK, Covers, NEW r \in Request, Inc(r)
  PROVE  Keeps
<1>0. PICK p \in Path : p = call[r].path
  BY InCallFacts DEF Inc, InCall
<1> DEFINE n == IF lock[p] = NoKey THEN 1 ELSE lock[p] + 1
<1>1. /\ call[r].op = "share" /\ call[r].at = "inc" /\ Types
      /\ own[r][p] \in 0..MaxShared /\ own[r][p] < MaxShared /\ lock[p] \in LockValue
  BY <1>0, InCallFacts DEF Inc, InCall, CallConsistent
<1>2. UNCHANGED <<now, mine, saved, ending, crashes>>
  BY DEF Inc
<1>3. CASE lock[p] = Exclusive
  <2>1. Keep /\ Ended(r)
    BY <1>0, <1>1, <1>3, ReturnFacts DEF Inc
  <2>2. Types'
    BY <1>1, <1>2, <2>1 DEF Types, Keep, mine, Ended
  <2>3. CallConsistent(r)'
    BY <2>1 DEF CallConsistent, Idle, Ended
  <2>4. Frame(r, p)
    BY <1>0, <1>1, <1>2, <2>1 DEF Frame, Confined, Idle, mine, Keep, Ended
  <2>5. Untouched(r, p)
    BY <1>1, <1>2, <2>1, SettledHolds, EndedHolds DEF Untouched, Same, SameX, mine, Keep
  <2> QED  BY <1>1, <2>2, <2>3, <2>4, <2>5, FrameKeeps DEF Effect
<1>4. CASE lock[p] # Exclusive
  <2>1. Put(p, n, expiry[p]) /\ n \in Int /\ expiry[p] \in Int \cup {NoTtl}
    BY <1>0, <1>1, <1>4 DEF Inc, LockValue, Types
  <2>2. Wrote(p, n) /\ lapsed' = lapsed /\ stray' = stray
    BY <1>1, <2>1, PutFacts DEF LockValue
  <2>3. CASE n = 0
    <3>1. Ended(r)
      BY <1>0, <1>1, <1>4, <2>3, ReturnFacts DEF Inc
    <3>2. Types'
      BY <1>1, <1>2, <2>2, <3>1 DEF Types, mine, Ended, Wrote
    <3>3. CallConsistent(r)'
      BY <3>1 DEF CallConsistent, Idle, Ended
    <3>4. Frame(r, p)
      BY <1>0, <1>1, <1>2, <2>2, <3>1 DEF Frame, Confined, Idle, mine, Ended, Wrote
    <3>5. p \in lapsed'
      <4>1. lock[p] < 0 /\ lock[p] \in Int
        BY <1>1, <1>4, <2>3 DEF LockValue
      <4> QED  BY <1>1, <2>2, <4>1, HoldsType DEF HoldsOK, Covers, CountCovers
    <3>6. Same(r, p)
      BY <1>1, <1>2, <3>1, SettledHolds, EndedHolds DEF Same, SameX, mine
    <3>7. Loose(r, p)
      BY <2>2, <2>3 DEF Loose, Wrote
    <3> QED  BY <3>2, <3>3, <3>4, <3>5, <3>6, <3>7, ConfinedKeeps DEF Frame
  <2>4. CASE n # 0
    <3>1. Moved(r, p, "share", "stamp")
      BY <1>0, <1>1, <1>4, <2>4, GotoFacts DEF Inc, Ops, Ats
    <3>2. Types'
      BY <1>1, <1>2, <2>2, <3>1 DEF Types, mine, Moved, Wrote
    <3>3. CallConsistent(r)'
      BY <1>1, <1>2, <3>1 DEF CallConsistent, mine, Moved
    <3>4. Frame(r, p)
      BY <1>0, <1>1, <1>2, <2>2, <3>1 DEF Frame, Confined, mine, Moved, Wrote
    <3>5. Shared(r, p)
      BY <1>0, <1>1, <1>2, <1>4, <2>2, <3>1
         DEF Shared, SameX, Held, HasX, Due, Gaining, Losing, mine, Moved, Wrote
    <3> QED  BY <1>1, <3>2, <3>3, <3>4, <3>5, FrameKeeps DEF Effect
  <2> QED  BY <2>3, <2>4
<1> QED
  BY <1>3, <1>4

\* cas(0, 'exclusive') finds nobody, or fails.
LEMMA CasExclusiveKeeps ==
  ASSUME TypeOK, Covers, NEW r \in Request, CasExclusive(r)
  PROVE  Keeps
<1>0. PICK p \in Path : p = call[r].path
  BY InCallFacts DEF CasExclusive, InCall
<1>1. /\ call[r].op = "exclude" /\ call[r].at = "cas" /\ Types
      /\ own[r][p] \in 0..MaxShared /\ lock[p] \in LockValue
  BY <1>0, InCallFacts DEF CasExclusive, InCall, CallConsistent
<1>2. UNCHANGED <<now, mine, ending, crashes>>
  BY <1>0 DEF CasExclusive
<1>3. CASE lock[p] # 0
  <2>1. Keep /\ Ended(r) /\ saved' = saved
    BY <1>0, <1>1, <1>3, ReturnFacts DEF CasExclusive
  <2>2. Types'
    BY <1>1, <1>2, <2>1 DEF Types, Keep, mine, Ended
  <2>3. CallConsistent(r)'
    BY <2>1 DEF CallConsistent, Idle, Ended
  <2>4. Frame(r, p)
    BY <1>0, <1>1, <1>2, <2>1 DEF Frame, Confined, Idle, mine, Keep, Ended
  <2>5. Untouched(r, p)
    BY <1>1, <1>2, <2>1, SettledHolds, EndedHolds DEF Untouched, Same, SameX, mine, Keep
  <2> QED  BY <1>1, <2>2, <2>3, <2>4, <2>5, FrameKeeps DEF Effect
<1>4. CASE lock[p] = 0
  <2>1. Put(p, Exclusive, NoTtl) /\ Forget(r, p) /\ Goto(r, p, "exclude", "stamp")
    BY <1>0, <1>4 DEF CasExclusive
  <2>2. Wrote(p, Exclusive) /\ lapsed' = lapsed /\ stray' = stray
    BY <1>1, <2>1, PutFacts DEF LockValue
  <2>3. Moved(r, p, "exclude", "stamp") /\ Resaved(r)
    BY <1>1, <2>1, GotoFacts, ForgetFacts DEF Ops, Ats
  <2>4. Types'
    BY <1>1, <1>2, <2>2, <2>3 DEF Types, mine, Moved, Wrote, Resaved
  <2>5. CallConsistent(r)'
    BY <1>1, <1>2, <2>3 DEF CallConsistent, mine, Moved
  <2>6. Frame(r, p)
    BY <1>0, <1>1, <1>2, <2>2, <2>3 DEF Frame, Confined, mine, Moved, Wrote, Resaved
  <2>7. Excluded(r, p)
    BY <1>0, <1>1, <1>2, <1>4, <2>2, <2>3
       DEF Excluded, Held, HasX, Due, Gaining, Losing, mine, Moved, Wrote
  <2> QED  BY <1>1, <2>4, <2>5, <2>6, <2>7, FrameKeeps DEF Effect
<1> QED
  BY <1>3, <1>4

\* setTTL and the marks: what was due becomes what is kept.
LEMMA StampKeeps ==
  ASSUME TypeOK, Covers, NEW r \in Request, Stamp(r)
  PROVE  Keeps
<1>0. PICK p \in Path : p = call[r].path
  BY InCallFacts DEF Stamp, InCall
<1> DEFINE n == own[r][p] + Due(call[r], p)
<1>1. /\ call[r].op \in {"share", "exclude", "up", "down"}
      /\ call[r].at = "stamp" /\ Types /\ CallConsistent(r)
      /\ own[r][p] \in 0..MaxShared /\ lock[p] \in LockValue
  BY <1>0, InCallFacts DEF Stamp, InCall, CallConsistent
<1>2. n \in 0..MaxShared
  BY <1>1 DEF Due, Gaining, Losing, CallConsistent
<1>3. UNCHANGED <<lock, now, saved, ending, crashes, lapsed, stray>> /\ Ended(r)
  BY <1>0, <1>1, ReturnFacts DEF Stamp
<1>4. Marked(r, p, n)
  <2> HIDE DEF n
  <2>1. own' = [own EXCEPT ![r][p] = n]
    BY <1>0 DEF Stamp, n
  <2> QED  BY <1>1, <1>2, <2>1 DEF Types, Marked
<1>5. /\ ownX' \in [Request -> SUBSET Path]
      /\ \A q \in Request \ {r} : ownX'[q] = ownX[q]
      /\ \A x \in Path \ {p} : x \in ownX'[r] <=> x \in ownX[r]
      /\ p \in ownX'[r] <=> \/ call[r].op \in {"exclude", "up"}
                            \/ call[r].op = "share" /\ p \in ownX[r]
  BY <1>0, <1>1 DEF Stamp, Types
<1>6. expiry' \in [Path -> Int \cup {NoTtl}]
  BY <1>0, <1>1 DEF Stamp, Types
<1> HIDE DEF n
<1>7. Types'
  BY <1>1, <1>3, <1>4, <1>5, <1>6 DEF Types, Marked, Ended
<1>8. CallConsistent(r)'
  BY <1>3 DEF CallConsistent, Idle, Ended
<1>9. Frame(r, p)
  BY <1>0, <1>1, <1>3, <1>4, <1>5 DEF Frame, Confined, Idle, Ended, Marked
<1>10. Untouched(r, p)
  <2>1. Held(r, p)' = own'[r][p]
    BY <1>1, <1>2, <1>3, <1>4, EndedHolds DEF Marked
  <2>2. Held(r, p)' = Held(r, p) /\ Held(r, p) \in Int
    BY <1>0, <1>2, <1>4, <2>1 DEF Held, n, Marked
  <2>3. HasX(r, p)' <=> HasX(r, p)
    BY <1>0, <1>1, <1>3, <1>5 DEF HasX, Idle, Ended, CallConsistent
  <2> QED  BY <1>3, <2>2, <2>3 DEF Untouched, Same, SameX
<1> QED
  BY <1>1, <1>7, <1>8, <1>9, <1>10, FrameKeeps DEF Effect

\* getTTL before an inc: only oldTTLs changes.
LEMMA SaveOldTtlKeeps ==
  ASSUME TypeOK, Covers, NEW r \in Request, NEW p \in Path, SaveOldTtl(r, p)
  PROVE  Keeps
<1>1. call[r] = Idle /\ Types /\ own[r][p] \in 0..MaxShared /\ own[r][p] < MaxShared
  BY DEF SaveOldTtl, Ready, TypeOK, Types
<1>2. UNCHANGED <<redis, now, mine, ending, crashes, lapsed, stray>>
  BY DEF SaveOldTtl
<1>3. Moved(r, p, "share", "inc")
  BY <1>1, GotoFacts DEF SaveOldTtl, Ops, Ats
<1>4. Resaved(r)
  <2>1. GetTtl(p) \in Int /\ now \in Int
    BY <1>1 DEF GetTtl, Types
  <2>2. [ttl |-> GetTtl(p), time |-> now] \in [ttl : Int, time : Int]
    BY <2>1
  <2> QED  BY <1>1, <2>2 DEF SaveOldTtl, Types, Resaved
<1>5. Types'
  BY <1>1, <1>2, <1>3, <1>4 DEF Types, redis, mine, Moved, Resaved
<1>6. CallConsistent(r)'
  BY <1>1, <1>2, <1>3 DEF CallConsistent, mine, Moved
<1>7. Frame(r, p)
  BY <1>1, <1>2, <1>3, <1>4 DEF Frame, Confined, redis, mine, Moved, Resaved, Idle
<1>8. Untouched(r, p)
  <2>1. Held(r, p) = own[r][p] /\ (HasX(r, p) <=> p \in ownX[r])
    BY <1>1, SettledHolds DEF Idle
  <2>2. Held(r, p)' = own[r][p] /\ (HasX(r, p)' <=> p \in ownX[r])
    BY <1>1, <1>2, <1>3 DEF Moved, Held, HasX, Due, Gaining, Losing, mine
  <2> QED  BY <1>1, <1>2, <2>1, <2>2 DEF Untouched, Same, SameX, redis
<1> QED
  BY <1>5, <1>6, <1>7, <1>8, FrameKeeps DEF Effect

\* add(path, 0) creates a key that stands for no hold, or does nothing.
LEMMA AddZeroKeeps ==
  ASSUME TypeOK, Covers, NEW r \in Request, NEW p \in Path, AddZero(r, p)
  PROVE  Keeps
<1>1. call[r] = Idle /\ Types /\ own[r][p] \in 0..MaxShared
  BY DEF AddZero, Ready, TypeOK, Types
<1>2. UNCHANGED <<now, mine, saved, ending, crashes>>
  BY DEF AddZero
<1>3. Moved(r, p, "exclude", "cas")
  BY <1>1, GotoFacts DEF AddZero, Ops, Ats
<1>4. \/ lock[p] = NoKey /\ Wrote(p, 0) /\ lapsed' = lapsed /\ stray' = stray
      \/ lock[p] # NoKey /\ Keep
  <2>1. CASE lock[p] = NoKey
    <3>1. Put(p, 0, now + DefaultTtl) /\ now + DefaultTtl \in Int
      BY <1>1, <2>1 DEF AddZero, Types
    <3> QED  BY <1>1, <2>1, <3>1, PutFacts DEF LockValue
  <2>2. CASE lock[p] # NoKey
    BY <2>2 DEF AddZero
  <2> QED  BY <2>1, <2>2
<1>5. Types'
  BY <1>1, <1>2, <1>3, <1>4 DEF Types, mine, Moved, Wrote, Keep
<1>6. CallConsistent(r)'
  BY <1>1, <1>2, <1>3 DEF CallConsistent, mine, Moved
<1>7. Frame(r, p)
  BY <1>1, <1>2, <1>3, <1>4 DEF Frame, Confined, mine, Moved, Wrote, Keep, Idle
<1>8. Same(r, p)
  <2>1. Held(r, p) = own[r][p] /\ (HasX(r, p) <=> p \in ownX[r])
    BY <1>1, SettledHolds DEF Idle
  <2>2. Held(r, p)' = own[r][p] /\ (HasX(r, p)' <=> p \in ownX[r])
    BY <1>1, <1>2, <1>3 DEF Moved, Held, HasX, Due, Gaining, Losing, mine
  <2> QED  BY <2>1, <2>2 DEF Same, SameX
<1>9. Created(r, p) \/ Untouched(r, p)
  BY <1>4, <1>8 DEF Created, Untouched, Wrote, Keep
<1> QED
  BY <1>5, <1>6, <1>7, <1>9, FrameKeeps DEF Effect

\* The last own shared lock: cad(path, 1) deletes the key, or dec is next.
LEMMA ReleaseLastKeeps ==
  ASSUME TypeOK, Covers, NEW r \in Request, NEW p \in Path, ReleaseLast(r, p)
  PROVE  Keeps
<1>1. call[r] = Idle /\ Types /\ own[r][p] = 1 /\ own[r][p] \in 0..MaxShared
  BY DEF ReleaseLast, Ready, TypeOK, Types
<1>2. UNCHANGED <<now, ending, crashes>>
  BY DEF ReleaseLast
<1>3. Held(r, p) = own[r][p] /\ (HasX(r, p) <=> p \in ownX[r])
  BY <1>1, SettledHolds DEF Idle
<1>4. CASE lock[p] = 1
  <2>1. Wrote(p, NoKey) /\ stray' = stray \ {p} /\ lapsed' = lapsed
    BY <1>1, <1>4, DropFacts DEF ReleaseLast, DropOwn
  <2>2. Marked(r, p, 0) /\ ownX' = ownX /\ Resaved(r) /\ Ended(r)
    BY <1>1, <1>4, MarkReleaseFacts, ForgetFacts, ReturnFacts DEF ReleaseLast
  <2>3. Types'
    BY <1>1, <1>2, <2>1, <2>2 DEF Types, Wrote, Marked, Resaved, Ended
  <2>4. CallConsistent(r)'
    BY <2>2 DEF CallConsistent, Ended, Idle
  <2>5. Frame(r, p)
    BY <1>1, <2>1, <2>2 DEF Frame, Confined, Wrote, Marked, Resaved, Ended, Idle
  <2>6. Deleted(r, p)
    <3>1. Held(r, p)' = 0 /\ (HasX(r, p)' <=> p \in ownX[r])
      BY <2>2, EndedHolds DEF Marked
    <3>2. (HasX(r, p)' <=> HasX(r, p))
      BY <1>3, <3>1 DEF HasX
    <3> QED  BY <1>1, <1>3, <1>4, <2>1, <3>1, <3>2 DEF Deleted, SameX, Wrote
  <2> QED  BY <2>3, <2>4, <2>5, <2>6, FrameKeeps DEF Effect
<1>5. CASE lock[p] # 1
  <2>1. Keep /\ UNCHANGED <<mine, saved>> /\ Moved(r, p, "release", "dec")
    BY <1>1, <1>5, GotoFacts DEF ReleaseLast, Ops, Ats
  <2>2. Types'
    BY <1>1, <1>2, <2>1 DEF Types, mine, Moved, Keep
  <2>3. CallConsistent(r)'
    BY <1>1, <2>1 DEF CallConsistent, mine, Moved
  <2>4. Frame(r, p)
    BY <1>1, <2>1 DEF Frame, Confined, mine, Moved, Keep, Idle
  <2>5. Held(r, p)' = own[r][p] /\ (HasX(r, p)' <=> p \in ownX[r])
    BY <1>1, <2>1 DEF Moved, Held, HasX, Due, Gaining, Losing, mine
  <2>6. Untouched(r, p)
    BY <1>1, <1>3, <2>1, <2>5 DEF Untouched, Same, SameX, Keep
  <2> QED  BY <2>2, <2>3, <2>4, <2>6, FrameKeeps DEF Effect
<1> QED
  BY <1>4, <1>5

\* cad(path, 'exclusive') and markRelease.
LEMMA ReleaseExclusiveKeeps ==
  ASSUME TypeOK, Covers, NEW r \in Request, NEW p \in Path, ReleaseExclusive(r, p)
  PROVE  Keeps
<1>1. call[r] = Idle /\ Types /\ p \in ownX[r] /\ own[r][p] \in 0..MaxShared
  BY DEF ReleaseExclusive, Ready, TypeOK, Types
<1>2. UNCHANGED <<now, own, saved, call, ending, crashes>>
  BY DEF ReleaseExclusive
<1>3. /\ ownX' \in [Request -> SUBSET Path]
      /\ \A q \in Request \ {r} : ownX'[q] = ownX[q]
      /\ ownX'[r] = ownX[r] \ {p}
  BY <1>1 DEF ReleaseExclusive, Types
<1>4. \/ /\ lock[p] = Exclusive /\ Wrote(p, NoKey)
         /\ stray' = stray \ {p} /\ lapsed' = lapsed
      \/ lock[p] # Exclusive /\ Keep
  BY <1>1, DropFacts DEF ReleaseExclusive, DropOwn
<1>5. Types'
  BY <1>1, <1>2, <1>3, <1>4 DEF Types, Wrote, Keep
<1>6. CallConsistent(r)'
  BY <1>1, <1>2 DEF CallConsistent, Idle
<1>7. Frame(r, p)
  BY <1>1, <1>2, <1>3, <1>4 DEF Frame, Confined, Wrote, Keep, Idle
<1>8. /\ Held(r, p)' = Held(r, p) /\ Held(r, p) \in Int
      /\ HasX(r, p) /\ ~HasX(r, p)'
  <2>1. Held(r, p) = own[r][p] /\ HasX(r, p)
    BY <1>1, SettledHolds DEF Idle
  <2>2. Held(r, p)' = own[r][p] /\ ~HasX(r, p)'
    <3>1. call'[r].path = NoPath /\ call'[r].at = "idle" /\ p \notin ownX'[r]
      BY <1>1, <1>2, <1>3 DEF Idle
    <3>2. Due(call[r], p)' = 0
      BY <3>1 DEF Due
    <3> QED  BY <1>1, <1>2, <3>1, <3>2 DEF Held, HasX
  <2> QED  BY <1>1, <2>1, <2>2
<1>9. CASE lock[p] = Exclusive
  <2>1. Freed(r, p)
    BY <1>4, <1>8, <1>9 DEF Freed, Wrote
  <2> QED  BY <1>5, <1>6, <1>7, <2>1, FrameKeeps DEF Effect
\* The lease ended before: the path has lapsed.
<1>10. CASE lock[p] # Exclusive
  <2>1. p \in lapsed
    <3>1. lock[p] \in LockValue
      BY <1>1 DEF Types
    <3> QED  BY <1>8, <1>10, <3>1 DEF Covers, CountCovers, InUse, LockValue
  <2>2. Turn(r, p) /\ Loose(r, p)
    BY <1>4, <1>8, <1>10 DEF Turn, Loose, Keep
  <2> QED  BY <1>5, <1>6, <1>7, <2>1, <2>2, ConfinedKeeps DEF Frame
<1> QED
  BY <1>9, <1>10

\* changeLock to shared: cas('exclusive', 1) or a LockedException.
LEMMA ChangeToSharedKeeps ==
  ASSUME TypeOK, Covers, NEW r \in Request, NEW p \in Path, ChangeToShared(r, p)
  PROVE  Keeps
<1>1. /\ call[r] = Idle /\ Types /\ p \in ownX[r]
      /\ own[r][p] \in 0..MaxShared /\ own[r][p] < MaxShared
  BY DEF ChangeToShared, Ready, TypeOK, Types
<1>2. UNCHANGED <<now, mine, saved, ending, crashes>>
  BY DEF ChangeToShared
<1>3. Held(r, p) = own[r][p] /\ HasX(r, p)
  BY <1>1, SettledHolds DEF Idle
<1>4. CASE lock[p] = Exclusive
  <2>1. Wrote(p, 1) /\ lapsed' = lapsed /\ stray' = stray
    <3>1. Put(p, 1, NoTtl)
      BY <1>4 DEF ChangeToShared
    <3>2. 1 \in LockValue /\ NoTtl \in Int \cup {NoTtl}
      BY DEF LockValue
    <3> QED  BY <1>1, <3>1, <3>2, PutFacts
  <2>2. Moved(r, p, "down", "stamp")
    BY <1>1, <1>4, GotoFacts DEF ChangeToShared, Ops, Ats
  <2>3. Types'
    BY <1>1, <1>2, <2>1, <2>2 DEF Types, mine, Moved, Wrote
  <2>4. CallConsistent(r)'
    BY <1>1, <1>2, <2>2 DEF CallConsistent, mine, Moved
  <2>5. Frame(r, p)
    BY <1>1, <1>2, <2>1, <2>2 DEF Frame, Confined, mine, Moved, Wrote, Idle
  <2>6. Held(r, p)' = own[r][p] + 1 /\ ~HasX(r, p)'
    BY <1>1, <1>2, <2>2 DEF Moved, Held, HasX, Due, Gaining, mine
  <2>7. Lowered(r, p)
    BY <1>1, <1>3, <1>4, <2>1, <2>6 DEF Lowered, Wrote
  <2> QED  BY <2>3, <2>4, <2>5, <2>7, FrameKeeps DEF Effect
<1>5. CASE lock[p] # Exclusive
  <2>1. Keep /\ UNCHANGED call
    BY <1>5 DEF ChangeToShared
  <2>2. Types' /\ CallConsistent(r)'
    BY <1>1, <1>2, <2>1 DEF Types, mine, Keep, CallConsistent, Idle
  <2>3. Frame(r, p) /\ Untouched(r, p)
    BY <1>1, <1>2, <1>3, <2>1
       DEF Frame, Confined, mine, Keep, Idle, Untouched, Same, SameX, Held, HasX, Due
  <2> QED  BY <2>2, <2>3, FrameKeeps DEF Effect
<1> QED
  BY <1>4, <1>5

\* changeLock to exclusive: cas(1, 'exclusive') by the holder of that one
\* lock, or a LockedException, after restoreTTL where there is an old TTL.
LEMMA ChangeToExclusiveKeeps ==
  ASSUME TypeOK, Covers, NEW r \in Request, NEW p \in Path, ChangeToExclusive(r, p)
  PROVE  Keeps
<1>1. call[r] = Idle /\ Types /\ own[r][p] \in 0..MaxShared /\ own[r][p] > 0
  BY DEF ChangeToExclusive, Ready, TypeOK, Types
<1>2. UNCHANGED <<now, mine, ending, crashes>>
  BY DEF ChangeToExclusive
<1>3. Held(r, p) = own[r][p] /\ (HasX(r, p) <=> p \in ownX[r])
  BY <1>1, SettledHolds DEF Idle
<1>4. CASE lock[p] = 1
  <2>1. Wrote(p, Exclusive) /\ lapsed' = lapsed /\ stray' = stray
    BY <1>1, <1>4, PutFacts DEF ChangeToExclusive, LockValue
  <2>2. Moved(r, p, "up", "stamp") /\ Resaved(r)
    BY <1>1, <1>4, GotoFacts, ForgetFacts DEF ChangeToExclusive, Ops, Ats
  <2>3. Types'
    BY <1>1, <1>2, <2>1, <2>2 DEF Types, mine, Moved, Wrote, Resaved
  <2>4. CallConsistent(r)'
    BY <1>1, <1>2, <2>2 DEF CallConsistent, mine, Moved
  <2>5. Frame(r, p)
    BY <1>1, <1>2, <2>1, <2>2 DEF Frame, Confined, mine, Moved, Wrote, Resaved, Idle
  <2>6. Held(r, p)' = own[r][p] - 1 /\ HasX(r, p)'
    BY <1>1, <1>2, <2>2 DEF Moved, Held, HasX, Due, Gaining, Losing, mine
  <2>7. Excluded(r, p)
    BY <1>1, <1>3, <1>4, <2>1, <2>6 DEF Excluded, Wrote
  <2> QED  BY <2>3, <2>4, <2>5, <2>7, FrameKeeps DEF Effect
<1>5. CASE lock[p] # 1
  <2>1. Keep /\ UNCHANGED saved
    BY <1>5 DEF ChangeToExclusive
  <2>2. CASE saved[r][p] # NoSaved
    <3>1. Moved(r, p, "up", "get")
      BY <1>1, <1>5, <2>2, GotoFacts DEF ChangeToExclusive, Ops, Ats
    <3>2. Types' /\ CallConsistent(r)'
      BY <1>1, <1>2, <2>1, <2>2, <3>1 DEF Types, mine, Keep, CallConsistent, Moved
    <3>3. Frame(r, p)
      BY <1>1, <1>2, <2>1, <3>1 DEF Frame, Confined, mine, Keep, Moved, Idle
    <3>4. Held(r, p)' = own[r][p] /\ (HasX(r, p)' <=> p \in ownX[r])
      BY <1>1, <1>2, <3>1 DEF Moved, Held, HasX, Due, Gaining, Losing, mine
    <3>5. Untouched(r, p)
      BY <1>1, <1>3, <2>1, <3>4 DEF Untouched, Same, SameX, Keep
    <3> QED  BY <3>2, <3>3, <3>5, FrameKeeps DEF Effect
  <2>3. CASE saved[r][p] = NoSaved
    <3>1. UNCHANGED call
      BY <1>5, <2>3 DEF ChangeToExclusive
    <3>2. Types' /\ CallConsistent(r)'
      BY <1>1, <1>2, <2>1, <3>1 DEF Types, mine, Keep, CallConsistent, Idle
    <3>3. Frame(r, p) /\ Untouched(r, p)
      BY <1>1, <1>2, <1>3, <2>1, <3>1
         DEF Frame, Confined, mine, Keep, Idle, Untouched, Same, SameX, Held, HasX, Due
    <3> QED  BY <3>2, <3>3, FrameKeeps DEF Effect
  <2> QED  BY <2>2, <2>3
<1> QED
  BY <1>4, <1>5

\* dec: one hold is returned; what is left to do depends on the new value.
LEMMA DecKeeps ==
  ASSUME TypeOK, Covers, NEW r \in Request, NEW p \in Path, Dec(r, p)
  PROVE  Keeps
<1>1. /\ call[r].path \in {p, NoPath} /\ call[r].at \in {"idle", "dec"}
      /\ own[r][p] > 0 /\ Types /\ own[r][p] \in 0..MaxShared /\ lock[p] \in LockValue
  BY InCallFacts DEF Dec, InCall, Ready, Idle, CallConsistent, TypeOK, Types
<1>2. UNCHANGED <<now, ending, crashes>>
  BY DEF Dec
<1>3. Held(r, p) = own[r][p] /\ (HasX(r, p) <=> p \in ownX[r])
  BY <1>1, SettledHolds
<1>4. ASSUME MarkRelease(r, p), Return(r),
             Keep \/ (Wrote(p, lock[p] - 1) /\ lapsed' = lapsed /\ stray' = stray),
             Forget(r, p) \/ saved' = saved,
             lock[p] \in Int <=> ~Keep, lock[p] \in Int => lock[p] >= 1
      PROVE  Keeps
  <2>1. Marked(r, p, own[r][p] - 1) /\ ownX' = ownX /\ Resaved(r) /\ Ended(r)
    BY <1>1, <1>4, MarkReleaseFacts, ForgetFacts, ReturnFacts DEF Resaved, Types
  <2>2. Types'
    BY <1>1, <1>2, <1>4, <2>1 DEF Types, Wrote, Keep, Marked, Resaved, Ended
  <2>3. CallConsistent(r)'
    BY <2>1 DEF CallConsistent, Ended, Idle
  <2>4. Frame(r, p)
    BY <1>1, <1>4, <2>1 DEF Frame, Confined, Wrote, Keep, Marked, Resaved, Ended, Idle
  <2>5. Held(r, p)' = own[r][p] - 1 /\ (HasX(r, p)' <=> p \in ownX[r])
    BY <1>1, <2>1, EndedHolds DEF Marked
  <2>6. (HasX(r, p)' <=> HasX(r, p))
    BY <1>3, <2>5 DEF HasX
  <2>7. CASE lock[p] \in Int
    <3>1. Returned(r, p)
      BY <1>1, <1>3, <1>4, <2>5, <2>6, <2>7 DEF Returned, SameX, Wrote, Keep
    <3> QED  BY <2>2, <2>3, <2>4, <3>1, FrameKeeps DEF Effect
  \* There is nothing to count down: the path has lapsed.
  <2>8. CASE lock[p] \notin Int
    <3>1. p \in lapsed
      BY <1>1, <1>3, <2>8 DEF Covers, CountCovers, InUse, LockValue
    <3>2. Turn(r, p) /\ Loose(r, p)
      BY <1>1, <1>3, <1>4, <2>5, <2>6, <2>8 DEF Turn, Loose, SameX, Keep
    <3> QED  BY <2>2, <2>3, <2>4, <3>1, <3>2, ConfinedKeeps DEF Frame
  <2> QED  BY <2>7, <2>8
<1>5. CASE lock[p] \notin Int
  <2>1. DecrementNothing(r, p)
    BY <1>5 DEF Dec, Decrement
  <2> QED  BY <1>4, <1>5, <2>1 DEF DecrementNothing
<1>6. CASE lock[p] \in Int
  <2>1. Decrement(r, p)
    BY <1>6 DEF Dec, DecrementNothing
  <2>2. Wrote(p, lock[p] - 1) /\ lapsed' = lapsed /\ stray' = stray /\ ~Keep
    <3>1. Put(p, lock[p] - 1, expiry[p]) /\ lock[p] - 1 \in LockValue
      BY <1>6, <2>1 DEF Decrement, LockValue
    <3>2. expiry[p] \in Int \cup {NoTtl}
      BY <1>1 DEF Types
    <3>3. Wrote(p, lock[p] - 1) /\ lapsed' = lapsed /\ stray' = stray
      BY <1>1, <3>1, <3>2, PutFacts
    <3> QED  BY <1>6, <3>3 DEF Wrote, Keep
  <2>3. CASE /\ MarkRelease(r, p) /\ Return(r) /\ (Forget(r, p) \/ saved' = saved)
             /\ lock[p] >= 1
    BY <1>4, <1>6, <2>2, <2>3
  <2>4. ASSUME NEW a \in {"get", "reset"}, Moved(r, p, "release", a), UNCHANGED mine,
               Resaved(r), a = "get" => saved[r][p] # NoSaved /\ saved' = saved,
               lock[p] >= 1 \/ Pending(r, p)'
        PROVE  Keeps
    <3>1. Types'
      BY <1>1, <1>2, <2>2, <2>4 DEF Types, mine, Moved, Wrote, Resaved
    <3>2. CallConsistent(r)'
      BY <1>1, <2>4 DEF CallConsistent, mine, Moved
    <3>3. Frame(r, p)
      BY <1>1, <2>2, <2>4 DEF Frame, Confined, mine, Moved, Wrote, Resaved
    <3>4. Held(r, p)' = own[r][p] - 1 /\ (HasX(r, p)' <=> p \in ownX[r])
      BY <1>1, <2>4 DEF Moved, Held, HasX, Due, Gaining, Losing, mine
    <3>5. (HasX(r, p)' <=> HasX(r, p))
      BY <1>3, <3>4 DEF HasX
    <3>6. Returned(r, p)
      BY <1>1, <1>3, <1>6, <2>2, <2>4, <3>4, <3>5 DEF Returned, SameX, Wrote
    <3> QED  BY <3>1, <3>2, <3>3, <3>6, FrameKeeps DEF Effect
  <2>5. CASE /\ Goto(r, p, "release", "get") /\ UNCHANGED <<mine, saved>>
             /\ saved[r][p] # NoSaved /\ lock[p] > 1
    <3>1. Moved(r, p, "release", "get") /\ Resaved(r)
      BY <1>1, <2>5, GotoFacts DEF Ops, Ats, Resaved, Types
    <3> QED  BY <1>6, <2>4, <2>5, <3>1
  <2>6. CASE /\ Forget(r, p) /\ UNCHANGED mine
             /\ call' = [call EXCEPT ![r] = [op |-> "release", at |-> "reset",
                      path |-> p, seen |-> lock[p] - 1, elapsed |-> 0]]
    <3> DEFINE c == [op |-> "release", at |-> "reset",
                     path |-> p, seen |-> lock[p] - 1, elapsed |-> 0]
    <3>1. /\ c \in Calls /\ c.op = "release" /\ c.at = "reset" /\ c.path = p
          /\ c.seen = lock[p] - 1
      BY <1>6 DEF Calls, LockValue
    <3> HIDE DEF c
    <3>2. call' = [call EXCEPT ![r] = c]
      BY <2>6 DEF c
    <3>3. Moved(r, p, "release", "reset") /\ Resaved(r)
      BY <1>1, <2>6, <3>1, <3>2, ForgetFacts DEF Moved, Types
    <3>4. Pending(r, p)'
      BY <1>1, <2>2, <3>1, <3>2 DEF Pending, InCall, Wrote, Types
    <3> QED  BY <2>4, <2>6, <3>3, <3>4
  <2> QED  BY <1>6, <2>1, <2>3, <2>5, <2>6 DEF Decrement
<1> QED
  BY <1>5, <1>6

\* The end of a call after restoreTTL settles the mark that was due.
LEMMA ConcludeFacts ==
  ASSUME TypeOK, NEW r \in Request, NEW p \in Path, p = call[r].path,
         call[r].at \in {"ttl", "set"}, Conclude(r)
  PROVE  /\ Ended(r) /\ ownX' = ownX /\ Marked(r, p, own'[r][p])
         /\ Held(r, p)' = Held(r, p) /\ Held(r, p) \in Int
         /\ (HasX(r, p)' <=> HasX(r, p))
<1>1. /\ Types /\ own[r][p] \in 0..MaxShared /\ own[r][p] > 0
      /\ call[r].op \in {"release", "up"}
  BY InCallFacts DEF CallConsistent
<1>2. Ended(r)
  BY <1>1, ReturnFacts DEF Conclude
<1>3. CASE call[r].op = "release"
  <2>1. Marked(r, p, own[r][p] - 1) /\ ownX' = ownX
    BY <1>1, <1>3, MarkReleaseFacts DEF Conclude
  <2>2. own'[r][p] = own[r][p] - 1 /\ Held(r, p) = own[r][p] - 1
    BY <1>1, <1>3, <2>1 DEF Marked, Held, Due, Gaining, Losing
  <2>3. Held(r, p)' = own[r][p] - 1 /\ (HasX(r, p)' <=> p \in ownX[r])
    BY <1>1, <1>2, <2>1, <2>2, EndedHolds
  <2>4. (HasX(r, p)' <=> HasX(r, p))
    BY <1>3, <2>3 DEF HasX
  <2> QED  BY <1>1, <1>2, <2>1, <2>2, <2>3, <2>4
<1>4. CASE call[r].op = "up"
  <2>1. UNCHANGED mine
    BY <1>4 DEF Conclude
  <2>2. Held(r, p) = own[r][p]
    BY <1>1, <1>4 DEF Held, Due, Gaining, Losing
  <2>3. Held(r, p)' = own[r][p] /\ (HasX(r, p)' <=> p \in ownX[r])
    BY <1>1, <1>2, <2>1, EndedHolds DEF mine
  <2>4. (HasX(r, p)' <=> HasX(r, p))
    BY <1>4, <2>3 DEF HasX
  <2>5. Marked(r, p, own'[r][p])
    BY <1>1, <2>1 DEF Marked, mine, Types
  <2> QED  BY <1>1, <1>2, <2>1, <2>2, <2>3, <2>4, <2>5 DEF mine
<1> QED
  BY <1>1, <1>3, <1>4

\* restoreTTL reads the clock and the key.
LEMMA RestoreGetKeeps ==
  ASSUME TypeOK, Covers, NEW r \in Request, RestoreGet(r)
  PROVE  Keeps
<1>0. PICK p \in Path : p = call[r].path
  BY InCallFacts DEF RestoreGet, InCall
<1>1. /\ Types /\ own[r][p] \in 0..MaxShared /\ own[r][p] > 0 /\ call[r].at = "get"
      /\ call[r].op \in {"release", "up"} /\ saved[r][p] # NoSaved /\ lock[p] \in LockValue
      /\ call[r] \in Calls
  BY <1>0, InCallFacts DEF RestoreGet, InCall, CallConsistent
<1>2. UNCHANGED <<redis, now, mine, saved, ending, crashes, lapsed, stray>>
  BY DEF RestoreGet
<1> DEFINE e == now - saved[r][p].time
<1>3. e \in Int
  BY <1>1 DEF Types
<1> HIDE DEF e
<1>4. call' = [call EXCEPT ![r].at = "ttl", ![r].seen = lock[p], ![r].elapsed = e]
  BY <1>0 DEF RestoreGet, e
<1>5. Moved(r, p, call[r].op, "ttl")
  BY <1>0, <1>1, <1>3, <1>4 DEF Moved, Types, Calls
<1>6. Types'
  BY <1>1, <1>2, <1>5 DEF Types, redis, mine, Moved
<1>7. CallConsistent(r)'
  BY <1>1, <1>2, <1>5 DEF CallConsistent, mine, Moved
<1>8. Frame(r, p)
  BY <1>0, <1>1, <1>2, <1>5 DEF Frame, Confined, redis, mine, Moved
<1>9. Untouched(r, p)
  <2>1. Held(r, p)' = Held(r, p) /\ Held(r, p) \in Int
    BY <1>0, <1>1, <1>2, <1>5 DEF Held, Due, Gaining, Losing, Moved, mine
  <2>2. HasX(r, p)' <=> HasX(r, p)
    BY <1>0, <1>1, <1>2, <1>5 DEF HasX, Moved, mine
  <2> QED  BY <1>2, <2>1, <2>2 DEF Untouched, Same, SameX, redis
<1> QED
  BY <1>6, <1>7, <1>8, <1>9, FrameKeeps DEF Effect

\* restoreTTL reads the TTL and stops if somebody has renewed it.
LEMMA RestoreGetTtlKeeps ==
  ASSUME TypeOK, Covers, NEW r \in Request, RestoreGetTtl(r)
  PROVE  Keeps
<1>0. PICK p \in Path : p = call[r].path
  BY InCallFacts DEF RestoreGetTtl, InCall
<1>1. /\ Types /\ own[r][p] \in 0..MaxShared /\ own[r][p] > 0 /\ call[r].at = "ttl"
      /\ call[r].op \in {"release", "up"} /\ saved[r][p] # NoSaved /\ call[r] \in Calls
  BY <1>0, InCallFacts DEF RestoreGetTtl, InCall, CallConsistent
<1>2. UNCHANGED <<redis, now, saved, ending, crashes, lapsed, stray>>
  BY DEF RestoreGetTtl
<1>3. CASE Conclude(r)
  <2>1. /\ Ended(r) /\ ownX' = ownX /\ Marked(r, p, own'[r][p])
        /\ Held(r, p)' = Held(r, p) /\ Held(r, p) \in Int
        /\ (HasX(r, p)' <=> HasX(r, p))
    BY <1>0, <1>1, <1>3, ConcludeFacts
  <2>2. Types'
    BY <1>1, <1>2, <2>1 DEF Types, redis, Ended, Marked
  <2>3. CallConsistent(r)'
    BY <2>1 DEF CallConsistent, Ended, Idle
  <2>4. Frame(r, p) /\ Untouched(r, p)
    BY <1>0, <1>1, <1>2, <2>1
       DEF Frame, Confined, redis, Ended, Marked, Idle, Untouched, Same, SameX
  <2> QED  BY <2>2, <2>3, <2>4, FrameKeeps DEF Effect
<1>4. CASE call' = [call EXCEPT ![r].at = "set"] /\ UNCHANGED mine
  <2>1. Moved(r, p, call[r].op, "set")
    BY <1>0, <1>1, <1>4 DEF Moved, Types, Calls
  <2>2. Types'
    BY <1>1, <1>2, <1>4, <2>1 DEF Types, redis, mine, Moved
  <2>3. CallConsistent(r)'
    BY <1>1, <1>2, <1>4, <2>1 DEF CallConsistent, mine, Moved
  <2>4. Frame(r, p)
    BY <1>0, <1>1, <1>2, <1>4, <2>1 DEF Frame, Confined, redis, mine, Moved
  <2>5. Held(r, p)' = Held(r, p) /\ Held(r, p) \in Int
    BY <1>0, <1>1, <1>4, <2>1 DEF Held, Due, Gaining, Losing, Moved, mine
  <2>6. HasX(r, p)' <=> HasX(r, p)
    BY <1>0, <1>1, <1>4, <2>1 DEF HasX, Moved, mine
  <2>7. Untouched(r, p)
    BY <1>2, <2>5, <2>6 DEF Untouched, Same, SameX, redis
  <2> QED  BY <2>2, <2>3, <2>4, <2>7, FrameKeeps DEF Effect
<1> QED
  BY <1>3, <1>4 DEF RestoreGetTtl

\* The key is deleted although other requests may hold it: those lapse.
LEMMA DropAnyFacts ==
  ASSUME Types, NEW p \in Path, DropAny({p})
  PROVE  /\ Wrote(p, NoKey) /\ stray' = stray \ {p} /\ lapsed' \in SUBSET Path
         /\ lapsed \subseteq lapsed' /\ (p \in lapsed' \/ ~InUse(p))
<1>1. Drop({p}) /\ lapsed' = lapsed \cup {x \in {p} : InUse(x)}
  BY DEF DropAny
<1> QED
  BY <1>1, DropFacts DEF Types

\* With or without a value to compare with, restoreTTL leaves the key alone,
\* sets a TTL or deletes the key, whoever holds it.
LEMMA RestoreSetTtlWrites ==
  ASSUME TypeOK, NEW r \in Request, RestoreSetTtl(r), NEW p \in Path, p = call[r].path
  PROVE  \E e \in Int : Keep \/ DropAny({p}) \/ Put(p, lock[p], e)
<1>1. call[r].at = "set"
  BY DEF RestoreSetTtl, InCall
<1>2. Types /\ saved[r][p] # NoSaved /\ call[r] \in Calls
  BY <1>1, InCallFacts DEF CallConsistent
<1>3. Remaining(r) \in Int /\ now \in Int
  BY <1>2 DEF Remaining, Types, Calls
<1>4. ASSUME NEW ttl \in Int, Expire(p, ttl)
      PROVE  \E e \in Int : DropAny({p}) \/ Put(p, lock[p], e)
  <2>1. DropAny({p}) \/ Put(p, lock[p], now + ttl)
    BY <1>4 DEF Expire
  <2>2. now + ttl \in Int
    BY <1>3
  <2> QED  BY <2>1, <2>2
<1>5. CASE call[r].seen = NoKey
  <2>1. SetAnyTtl(p, Remaining(r))
    BY <1>5 DEF RestoreSetTtl
  <2>2. (IF Remaining(r) = 0 THEN DefaultTtl ELSE Remaining(r)) \in Int
    BY <1>3
  <2> QED  BY <1>4, <2>1, <2>2 DEF SetAnyTtl
<1>6. CASE call[r].seen # NoKey
  <2>1. SetSameTtl(p, call[r].seen, Remaining(r))
    BY <1>6 DEF RestoreSetTtl
  <2> QED  BY <1>3, <1>4, <2>1 DEF SetSameTtl
<1> QED  BY <1>5, <1>6

LEMMA RestoreSetTtlKeeps ==
  ASSUME TypeOK, Covers, NEW r \in Request, RestoreSetTtl(r)
  PROVE  Keeps
<1>0. PICK p \in Path : p = call[r].path
  BY InCallFacts DEF RestoreSetTtl, InCall
<1>1. /\ Types /\ saved[r][p] # NoSaved /\ call[r] \in Calls /\ lock[p] \in LockValue
      /\ call[r].at = "set"
  BY <1>0, InCallFacts DEF RestoreSetTtl, InCall, CallConsistent
<1>2. UNCHANGED <<now, saved, ending, crashes>> /\ Conclude(r)
  BY DEF RestoreSetTtl
<1>3. /\ Ended(r) /\ ownX' = ownX /\ Marked(r, p, own'[r][p])
      /\ Held(r, p)' = Held(r, p) /\ Held(r, p) \in Int
      /\ (HasX(r, p)' <=> HasX(r, p))
  BY <1>0, <1>1, <1>2, ConcludeFacts
<1>5. PICK e \in Int : Keep \/ DropAny({p}) \/ Put(p, lock[p], e)
  BY <1>0, RestoreSetTtlWrites
<1>6. CASE Keep \/ Put(p, lock[p], e)
  <2>1. Put(p, lock[p], e) => Wrote(p, lock[p]) /\ lapsed' = lapsed /\ stray' = stray
    BY <1>1, PutFacts
  <2>2. Types'
    BY <1>1, <1>2, <1>3, <1>6, <2>1 DEF Types, Ended, Marked, Keep, Wrote
  <2>3. CallConsistent(r)'
    BY <1>3 DEF CallConsistent, Ended, Idle
  <2>4. Frame(r, p) /\ Untouched(r, p)
    BY <1>0, <1>1, <1>2, <1>3, <1>6, <2>1
       DEF Frame, Confined, Ended, Marked, Idle, Untouched, Same, SameX, Keep, Wrote
  <2> QED  BY <2>2, <2>3, <2>4, FrameKeeps DEF Effect
<1>7. CASE DropAny({p})
  <2>1. /\ Wrote(p, NoKey) /\ stray' = stray \ {p} /\ lapsed' \in SUBSET Path
        /\ lapsed \subseteq lapsed' /\ (p \in lapsed' \/ ~InUse(p))
    BY <1>1, <1>7, DropAnyFacts
  <2>2. Types'
    BY <1>1, <1>2, <1>3, <2>1 DEF Types, Ended, Marked, Wrote
  <2>3. CallConsistent(r)'
    BY <1>3 DEF CallConsistent, Ended, Idle
  <2>4. Confined(r, p)
    BY <1>0, <1>2, <1>3, <2>1 DEF Confined, Ended, Marked, Idle, Wrote
  <2>5. Same(r, p)
    BY <1>3 DEF Same, SameX
  <2>6. (p \in lapsed' /\ Loose(r, p)) \/ Vanished(r, p)
    BY <2>1, <2>5 DEF Vanished, Loose, Wrote
  <2> QED  BY <2>2, <2>3, <2>4, <2>5, <2>6, ConfinedKeeps DEF Effect
<1> QED
  BY <1>5, <1>6, <1>7

\* cad(path, newValue) of a counter that fell below zero.
LEMMA ResetNegativeKeeps ==
  ASSUME TypeOK, Covers, NEW r \in Request, ResetNegative(r)
  PROVE  Keeps
<1>0. PICK p \in Path : p = call[r].path
  BY InCallFacts DEF ResetNegative, InCall
<1>1. /\ Types /\ own[r][p] \in 0..MaxShared /\ own[r][p] > 0
      /\ call[r].op = "release" /\ call[r].at = "reset" /\ lock[p] \in LockValue
  BY <1>0, InCallFacts DEF ResetNegative, InCall, CallConsistent
<1>2. UNCHANGED <<now, saved, ending, crashes>>
  BY DEF ResetNegative
<1>3. Marked(r, p, own[r][p] - 1) /\ ownX' = ownX /\ Ended(r)
  BY <1>0, <1>1, MarkReleaseFacts, ReturnFacts DEF ResetNegative
<1>4. Held(r, p) = own[r][p] - 1 /\ (HasX(r, p) <=> p \in ownX[r])
  BY <1>0, <1>1 DEF Held, HasX, Due, Gaining, Losing
<1>5. Held(r, p)' = own[r][p] - 1 /\ (HasX(r, p)' <=> p \in ownX[r])
  BY <1>1, <1>3, EndedHolds DEF Marked
<1>6. Same(r, p)
  BY <1>4, <1>5 DEF Same, SameX
<1>7. (Keep /\ lock[p] # call[r].seen) \/ DropAny({p})
  BY <1>0 DEF ResetNegative
<1>8. DropAny({p}) =>
        /\ Wrote(p, NoKey) /\ stray' = stray \ {p} /\ lapsed' \in SUBSET Path
        /\ lapsed \subseteq lapsed' /\ (p \in lapsed' \/ ~InUse(p))
  BY <1>1, DropAnyFacts
<1>9. Types'
  BY <1>1, <1>2, <1>3, <1>7, <1>8 DEF Types, Ended, Marked, Wrote, Keep
<1>10. CallConsistent(r)'
  BY <1>3 DEF CallConsistent, Ended, Idle
<1>11. Confined(r, p)
  BY <1>0, <1>2, <1>3, <1>7, <1>8 DEF Confined, Ended, Marked, Idle, Wrote, Keep
<1>12. (p \in lapsed' /\ Loose(r, p)) \/ Vanished(r, p) \/ Untouched(r, p)
  BY <1>6, <1>7, <1>8 DEF Vanished, Untouched, Loose, Wrote, Keep
<1> QED
  BY <1>6, <1>9, <1>10, <1>11, <1>12, ConfinedKeeps DEF Effect

\* What is left of a request that ended or was killed is nothing.
LEMMA FreshFacts ==
  ASSUME TypeOK, NEW r \in Request, Fresh(r)
  PROVE  /\ own' \in [Request -> [Path -> 0..MaxShared]]
         /\ ownX' \in [Request -> SUBSET Path] /\ call' \in [Request -> Calls]
         /\ saved' \in [Request -> [Path -> {NoSaved} \cup [ttl : Int, time : Int]]]
         /\ ending' \in SUBSET Request
         /\ \A q \in Request : CallConsistent(q)'
         /\ \A x \in Path : Held(r, x)' = 0 /\ ~HasX(r, x)'
         /\ \A q \in Request \ {r}, x \in Path : Same(q, x)
<1>1. Idle \in Calls
  BY DEF Idle, Calls, LockValue
<1>2. /\ own' \in [Request -> [Path -> 0..MaxShared]]
      /\ ownX' \in [Request -> SUBSET Path] /\ call' \in [Request -> Calls]
      /\ saved' \in [Request -> [Path -> {NoSaved} \cup [ttl : Int, time : Int]]]
      /\ ending' \in SUBSET Request /\ Ended(r)
  BY <1>1 DEF Fresh, TypeOK, Types, Ended
<1>3. \A q \in Request \ {r} : /\ own'[q] = own[q] /\ ownX'[q] = ownX[q]
                               /\ call'[q] = call[q] /\ saved'[q] = saved[q]
  BY DEF Fresh, TypeOK, Types
<1>4. ownX'[r] = {} /\ \A x \in Path : own'[r][x] = 0
  BY DEF Fresh, TypeOK, Types
<1>5. ASSUME NEW q \in Request PROVE CallConsistent(q)'
  <2>1. CASE q = r
    BY <1>2, <2>1 DEF CallConsistent, Ended, Idle
  <2>2. CASE q # r
    <3>1. CallConsistent(q)
      BY DEF TypeOK
    <3> QED  BY <1>3, <2>2, <3>1 DEF CallConsistent
  <2> QED  BY <2>1, <2>2
<1>6. ASSUME NEW x \in Path PROVE Held(r, x)' = 0 /\ ~HasX(r, x)'
  BY <1>2, <1>4, EndedHolds
<1>7. ASSUME NEW q \in Request \ {r}, NEW x \in Path PROVE Same(q, x)
  BY <1>3 DEF Held, HasX, Due, Same, SameX
<1> QED
  BY <1>2, <1>5, <1>6, <1>7

\* Where nobody's holds change, neither the totals nor who uses a key do.
LEMMA NobodyMoves ==
  ASSUME \A q \in Request, x \in Path : Same(q, x), NEW p \in Path
  PROVE  Total(p)' = Total(p) /\ (InUse(p)' <=> InUse(p))
<1>1. Holds(p)' = Holds(p)
  BY DEF Holds, Same
<1> QED
  BY <1>1 DEF Total, InUse, Same, SameX

\* Nor, where calls stay where they are, does how the key ends.
LEMMA NobodyEnds ==
  ASSUME \A q \in Request, x \in Path : Same(q, x), call' = call, NEW p \in Path,
         Ends(p), lock'[p] = lock[p] \/ lock'[p] = NoKey
  PROVE  Ends(p)'
<1>1. Total(p)' = Total(p)
  BY NobodyMoves
<1>2. \A q \in Request : Held(q, p)' = Held(q, p) /\ (HasX(q, p)' <=> HasX(q, p))
  BY DEF Same, SameX
<1>3. CASE lock'[p] = NoKey
  BY <1>3 DEF Ends
<1>4. CASE lock'[p] = lock[p]
  <2>1. \A q \in Request : Pending(q, p)' <=> Pending(q, p)
    BY <1>4 DEF Pending, InCall
  <2> QED  BY <1>1, <1>2, <1>4, <2>1 DEF Ends
<1> QED
  BY <1>3, <1>4

\* A step that changes neither Redis nor what anybody holds.
LEMMA QuietKeeps ==
  ASSUME TypeOK, Covers, TypeOK', UNCHANGED <<lock, call, lapsed, stray>>,
         \A q \in Request, x \in Path : Same(q, x)
  PROVE  Keeps
<1>1. ASSUME NEW p \in Path PROVE Total(p)' = Total(p) /\ (InUse(p)' <=> InUse(p))
  BY NobodyMoves
<1>2. ASSUME NEW q \in Request, NEW p \in Path
      PROVE  Held(q, p)' = Held(q, p) /\ (HasX(q, p)' <=> HasX(q, p))
  BY DEF Same, SameX
<1>3. CountCovers'
  BY <1>1, <1>2 DEF Covers, CountCovers
<1>4. CounterExact'
  BY <1>1, <1>2 DEF Covers, CounterExact
<1>5. Simulates
  BY LapseSimulates DEF TypeOK, Types
<1>6. Frees => Frees'
  BY NobodyEnds DEF Frees
<1> QED
  BY <1>3, <1>4, <1>5, <1>6 DEF Keeps, Covers

LEMMA FinishRequestKeeps ==
  ASSUME TypeOK, Covers, NEW r \in Request, FinishRequest(r)
  PROVE  Keeps
<1>1. Fresh(r) /\ UNCHANGED <<redis, now, crashes, lapsed, stray>>
  BY DEF FinishRequest
<1>2. TypeOK'
  BY <1>1, FreshFacts DEF TypeOK, Types, redis
<1>3. ASSUME NEW x \in Path PROVE Same(r, x)
  <2>1. call[r] = Idle /\ own[r][x] = 0 /\ ownX[r] = {} /\ Types
    BY DEF FinishRequest, Ready, TypeOK
  <2>2. Held(r, x) = 0 /\ ~HasX(r, x)
    BY <2>1, SettledHolds DEF Idle
  <2> QED  BY <1>1, <2>2, FreshFacts DEF Same, SameX
<1>4. call' = call
  BY DEF FinishRequest, Ready, Fresh, TypeOK, Types
<1> QED
  BY <1>1, <1>2, <1>3, <1>4, FreshFacts, QuietKeeps DEF redis

\* A killed request holds nothing any more; Redis does not know, and where it
\* held something the key is stray now.
LEMMA CrashKeeps ==
  ASSUME TypeOK, Covers, NEW r \in Request, Crash(r)
  PROVE  Keeps
<1>1. Fresh(r) /\ UNCHANGED <<redis, now, lapsed>>
  BY DEF Crash
<1>2. crashes' \in 0..MaxCrashes /\ stray' \in SUBSET Path
  BY DEF Crash, TypeOK, Types
<1>3. TypeOK'
  BY <1>1, <1>2, FreshFacts DEF TypeOK, Types, redis
<1>4. /\ \A x \in Path : Held(r, x)' = 0 /\ ~HasX(r, x)'
      /\ \A q \in Request \ {r}, x \in Path : Same(q, x)
  BY <1>1, FreshFacts
<1>5. ASSUME NEW x \in Path PROVE Held(r, x) \in Nat
  BY HoldsType DEF HoldsOK
<1>6. \A x \in Path : /\ x \in stray => x \in stray'
                      /\ Held(r, x) > 0 \/ HasX(r, x) => x \in stray'
  BY DEF Crash, Leaves
<1>7. \A x \in Path \ lapsed : Covered(x) /\ (x \in stray \/ Exact(x))
  BY CoversByKey DEF ByKey
<1>8. ASSUME NEW x \in Path, x \notin lapsed PROVE Covered(x)' /\ (x \in stray' \/ Exact(x)')
  <2>1. OthersKeep(r, x)
    BY <1>4 DEF OthersKeep, Same, SameX
  <2>2. Abandoned(r, x)
    BY <1>1, <1>4, <1>5 DEF Abandoned, GivesUp, redis
  <2>3. Covered(x)'
    BY <1>3, <1>7, <1>8, <2>1, <2>2, EffectCovered
  <2>4. ASSUME x \notin stray' PROVE Exact(x)'
    <3>1. Held(r, x) = 0 /\ ~HasX(r, x) /\ Exact(x)
      BY <1>5, <1>6, <1>7, <1>8, <2>4
    <3>2. Untouched(r, x)
      BY <1>1, <1>4, <3>1 DEF Untouched, Same, SameX, redis
    <3> QED  BY <1>3, <1>7, <1>8, <2>1, <2>4, <3>1, <3>2, EffectExact DEF Effect
  <2> QED  BY <2>3, <2>4
<1>9. Covers'
  <2>1. (Covers <=> ByKey)'
    BY CoversByKey, PTL
  <2> QED  BY <1>1, <1>8, <2>1 DEF ByKey
<1>10. Simulates
  <2>1. ASSUME NEW q \in Request, NEW x \in Path
        PROVE  Held(q, x)' = IF q = r THEN 0 ELSE Held(q, x)
    BY <1>4 DEF Same
  <2>2. Readers' = [Readers EXCEPT ![r] = [x \in Path |-> 0]]
    BY <2>1 DEF Readers
  <2>3. ASSUME NEW q \in Request
        PROVE  {x \in Path : HasX(q, x)'} = IF q = r THEN {} ELSE Writers[q]
    BY <1>4 DEF Same, SameX, Writers
  <2>4. /\ Writers' = [q \in Request |-> {x \in Path : HasX(q, x)'}]
        /\ Writers = [q \in Request |-> Writers[q]]
    BY DEF Writers
  <2>5. Writers' = [Writers EXCEPT ![r] = {}]
    <3> HIDE DEF Writers
    <3> QED  BY <2>3, <2>4
  <2>6. Table!Die(r)
    BY <1>1, <2>2, <2>5 DEF Table!Die, Readers, Writers
  <2> QED  BY <2>6 DEF Simulates, Table!Next
<1>11. ASSUME Frees, NEW x \in Path, x \notin stray' PROVE Ends(x)'
  <2>1. Held(r, x) = 0 /\ ~HasX(r, x) /\ ~Pending(r, x) /\ x \notin stray
    BY <1>5, <1>11 DEF Crash, Leaves, Pending
  <2>2. Untouched(r, x) /\ OthersKeep(r, x)
    BY <1>1, <1>4, <2>1 DEF Untouched, OthersKeep, Same, SameX, redis
  <2>3. \A q \in Request \ {r} : call'[q] = call[q]
    BY <1>1 DEF Fresh, TypeOK, Types
  <2> QED  BY <1>3, <1>11, <2>1, <2>2, <2>3, EffectEnds DEF Effect, Frees
<1> QED
  BY <1>3, <1>9, <1>10, <1>11 DEF Keeps, Frees

LEMMA BeginReleaseAllKeeps ==
  ASSUME TypeOK, Covers, NEW r \in Request, BeginReleaseAll(r)
  PROVE  Keeps
<1>1. UNCHANGED <<redis, now, mine, saved, call, crashes, lapsed, stray>>
  BY DEF BeginReleaseAll
<1>2. TypeOK'
  BY <1>1 DEF BeginReleaseAll, TypeOK, Types, CallConsistent, redis, mine
<1>3. \A q \in Request, x \in Path : Same(q, x)
  BY <1>1 DEF Held, HasX, Due, mine, Same, SameX
<1> QED
  BY <1>1, <1>2, <1>3, QuietKeeps DEF redis

\* Keys expire; where somebody still held one, the path lapses.
LEMMA TickKeeps ==
  ASSUME TypeOK, Covers, Tick
  PROVE  Keeps
<1> DEFINE S == {p \in Path : lock[p] # NoKey /\ expiry[p] # NoTtl /\ expiry[p] <= now + 1}
<1>1. DropAny(S) /\ UNCHANGED <<mine, saved, call, ending, crashes>> /\ S \subseteq Path
  BY DEF Tick
<1>2. now' \in 0..MaxTime
  BY DEF Tick, TypeOK, Types
<1> HIDE DEF S
<1>3. /\ lock' \in [Path -> LockValue] /\ expiry' \in [Path -> Int \cup {NoTtl}]
      /\ stray' \in SUBSET Path /\ lapsed' \in SUBSET Path
      /\ \A p \in Path : lock'[p] = IF p \in S THEN NoKey ELSE lock[p]
      /\ \A p \in Path \ S : p \in stray' <=> p \in stray
      /\ \A p \in S : p \in lapsed' \/ ~InUse(p)
      /\ lapsed \subseteq lapsed'
  BY <1>1 DEF DropAny, Drop, TypeOK, Types, LockValue
<1>4. TypeOK'
  BY <1>1, <1>2, <1>3 DEF TypeOK, Types, CallConsistent, mine
<1>5. \A q \in Request, x \in Path : Same(q, x)
  BY <1>1 DEF Held, HasX, Due, mine, Same, SameX
<1>6. \A p \in Path \ lapsed : Covered(p) /\ (p \in stray \/ Exact(p))
  BY CoversByKey DEF ByKey
<1>7. ASSUME NEW p \in Path, p \notin lapsed'
      PROVE  Covered(p)' /\ (p \in stray' \/ Exact(p)')
  <2>1. Total(p)' = Total(p) /\ (InUse(p)' <=> InUse(p))
    BY <1>5, NobodyMoves
  <2>2. \A q \in Request : Held(q, p)' = Held(q, p) /\ (HasX(q, p)' <=> HasX(q, p))
    BY <1>5 DEF Same, SameX
  <2>3. p \notin lapsed
    BY <1>3, <1>7
  <2>4. CASE p \in S
    <3>1. lock'[p] = NoKey /\ ~InUse(p)'
      BY <1>3, <1>7, <2>1, <2>4
    <3>2. Covered(p)'
      BY <3>1 DEF Covered
    <3>3. (TypeOK /\ Covered(p) /\ lock[p] \in {NoKey, Exclusive} => Total(p) = 0)'
      BY NothingHeld, PTL
    <3> QED  BY <1>4, <3>1, <3>2, <3>3 DEF Exact
  <2>5. CASE p \notin S
    <3>1. lock'[p] = lock[p] /\ (p \in stray' <=> p \in stray)
      BY <1>3, <2>5
    <3>2. Covered(p) /\ (p \in stray \/ Exact(p))
      BY <1>6, <2>3
    <3> QED  BY <2>1, <2>2, <3>1, <3>2 DEF Covered, Exact
  <2> QED  BY <2>4, <2>5
<1>8. Covers'
  <2>1. (Covers <=> ByKey)'
    BY CoversByKey, PTL
  <2> QED  BY <1>7, <2>1 DEF ByKey
<1>9. Simulates
  BY <1>3, <1>5, LapseSimulates
<1>10. ASSUME Frees, NEW p \in Path, p \notin stray' PROVE Ends(p)'
  <2>1. lock'[p] = NoKey \/ (lock'[p] = lock[p] /\ p \notin stray)
    BY <1>3, <1>10
  <2> QED  BY <1>1, <1>5, <1>10, <2>1, NobodyEnds DEF Frees, Ends
<1> QED
  BY <1>4, <1>8, <1>9, <1>10 DEF Keeps, Frees

\* Where nobody holds the path any more and its key is gone or 0, the key is
\* exact again, so that the loss needs no exception from here on.
LEMMA RecoverKeeps ==
  ASSUME TypeOK, Covers, NEW p \in Path, Recover(p)
  PROVE  Keeps
<1>1. /\ UNCHANGED <<redis, now, mine, saved, call, ending, crashes, stray>>
      /\ lapsed' = lapsed \ {p} /\ Quiet(p) /\ lock[p] \in {NoKey, 0}
  BY DEF Recover
<1>2. TypeOK'
  BY <1>1 DEF TypeOK, Types, CallConsistent, redis, mine
<1>3. ASSUME NEW q \in Request, NEW x \in Path PROVE Same(q, x)
  BY <1>1 DEF Held, HasX, Due, mine, Same, SameX
<1>4. \A q \in Request : Held(q, p) = 0 /\ ~HasX(q, p)
  BY <1>1, HoldsType DEF HoldsOK, Quiet, InUse
<1>5. Total(p) = 0
  BY <1>4, HoldsType, TallyZero DEF HoldsOK
<1>6. Covered(p) /\ Exact(p)
  BY <1>1, <1>4, <1>5 DEF Covered, Exact, InUse
<1>7. ASSUME NEW x \in Path, x \notin lapsed'
      PROVE  Covered(x)' /\ (x \in stray' \/ Exact(x)')
  <2>1. Covered(x) /\ (x \in stray \/ Exact(x))
    BY <1>1, <1>6, <1>7, CoversByKey DEF ByKey
  <2>2. Total(x)' = Total(x) /\ (InUse(x)' <=> InUse(x))
    BY <1>3, NobodyMoves
  <2>3. \A q \in Request : Held(q, x)' = Held(q, x) /\ (HasX(q, x)' <=> HasX(q, x))
    BY <1>3 DEF Same, SameX
  <2> QED  BY <1>1, <2>1, <2>2, <2>3 DEF Covered, Exact, redis
<1>8. Covers'
  <2>1. (Covers <=> ByKey)'
    BY CoversByKey, PTL
  <2> QED  BY <1>7, <2>1 DEF ByKey
<1>9. Simulates
  <2>1. Readers' = Readers /\ Writers' = Writers
    BY <1>3 DEF Readers, Writers, Same, SameX
  <2>2. \A q \in Request : Readers[q][p] = 0 /\ p \notin Writers[q]
    BY <1>4 DEF Readers, Writers
  <2>3. Table!Recover(p)
    BY <1>1, <2>1, <2>2 DEF Table!Recover, Table!NoWriter, Readers, Writers
  <2> QED  BY <2>3 DEF Simulates, Table!Next
<1>10. Frees => Frees'
  BY <1>1, <1>3, NobodyEnds DEF Frees, redis
<1> QED
  BY <1>2, <1>8, <1>9, <1>10 DEF Keeps

-----------------------------------------------------------------------------
(* The theorems.                                                           *)

Covering == TypeOK /\ Covers /\ Frees

LEMMA InitCovers == Init => Covering
<1> SUFFICES ASSUME Init PROVE TypeOK /\ Covers /\ Frees
  BY DEF Covering
<1>1. TypeOK
  BY DEF Init, TypeOK, Types, CallConsistent, Idle, Calls, LockValue, NoSaved
<1>2. \A r \in Request, p \in Path : Held(r, p) = 0 /\ ~HasX(r, p)
  BY DEF Init, Held, HasX, Due, Idle
<1>3. \A p \in Path : lock[p] = NoKey /\ Covered(p)
  BY <1>2 DEF Covered, InUse, Init
<1>4. \A p \in Path : Exact(p)
  BY <1>1, <1>3, NothingHeld DEF Exact
<1>5. Frees
  BY <1>3 DEF Frees, Ends
<1> QED
  BY <1>1, <1>3, <1>4, <1>5, CoversByKey DEF ByKey

LEMMA StepCovers == Covering /\ [Next]_vars => Keeps
<1> SUFFICES ASSUME TypeOK, Covers, [Next]_vars PROVE Keeps
  BY DEF Covering
<1>1. ASSUME NEW r \in Request, CallStep(r) PROVE Keeps
  BY <1>1, StampKeeps, IncKeeps, CasExclusiveKeeps, ResetNegativeKeeps,
     RestoreGetKeeps, RestoreGetTtlKeeps, RestoreSetTtlKeeps DEF CallStep
<1>2. ASSUME NEW r \in Request, NEW p \in Path, ClientStep(r, p)
      PROVE  Keeps
  BY <1>2, SaveOldTtlKeeps, AddZeroKeeps, ReleaseLastKeeps, DecKeeps,
     ReleaseExclusiveKeeps, ChangeToSharedKeeps, ChangeToExclusiveKeeps DEF ClientStep
<1>3. ASSUME NEW r \in Request, BeginReleaseAll(r) \/ FinishRequest(r) \/ Crash(r)
      PROVE  Keeps
  BY <1>3, BeginReleaseAllKeeps, FinishRequestKeeps, CrashKeeps
<1>4. CASE Tick \/ \E p \in Path : Recover(p)
  BY <1>4, TickKeeps, RecoverKeeps
<1>5. CASE UNCHANGED vars
  <2>1. TypeOK'
    BY <1>5 DEF TypeOK, Types, CallConsistent, vars
  <2>2. \A q \in Request, x \in Path : Same(q, x)
    BY <1>5 DEF Held, HasX, Due, Same, SameX, vars
  <2> QED  BY <1>5, <2>1, <2>2, QuietKeeps DEF vars
<1> QED
  BY <1>1, <1>2, <1>3, <1>4, <1>5 DEF Next

\* Every behaviour keeps the types and the agreement of calls and bookkeeping,
\* the Redis counter never falls below what live requests hold, and it is
\* exact on the keys no crash left behind; the keys that vanished under a live
\* holder are left out until all who had to do with them are done (lapsed), and
\* what holds of those is that they end well (Frees).
THEOREM Coverage == Spec => []Covering
<1>1. Covering /\ [Next]_vars => Covering'
  BY StepCovers DEF Keeps, Covering
<1> QED
  BY InitCovers, <1>1, PTL DEF Spec

\* Types hold and no call of acquireLock, releaseLock or changeLock stands at a
\* command that the bookkeeping of its request does not allow.
THEOREM TypeCorrect == Spec => []TypeOK
<1>1. Covering => TypeOK
  BY DEF Covering
<1> QED
  BY <1>1, Coverage, PTL

\* For any number of requests and keys, every TTL and any number of crashes, the
\* key never promises less than the live requests hold, unless it vanished under
\* one of them: when a lease ended, or when a restoreTTL that had seen no key, or
\* a reset of a negative counter, deleted the key of another request.
THEOREM CounterCovers == Spec => []CountCovers
<1>1. Covering => CountCovers
  BY DEF Covering, Covers
<1> QED
  BY <1>1, Coverage, PTL

\* No release is lost and none is made twice: for any number of requests, as
\* long as no holder died and the key vanished under none, releasing every lock
\* brings the counter of the key back to zero or deletes the key.
THEOREM KeyExact == Spec => []CounterExact
<1>1. Covering => CounterExact
  BY DEF Covering, Covers
<1> QED
  BY <1>1, Coverage, PTL

\* A lost key does not stay wrong: for any number of requests and keys and every
\* TTL, and whatever leases ended, counters fell below zero or deletions came
\* late before, the key of a path that nobody holds and nobody is in a call
\* about is gone or 0, unless a request was killed that still had to release it.
THEOREM LostKeyEnds == Spec => []FreeWhenReleased
<1>1. Covering => FreeWhenReleased
  <2> SUFFICES ASSUME TypeOK, Frees, NEW p \in Path \ stray, Quiet(p)
               PROVE  lock[p] \in {NoKey, 0}
    BY DEF Covering, FreeWhenReleased
  <2>1. \A r \in Request : Held(r, p) = 0 /\ ~HasX(r, p) /\ ~Pending(r, p)
    BY HoldsType DEF HoldsOK, Quiet, InUse, Pending
  <2>2. Total(p) = 0
    BY <2>1, HoldsType, TallyZero DEF HoldsOK
  <2>3. lock[p] \in LockValue
    BY DEF TypeOK, Types
  <2> QED  BY <2>1, <2>2, <2>3 DEF Frees, Ends, LockValue
<1> QED
  BY <1>1, Coverage, PTL

\* For any number of requests and keys and every TTL, in every interleaving of
\* the Redis commands and with any number of crashes: an exclusive lock excludes
\* every other lock on a key that did not vanish under one of the two.
THEOREM Exclusion == Spec => []MutualExclusion
<1>1. Covering => MutualExclusion
  <2> SUFFICES ASSUME TypeOK, CountCovers, NEW p \in Path \ lapsed,
                      NEW r \in Request, NEW q \in Request, r # q, HasX(r, p)
               PROVE  ~HasX(q, p) /\ Held(q, p) = 0
    BY DEF Covering, Covers, MutualExclusion
  <2>1. lock[p] = Exclusive
    BY DEF CountCovers, InUse, TypeOK, Types, LockValue
  <2> QED  BY <2>1 DEF CountCovers
<1> QED
  BY <1>1, Coverage, PTL

\* The calls of the provider, each several Redis commands long, implement the
\* abstract lock table: every command is a step of the table or a stutter,
\* where a lock counts from the command that takes it to the one that frees it;
\* a key that vanishes under a live holder is a Lapse of the table.
THEOREM Implements == Spec => ImplementsRWLock
<1>1. Init => Table!Init
  <2> SUFFICES ASSUME Init PROVE Table!Init
    OBVIOUS
  <2>1. \A r \in Request, p \in Path : Held(r, p) = 0 /\ ~HasX(r, p)
    BY DEF Init, Held, HasX, Due, Idle
  <2>2. \A r \in Request : {p \in Path : HasX(r, p)} = {}
    BY <2>1
  <2> QED  BY <2>1, <2>2 DEF Init, Table!Init
<1>2. Covering /\ [Next]_vars => [Table!Next]_Table!vars
  BY StepCovers DEF Keeps, Simulates
<1> QED
  BY <1>1, <1>2, Coverage, PTL DEF Spec, ImplementsRWLock, Table!Spec

-----------------------------------------------------------------------------
(* No lock that never expires.                                             *)

\* r is on its way to setTTL for the key p.
Stamping(r, p) == call[r].path = p /\ InCall(r, "stamp")

\* Only the call of r and the key p change, and the key has a TTL, is gone or
\* stray, or somebody is on his way.
Timed(r, p) ==
  /\ \A q \in Request \ {r} : call'[q] = call[q]
  /\ \A x \in Path \ {p} : /\ lock'[x] = lock[x] /\ expiry'[x] = expiry[x]
                           /\ x \in stray' <=> x \in stray
                           /\ ~Stamping(r, x)
  /\ \/ lock'[p] = NoKey \/ expiry'[p] # NoTtl \/ Stamping(r, p)'
     \/ /\ lock[p] # NoKey /\ expiry'[p] = expiry[p] /\ ~Stamping(r, p)
        /\ p \in stray' <=> p \in stray

LEMMA TimedKeepsTtl ==
  ASSUME KeyHasTtl, NEW r \in Request, NEW p \in Path, Timed(r, p)
  PROVE  KeyHasTtl'
<1> SUFFICES ASSUME NEW x \in Path \ stray', lock'[x] # NoKey, expiry'[x] = NoTtl
             PROVE  \E q \in Request : Stamping(q, x)'
  BY DEF KeyHasTtl, Stamping, InCall
<1>1. CASE Stamping(r, p)' /\ x = p
  BY <1>1
<1>2. CASE ~(Stamping(r, p)' /\ x = p)
  <2>1. lock[x] # NoKey /\ expiry[x] = NoTtl /\ x \notin stray /\ ~Stamping(r, x)
    BY <1>2 DEF Timed
  <2>2. PICK q \in Request : Stamping(q, x)
    BY <2>1 DEF KeyHasTtl, Stamping, InCall
  <2>3. Stamping(q, x)'
    BY <2>1, <2>2 DEF Timed, Stamping, InCall
  <2> QED  BY <2>3
<1> QED
  BY <1>1, <1>2

\* What each kind of write does to the TTL of its key.
LEMMA KeepTtl ==
  ASSUME UNCHANGED <<lock, expiry, stray>>
  PROVE  \A x \in Path : /\ lock'[x] = lock[x] /\ expiry'[x] = expiry[x]
                         /\ x \in stray' <=> x \in stray
  OBVIOUS

LEMMA PutTtl ==
  ASSUME Types, NEW p \in Path, NEW v, NEW e, Put(p, v, e)
  PROVE  /\ lock'[p] = v /\ expiry'[p] = e
         /\ \A x \in Path : x \in stray' <=> x \in stray
         /\ \A x \in Path \ {p} : lock'[x] = lock[x] /\ expiry'[x] = expiry[x]
  BY DEF Put, Types

LEMMA DropTtl ==
  ASSUME Types, NEW p \in Path, Drop({p})
  PROVE  /\ lock'[p] = NoKey
         /\ \A x \in Path \ {p} : /\ lock'[x] = lock[x] /\ expiry'[x] = expiry[x]
                                  /\ x \in stray' <=> x \in stray
  BY DEF Drop, Types

\* The calls of the other requests are left alone, and where r goes on.
LEMMA CallTtl ==
  ASSUME Types, NEW r \in Request
  PROVE  /\ \A o, a, p : Goto(r, p, o, a) =>
              /\ \A q \in Request \ {r} : call'[q] = call[q]
              /\ call'[r].at = a /\ call'[r].path = p
         /\ Return(r) => \A q \in Request \ {r} : call'[q] = call[q]
  BY DEF Goto, Return, Types

LEMMA CallStepTtl ==
  ASSUME TypeOK, KeyHasTtl, NEW r \in Request, CallStep(r)
  PROVE  KeyHasTtl'
<1>0. PICK p \in Path : p = call[r].path
  BY InCallFacts DEF CallStep, Stamp, Inc, CasExclusive, ResetNegative, RestoreGet,
       RestoreGetTtl, RestoreSetTtl, InCall
<1>1. Types /\ lock[p] \in LockValue /\ \A x \in Path \ {p} : ~Stamping(r, x)
  BY <1>0 DEF TypeOK, Types, Stamping
<1>2. CASE Stamp(r)
  <2>1. /\ Return(r) /\ lock' = lock /\ stray' = stray
        /\ expiry' = [expiry EXCEPT ![p] = IF lock[p] = NoKey THEN NoTtl ELSE now + Ttl]
    BY <1>0, <1>2 DEF Stamp
  <2>2. now + Ttl \in Int
    BY <1>1 DEF Types
  <2>3. expiry'[p] # NoTtl \/ lock'[p] = NoKey
    BY <1>1, <2>1, <2>2 DEF Types
  <2>4. \A x \in Path \ {p} : expiry'[x] = expiry[x]
    BY <1>1, <2>1 DEF Types
  <2>5. Timed(r, p)
    BY <1>1, <2>1, <2>3, <2>4, CallTtl DEF Timed
  <2> QED  BY <2>5, TimedKeepsTtl
<1>3. CASE Inc(r)
  <2> DEFINE n == IF lock[p] = NoKey THEN 1 ELSE lock[p] + 1
  <2>1. ~Stamping(r, p)
    BY <1>3 DEF Inc, InCall, Stamping
  <2>2. CASE lock[p] = Exclusive
    <3>1. Keep /\ Return(r)
      BY <1>0, <1>3, <2>2 DEF Inc
    <3> QED  BY <1>1, <2>1, <2>2, <3>1, KeepTtl, CallTtl, TimedKeepsTtl DEF Keep, Timed
  <2>3. CASE lock[p] # Exclusive
    <3>1. Put(p, n, expiry[p]) /\ IF n = 0 THEN Return(r) ELSE Goto(r, p, "share", "stamp")
      BY <1>0, <1>3, <2>3 DEF Inc
    <3>2. n = 0 => lock[p] # NoKey
      OBVIOUS
    <3>3. n # 0 => Stamping(r, p)'
      BY <1>1, <3>1, CallTtl DEF Stamping, InCall
    <3>4. \A q \in Request \ {r} : call'[q] = call[q]
      BY <1>1, <3>1, CallTtl
    <3> HIDE DEF n
    <3>5. Timed(r, p)
      BY <1>1, <2>1, <3>1, <3>2, <3>3, <3>4, PutTtl DEF Timed
    <3> QED  BY <3>5, TimedKeepsTtl
  <2> QED  BY <2>2, <2>3
<1>4. CASE CasExclusive(r)
  <2>1. ~Stamping(r, p)
    BY <1>4 DEF CasExclusive, InCall, Stamping
  <2>2. CASE Keep /\ Return(r)
    BY <1>1, <2>1, <2>2, KeepTtl, CallTtl, TimedKeepsTtl DEF Keep, Timed
  <2>3. CASE Put(p, Exclusive, NoTtl) /\ Goto(r, p, "exclude", "stamp")
    <3>1. Stamping(r, p)' /\ \A q \in Request \ {r} : call'[q] = call[q]
      BY <1>1, <2>3, CallTtl DEF Stamping, InCall
    <3> QED  BY <1>1, <2>3, <3>1, PutTtl, TimedKeepsTtl DEF Timed
  <2> QED  BY <1>0, <1>4, <2>2, <2>3 DEF CasExclusive
<1>5. CASE ResetNegative(r)
  <2>1. ~Stamping(r, p) /\ Return(r) /\ (Keep \/ DropAny({p}))
    BY <1>0, <1>5 DEF ResetNegative, InCall, Stamping
  <2> QED
    BY <1>1, <2>1, KeepTtl, DropTtl, CallTtl, TimedKeepsTtl DEF Keep, DropAny, Timed
<1>6. CASE RestoreGet(r) \/ RestoreGetTtl(r)
  <2>1. /\ ~Stamping(r, p) /\ UNCHANGED <<lock, expiry, stray>>
        /\ \A q \in Request \ {r} : call'[q] = call[q]
    BY <1>1, <1>6, CallTtl
       DEF RestoreGet, RestoreGetTtl, Conclude, InCall, Stamping, redis, Types
  <2> QED  BY <1>1, <2>1, KeepTtl, TimedKeepsTtl DEF Timed
<1>7. CASE RestoreSetTtl(r)
  <2>1. ~Stamping(r, p) /\ Return(r)
    BY <1>0, <1>7 DEF RestoreSetTtl, Conclude, InCall, Stamping
  <2>2. PICK e \in Int : Keep \/ DropAny({p}) \/ Put(p, lock[p], e)
    BY <1>0, <1>7, RestoreSetTtlWrites
  <2>3. e # NoTtl
    OBVIOUS
  <2>4. CASE Put(p, lock[p], e)
    BY <1>1, <2>1, <2>3, <2>4, PutTtl, CallTtl, TimedKeepsTtl DEF Timed
  <2>5. CASE Keep \/ DropAny({p})
    BY <1>1, <2>1, <2>5, KeepTtl, DropTtl, CallTtl, TimedKeepsTtl DEF Keep, DropAny, Timed
  <2> QED  BY <2>2, <2>4, <2>5
<1> QED
  BY <1>2, <1>3, <1>4, <1>5, <1>6, <1>7 DEF CallStep

LEMMA ClientStepTtl ==
  ASSUME TypeOK, KeyHasTtl, NEW r \in Request, NEW p \in Path, ClientStep(r, p)
  PROVE  KeyHasTtl'
<1> SUFFICES Timed(r, p)
  BY TimedKeepsTtl
<1>1. Types /\ lock[p] \in LockValue
  BY DEF TypeOK, Types
<1>2. (\A x \in Path \ {p} : ~Stamping(r, x)) /\ ~Stamping(r, p)
  BY DEF ClientStep, SaveOldTtl, AddZero, ReleaseLast, Dec, ReleaseExclusive, ChangeToShared,
       ChangeToExclusive, Ready, Idle, InCall, Stamping
<1>3. \A q \in Request \ {r} : call'[q] = call[q]
  BY <1>1 DEF ClientStep, SaveOldTtl, AddZero, ReleaseLast, Dec, Decrement, DecrementNothing,
       ReleaseExclusive, ChangeToShared, ChangeToExclusive, Goto, Return, Types
<1>4. ASSUME UNCHANGED <<lock, expiry, stray>> PROVE Timed(r, p)
  BY <1>1, <1>2, <1>3, <1>4, KeepTtl DEF Timed
<1>5. ASSUME DropOwn(p) PROVE Timed(r, p)
  BY <1>1, <1>2, <1>3, <1>5, DropTtl DEF Timed, DropOwn
<1>6. ASSUME NEW v, Put(p, v, NoTtl), NEW o, Goto(r, p, o, "stamp") PROVE Timed(r, p)
  <2>1. Stamping(r, p)'
    BY <1>1, <1>6, CallTtl DEF Stamping, InCall
  <2> QED  BY <1>1, <1>2, <1>3, <1>6, <2>1, PutTtl DEF Timed
<1>7. CASE SaveOldTtl(r, p)
  BY <1>4, <1>7 DEF SaveOldTtl, redis
<1>8. CASE AddZero(r, p)
  <2>1. CASE lock[p] = NoKey
    <3>1. Put(p, 0, now + DefaultTtl) /\ now + DefaultTtl \in Int
      BY <1>1, <1>8, <2>1 DEF AddZero, Types
    <3> QED  BY <1>1, <1>2, <1>3, <3>1, PutTtl DEF Timed
  <2>2. CASE lock[p] # NoKey
    BY <1>4, <1>8, <2>2 DEF AddZero, Keep
  <2> QED  BY <2>1, <2>2
<1>9. CASE ReleaseLast(r, p) \/ ReleaseExclusive(r, p)
  BY <1>4, <1>5, <1>9 DEF ReleaseLast, ReleaseExclusive, Keep
<1>10. CASE Dec(r, p)
  <2>1. Keep \/ (lock[p] \in Int /\ Put(p, lock[p] - 1, expiry[p]))
    BY <1>10 DEF Dec, Decrement, DecrementNothing
  <2>2. ASSUME lock[p] \in Int, Put(p, lock[p] - 1, expiry[p]) PROVE Timed(r, p)
    <3>1. lock[p] # NoKey /\ expiry'[p] = expiry[p]
      BY <1>1, <2>2, PutTtl
    <3> QED  BY <1>1, <1>2, <1>3, <2>2, <3>1, PutTtl DEF Timed
  <2> QED  BY <1>4, <2>1, <2>2 DEF Keep
<1>11. CASE ChangeToShared(r, p)
  BY <1>4, <1>6, <1>11 DEF ChangeToShared, Keep
<1>12. CASE ChangeToExclusive(r, p)
  BY <1>4, <1>6, <1>12 DEF ChangeToExclusive, Keep
<1> QED
  BY <1>7, <1>8, <1>9, <1>10, <1>11, <1>12 DEF ClientStep

LEMMA StepTtl == TypeOK /\ KeyHasTtl /\ [Next]_vars => KeyHasTtl'
<1> SUFFICES ASSUME TypeOK, KeyHasTtl, [Next]_vars PROVE KeyHasTtl'
  OBVIOUS
<1>1. CASE UNCHANGED <<lock, expiry, stray, call>>
  BY <1>1 DEF KeyHasTtl, InCall
\* The request had nothing under way.
<1>2. ASSUME NEW r \in Request, FinishRequest(r) PROVE KeyHasTtl'
  <2>1. call[r] = Idle /\ call' = [call EXCEPT ![r] = Idle] /\ UNCHANGED <<redis, stray>>
    BY <1>2 DEF FinishRequest, Ready, Fresh
  <2>2. call' = call
    BY <2>1 DEF TypeOK, Types
  <2> QED  BY <1>1, <2>1, <2>2 DEF redis
\* Killed on its way to setTTL, it leaves a stray key.
<1>3. ASSUME NEW r \in Request, Crash(r) PROVE KeyHasTtl'
  <2>1. /\ UNCHANGED redis /\ \A q \in Request \ {r} : call'[q] = call[q]
        /\ \A x \in Path : /\ x \in stray => x \in stray'
                           /\ Held(r, x) > 0 \/ HasX(r, x) => x \in stray'
    BY <1>3 DEF Crash, Leaves, Fresh, TypeOK, Types
  <2>2. ASSUME NEW x \in Path, Stamping(r, x) PROVE x \in stray'
    <3>1. /\ call[r].op \in {"share", "exclude", "up", "down"} /\ call[r].path = x
          /\ call[r].at = "stamp" /\ own[r][x] \in Nat
      BY <2>2 DEF Stamping, InCall, TypeOK, Types, CallConsistent
    <3>2. Held(r, x) > 0 \/ HasX(r, x)
      BY <3>1 DEF Held, HasX, Due, Gaining
    <3> QED  BY <2>1, <3>2
  <2> SUFFICES ASSUME NEW x \in Path \ stray', lock'[x] # NoKey, expiry'[x] = NoTtl
               PROVE  \E q \in Request : Stamping(q, x)'
    BY DEF KeyHasTtl, Stamping, InCall
  <2>3. PICK q \in Request : Stamping(q, x)
    BY <2>1 DEF KeyHasTtl, Stamping, InCall, redis
  <2>4. Stamping(q, x)'
    BY <2>1, <2>2, <2>3 DEF Stamping, InCall
  <2> QED  BY <2>4
<1>4. CASE Tick
  <2> DEFINE S == {p \in Path : lock[p] # NoKey /\ expiry[p] # NoTtl /\ expiry[p] <= now + 1}
  <2>1. Drop(S) /\ call' = call
    BY <1>4 DEF Tick, DropAny
  <2> HIDE DEF S
  <2>2. \A x \in Path : \/ lock'[x] = NoKey
                        \/ /\ lock'[x] = lock[x] /\ expiry'[x] = expiry[x]
                           /\ x \in stray' <=> x \in stray
    BY <2>1 DEF Drop
  <2> QED  BY <2>1, <2>2 DEF KeyHasTtl, InCall
<1>5. ASSUME NEW r \in Request, BeginReleaseAll(r) PROVE KeyHasTtl'
  BY <1>1, <1>5 DEF BeginReleaseAll, redis
<1>6. ASSUME NEW p \in Path, Recover(p) PROVE KeyHasTtl'
  BY <1>1, <1>6 DEF Recover, redis
<1> QED
  BY <1>1, <1>2, <1>3, <1>4, <1>5, <1>6, CallStepTtl, ClientStepTtl DEF Next, vars

\* No lock that never expires: for any number of requests and every TTL, a key
\* without a TTL belongs to a call that is about to set it, or to a request
\* that was killed there, although cas and inc leave the key without one.
THEOREM TtlFollows == Spec => []KeyHasTtl
<1>1. Init => KeyHasTtl
  BY DEF Init, KeyHasTtl
<1> QED
  BY <1>1, StepTtl, TypeCorrect, PTL DEF Spec
=============================================================================
