--------------------------- MODULE DBLockingProofs ---------------------------
(***************************************************************************)
(* Theorems about DBLocking, for any set of web requests and command line   *)
(* processes, any paths and any TTL.  A statement has one of a few effects  *)
(* on a row and on what its request counts there; ReleaseCached has one on  *)
(* each of the paths it gives back.  Covered bounds the row from below      *)
(* where it lost nothing (Effect keeps it), Bounded from above everywhere,  *)
(* also behind a loss (Fits keeps it).                                      *)
(***************************************************************************)
EXTENDS DBLocking, TallyProofs

\* What a request knows about itself: TypeOK, and that a web request keeps
\* every shared lock it holds and other processes keep none.
Consistent(r) ==
  /\ call[r].op = "none" <=> call[r] = Idle
  /\ call[r].op # "none" => call[r].path \in Path
  /\ call[r].op = "share" => /\ own[r][call[r].path] < MaxShared
                             /\ call[r].path \notin cached[r]
  /\ call[r].op = "exclude" => call[r].existing =
       IF own[r][call[r].path] = 0 /\ call[r].path \in cached[r] THEN 1 ELSE 0
  /\ IF r \in Web THEN \A p \in Path : own[r][p] > 0 => p \in cached[r]
                  ELSE cached[r] = {}

Known == Types /\ \A r \in Request : Consistent(r)

LEMMA KnownTypes == Known => TypeOK
  BY DEF Known, Consistent, TypeOK

\* A step of r leaves what the other requests know alone.
Others(r) == \A q \in Request \ {r} :
  own'[q] = own[q] /\ ownX'[q] = ownX[q] /\ cached'[q] = cached[q] /\ call'[q] = call[q]

LEMMA OthersKnow ==
  ASSUME Known, NEW r \in Request, Types', Others(r), Consistent(r)'
  PROVE  Known'
<1>1. ASSUME NEW q \in Request \ {r} PROVE Consistent(q)'
  <2>1. Consistent(q) BY DEF Known
  <2>2. own'[q] = own[q] /\ cached'[q] = cached[q] /\ call'[q] = call[q] BY DEF Others
  <2> QED BY <2>1, <2>2 DEF Consistent, Idle
<1> QED BY <1>1 DEF Known

-----------------------------------------------------------------------------
(* What a step does to a row and to what its request counts there.          *)

\* The part of CountCovers that is about one row.
Covered(p) ==
  /\ row[p] = NoRow => ~InUse(p)
  /\ row[p] \in Int /\ row[p] # -1 =>
       Total(p) <= row[p] /\ \A r \in Request : p \notin ownX[r]
  /\ row[p] = -1 =>
       /\ \A r \in Request : Counted(r, p) > 0 => r \in Web /\ p \in ownX[r]
       /\ \A r, q \in Request : p \in ownX[r] /\ p \in ownX[q] => r = q

\* The part of NothingLeaks that is about one row.
Bounded(p) ==
  /\ row[p] # NoRow /\ row[p] > 0 => row[p] <= Total(p)
  /\ row[p] = -1 => \E r \in Request : p \in ownX[r]

Covers == CountCovers /\ NothingLeaks

LEMMA CoversIs ==
  Covers <=> /\ \A p \in Path \ lapsed : Covered(p)
             /\ \A p \in Path \ stray : Bounded(p)
  BY DEF Covers, CountCovers, Covered, NothingLeaks, Bounded

SameX(r, p)    == p \in ownX'[r] <=> p \in ownX[r]
Same(r, p)     == Counted(r, p)' = Counted(r, p) /\ SameX(r, p)
Gone(r, p)     == Counted(r, p)' = 0 /\ p \notin ownX'[r]

\* What a step may do to a row that lost nothing.
Untouched(r, p) == row'[p] = row[p] /\ (Same(r, p) \/ Gone(r, p))
Spared(r, p)   == /\ row[p] # NoRow /\ row[p] > 0 /\ row'[p] = row[p] - 1
                  /\ Total(p) < row[p] /\ Same(r, p)
Shared(r, p)   == /\ row[p] # -1 /\ row'[p] = (IF row[p] = NoRow THEN 1 ELSE row[p] + 1)
                  /\ Counted(r, p)' = Counted(r, p) + 1 /\ SameX(r, p)
Returned(r, p) == /\ row[p] # NoRow /\ row[p] > 0 /\ row'[p] = row[p] - 1
                  /\ Counted(r, p)' = Counted(r, p) - 1 /\ SameX(r, p)
Excluded(r, p) == /\ \/ row[p] \in {NoRow, 0} /\ Counted(r, p)' = Counted(r, p)
                     \/ row[p] = 1 /\ Counted(r, p) = 1 /\ (Counted(r, p)' > 0 => r \in Web)
                  /\ row'[p] = -1 /\ p \in ownX'[r]
Lowered(r, p)  == /\ row[p] = -1 /\ row'[p] = 1 /\ p \in ownX[r] /\ p \notin ownX'[r]
                  /\ Counted(r, p)' = 1
Freed(r, p)    == /\ row'[p] = (IF row[p] = -1 THEN 0 ELSE row[p]) /\ p \in ownX[r]
                  /\ Gone(r, p) /\ Counted(r, p) = 0

Effect(r, p) == \/ Untouched(r, p) \/ Spared(r, p) \/ Shared(r, p) \/ Returned(r, p)
                \/ Excluded(r, p) \/ Lowered(r, p) \/ Freed(r, p)

\* What a step may do to any row that no killed request left behind.
Stays(r, p) == /\ row'[p] = row[p] /\ Counted(r, p)' >= Counted(r, p)
               /\ (row[p] = -1 /\ p \in ownX[r] => p \in ownX'[r])
Grows(r, p) == /\ row[p] = NoRow \/ row[p] >= 0
               /\ row'[p] = (IF row[p] = NoRow THEN 1 ELSE row[p] + 1)
               /\ Counted(r, p)' = Counted(r, p) + 1
Drops(r, p) == /\ row[p] # NoRow /\ row[p] > 0 /\ row'[p] = row[p] - 1
               /\ Counted(r, p)' \in {Counted(r, p), Counted(r, p) - 1}
Frees(p)    == row'[p] # -1 /\ (row'[p] = NoRow \/ row'[p] <= 0)
Fits(r, p)  == \/ Frees(p)
               \/ row'[p] = -1 /\ p \in ownX'[r]
               \/ row'[p] = -1 /\ row[p] = -1 /\ (p \in ownX[r] => p \in ownX'[r])
               \/ row'[p] = 1 /\ Counted(r, p)' > 0
               \/ Stays(r, p) \/ Grows(r, p) \/ Drops(r, p)

\* What is counted is a number within the bound, and its total is a tally.
CountsOK(p) ==
  /\ Counts(p) \in [Request -> 0..MaxShared]
  /\ \A r \in Request : Counts(p)[r] = Counted(r, p) /\ Counted(r, p) \in 0..MaxShared
  /\ Total(p) = Tally(Request, MaxShared, Counts(p)) /\ Total(p) \in Nat

LEMMA CountsType == ASSUME Types, NEW p \in Path PROVE CountsOK(p)
<1>1. ASSUME NEW r \in Request PROVE Counted(r, p) \in 0..MaxShared
  BY ConstantsAssumption DEF Types, Counted
<1>2. Counts(p) \in [Request -> 0..MaxShared] BY <1>1 DEF Counts
<1> QED BY <1>1, <1>2, TokensFinite, ConstantsAssumption DEF CountsOK, Counts, Total

\* The counts before and after a step of r, as functions a tally is taken of.
LEMMA CountsStep ==
  ASSUME Types, Types', NEW r \in Request, NEW p \in Path, Others(r)
  PROVE  \E f, g \in [Request -> 0..MaxShared] :
           /\ \A q \in Request : f[q] = Counted(q, p) /\ g[q] = Counted(q, p)'
           /\ \A q \in Request \ {r} : g[q] = f[q] /\ (p \in ownX'[q] <=> p \in ownX[q])
           /\ Total(p) = Tally(Request, MaxShared, f) /\ Total(p) \in Nat
           /\ Total(p)' = Tally(Request, MaxShared, g) /\ Total(p)' \in Nat
<1> DEFINE f == Counts(p)
           g == Counts(p)'
<1>1. /\ f \in [Request -> 0..MaxShared]
      /\ \A q \in Request : f[q] = Counted(q, p)
      /\ Total(p) = Tally(Request, MaxShared, f) /\ Total(p) \in Nat
  BY CountsType DEF CountsOK
<1>2. /\ g \in [Request -> 0..MaxShared]
      /\ \A q \in Request : g[q] = Counted(q, p)'
      /\ Total(p)' = Tally(Request, MaxShared, g) /\ Total(p)' \in Nat
  <2>1. (Types => CountsOK(p))' BY CountsType, PTL
  <2> QED BY <2>1 DEF CountsOK
<1>3. \A q \in Request \ {r} : g[q] = f[q] /\ (p \in ownX'[q] <=> p \in ownX[q])
  BY <1>1, <1>2 DEF Others, Counted
<1> HIDE DEF f, g
<1> QED BY <1>1, <1>2, <1>3

\* One step of one request keeps a row covered.
LEMMA EffectCovered ==
  ASSUME Types, Types', NEW r \in Request, NEW p \in Path,
         Covered(p), Others(r), Effect(r, p)
  PROVE  Covered(p)'
<1>1. PICK f, g \in [Request -> 0..MaxShared] :
        /\ \A q \in Request : f[q] = Counted(q, p) /\ g[q] = Counted(q, p)'
        /\ \A q \in Request \ {r} : g[q] = f[q] /\ (p \in ownX'[q] <=> p \in ownX[q])
        /\ Total(p) = Tally(Request, MaxShared, f) /\ Total(p) \in Nat
        /\ Total(p)' = Tally(Request, MaxShared, g) /\ Total(p)' \in Nat
  BY CountsStep
<1>2. \A q \in Request : f[q] \in 0..MaxShared /\ g[q] \in 0..MaxShared
  OBVIOUS
<1>4. row[p] \in Int \cup {NoRow} /\ row'[p] \in Int \cup {NoRow} /\ NoRow \notin Int
  BY ConstantsAssumption DEF Types
<1>5. g[r] <= f[r] => Total(p)' <= Total(p)
  <2> SUFFICES ASSUME g[r] <= f[r] PROVE Total(p)' <= Total(p) OBVIOUS
  <2>1. \A q \in Request : g[q] <= f[q] BY <1>1, <1>2
  <2> QED BY <1>1, <2>1, TallyMonotone, ConstantsAssumption
<1>6. g[r] = f[r] + 1 => Total(p)' = Total(p) + 1
  BY <1>1, TallyIncrement, ConstantsAssumption
<1>7. g[r] = f[r] - 1 => Total(p)' = Total(p) - 1
  BY <1>1, TallyDecrement, ConstantsAssumption
<1>8. Total(p) <= 1 /\ f[r] > 0 => f[r] = 1 /\ \A q \in Request \ {r} : f[q] = 0
  BY <1>1, TallyOne, ConstantsAssumption
<1>9. Total(p) = 0 <=> \A q \in Request : f[q] = 0
  BY <1>1, TallyZero, ConstantsAssumption
<1>10. Total(p)' = 0 <=> \A q \in Request : g[q] = 0
  BY <1>1, TallyZero, ConstantsAssumption
<1>11. CASE Untouched(r, p)
  <2>1. g[r] <= f[r] /\ row'[p] = row[p] /\ (p \in ownX'[r] => p \in ownX[r])
    BY <1>1, <1>2, <1>11 DEF Untouched, Same, SameX, Gone
  <2>2. \A q \in Request : /\ p \in ownX'[q] => p \in ownX[q]
                           /\ g[q] > 0 => f[q] > 0 /\ (p \in ownX[q] => p \in ownX'[q])
    BY <1>1, <1>2, <1>11 DEF Untouched, Same, SameX, Gone
  <2>3. (row[p] = NoRow => ~InUse(p)') /\ Total(p)' <= Total(p)
    BY <1>1, <1>5, <2>1, <2>2 DEF Covered, InUse
  <2> QED BY <1>1, <1>4, <2>1, <2>2, <2>3 DEF Covered
<1>12. CASE Spared(r, p)
  BY <1>1, <1>2, <1>4, <1>5, <1>12 DEF Covered, InUse, Spared, Same, SameX
<1>13. CASE Shared(r, p)
  BY <1>1, <1>2, <1>4, <1>6, <1>9, <1>13 DEF Covered, InUse, Shared, SameX
<1>14. CASE Returned(r, p)
  BY <1>1, <1>2, <1>4, <1>7, <1>14 DEF Covered, InUse, Returned, SameX
<1>15. CASE Excluded(r, p)
  <2>1. \A q \in Request \ {r} : f[q] = 0 /\ p \notin ownX[q]
    BY <1>1, <1>2, <1>4, <1>8, <1>9, <1>15 DEF Covered, InUse, Excluded
  <2>2. g[r] > 0 => r \in Web
    BY <1>1, <1>2, <1>4, <1>9, <1>15 DEF Covered, InUse, Excluded
  <2> QED BY <1>1, <1>4, <1>15, <2>1, <2>2 DEF Covered, InUse, Excluded
<1>16. CASE Lowered(r, p)
  <2>1. \A q \in Request \ {r} : g[q] = 0 /\ p \notin ownX'[q]
    BY <1>1, <1>2, <1>16 DEF Covered, Lowered
  <2>2. Total(p)' = 1
    <3> DEFINE z == [q \in Request |-> 0]
    <3>1. z \in [Request -> 0..MaxShared] /\ \A q \in Request : z[q] = 0
      BY ConstantsAssumption
    <3>2. g[r] = 1 BY <1>1, <1>16 DEF Lowered
    <3> HIDE DEF z
    <3>3. Tally(Request, MaxShared, z) = 0 BY <3>1, TallyZero, ConstantsAssumption
    <3>4. Tally(Request, MaxShared, g) = Tally(Request, MaxShared, z) + 1
      BY <2>1, <3>1, <3>2, TallyIncrement, ConstantsAssumption
    <3> QED BY <1>1, <3>3, <3>4
  <2> QED BY <1>4, <1>16, <2>1, <2>2 DEF Covered, Lowered
<1>17. CASE Freed(r, p)
  <2>1. row[p] = -1 BY <1>4, <1>17 DEF Covered, InUse, Freed
  <2>2. \A q \in Request : g[q] = 0 /\ p \notin ownX'[q]
    BY <1>1, <1>2, <1>17, <2>1 DEF Covered, Freed, Gone
  <2> QED BY <1>4, <1>10, <1>17, <2>1, <2>2 DEF Covered, Freed
<1> QED BY <1>11, <1>12, <1>13, <1>14, <1>15, <1>16, <1>17 DEF Effect

\* One step of one request leaves no more in a row than somebody counts.
LEMMA FitsBounded ==
  ASSUME Types, Types', NEW r \in Request, NEW p \in Path, Bounded(p), Others(r), Fits(r, p)
  PROVE  Bounded(p)'
<1>1. PICK f, g \in [Request -> 0..MaxShared] :
        /\ \A q \in Request : f[q] = Counted(q, p) /\ g[q] = Counted(q, p)'
        /\ \A q \in Request \ {r} : g[q] = f[q] /\ (p \in ownX'[q] <=> p \in ownX[q])
        /\ Total(p) = Tally(Request, MaxShared, f) /\ Total(p) \in Nat
        /\ Total(p)' = Tally(Request, MaxShared, g) /\ Total(p)' \in Nat
  BY CountsStep
<1>2. \A q \in Request : f[q] \in 0..MaxShared /\ g[q] \in 0..MaxShared
  OBVIOUS
<1>3. row[p] \in Int \cup {NoRow} /\ row'[p] \in Int \cup {NoRow} /\ NoRow \notin Int
  BY ConstantsAssumption DEF Types
<1>4. g[r] >= f[r] => Total(p)' >= Total(p)
  <2> SUFFICES ASSUME g[r] >= f[r] PROVE Total(p)' >= Total(p) OBVIOUS
  <2>1. \A q \in Request : f[q] <= g[q] BY <1>1, <1>2
  <2>2. Tally(Request, MaxShared, f) <= Tally(Request, MaxShared, g)
    BY <2>1, TallyMonotone, ConstantsAssumption
  <2> QED BY <1>1, <2>2
<1>5. g[r] = f[r] + 1 => Total(p)' = Total(p) + 1
  BY <1>1, TallyIncrement, ConstantsAssumption
<1>6. g[r] = f[r] - 1 => Total(p)' = Total(p) - 1
  BY <1>1, TallyDecrement, ConstantsAssumption
<1>7. g[r] > 0 => Total(p)' > 0
  BY <1>1, <1>2, TallyZero, ConstantsAssumption
<1>8. CASE Frees(p) \/ (row'[p] = -1 /\ p \in ownX'[r])
  BY <1>3, <1>8 DEF Bounded, Frees
<1>9. CASE row'[p] = -1 /\ row[p] = -1 /\ (p \in ownX[r] => p \in ownX'[r])
  BY <1>1, <1>3, <1>9 DEF Bounded
<1>10. CASE row'[p] = 1 /\ Counted(r, p)' > 0
  BY <1>1, <1>3, <1>7, <1>10 DEF Bounded
<1>11. CASE Stays(r, p)
  <2>1. Total(p)' >= Total(p) BY <1>1, <1>2, <1>4, <1>11 DEF Stays
  <2> QED BY <1>1, <1>3, <1>11, <2>1 DEF Stays, Bounded
<1>12. CASE Grows(r, p)
  <2>1. Total(p)' = Total(p) + 1 BY <1>1, <1>5, <1>12 DEF Grows
  <2> QED BY <1>1, <1>3, <1>12, <2>1 DEF Grows, Bounded
<1>13. CASE Drops(r, p)
  <2>1. Total(p)' >= Total(p) - 1 BY <1>1, <1>2, <1>4, <1>6, <1>13 DEF Drops
  <2> QED BY <1>1, <1>3, <1>13, <2>1 DEF Drops, Bounded
<1> QED BY <1>8, <1>9, <1>10, <1>11, <1>12, <1>13 DEF Fits

\* The rest of the state of r and the other rows stay.
OneRow(r, p) == \A x \in Path \ {p} :
  /\ row'[x] = row[x] /\ own'[r][x] = own[r][x]
  /\ (x \in ownX'[r] <=> x \in ownX[r]) /\ (x \in cached'[r] <=> x \in cached[r])

\* From a step of one request to the whole invariant.
LEMMA StepCovered ==
  ASSUME Known, Covers, NEW r \in Request, Types', Others(r), Consistent(r)',
         lapsed \subseteq lapsed', stray \subseteq stray',
         \A x \in Path \ lapsed' : Effect(r, x), \A x \in Path \ stray' : Fits(r, x)
  PROVE  Known' /\ Covers'
<1>1. Known' BY OthersKnow
<1>2. ASSUME NEW x \in Path \ lapsed' PROVE Covered(x)'
  <2>1. Covered(x) /\ Effect(r, x) BY CoversIs
  <2> QED BY <2>1, EffectCovered DEF Known
<1>3. ASSUME NEW x \in Path \ stray' PROVE Bounded(x)'
  <2>1. Bounded(x) /\ Fits(r, x) BY CoversIs
  <2> QED BY <2>1, FitsBounded DEF Known
<1>4. Covers' BY <1>2, <1>3 DEF Covers, CountCovers, Covered, NothingLeaks, Bounded
<1> QED BY <1>1, <1>4

\* What a step of r on p may do to the rest of the state.
Rests(p) == UNCHANGED <<now, ending, crashes, stray>> /\ lapsed' \in {lapsed, lapsed \cup {p}}

Moves(r, p) == /\ Types' /\ Others(r) /\ Consistent(r)' /\ Rests(p) /\ OneRow(r, p)
               /\ p \in lapsed' \/ Effect(r, p)
               /\ Fits(r, p)

LEMMA MovesCovered ==
  ASSUME Known, Covers, NEW r \in Request, NEW p \in Path, Moves(r, p)
  PROVE  Known' /\ Covers'
<1>1. ASSUME NEW x \in Path \ {p} PROVE Untouched(r, x) /\ Stays(r, x)
  <2>1. Counted(r, x) \in 0..MaxShared BY CountsType DEF Known, CountsOK
  <2>2. Counted(r, x)' = Counted(r, x) BY DEF Moves, OneRow, Counted
  <2> QED BY <2>1, <2>2 DEF Moves, OneRow, Untouched, Stays, Same, SameX
<1>2. \A x \in Path \ lapsed' : Effect(r, x) BY <1>1 DEF Moves, Effect
<1>3. \A x \in Path : Fits(r, x) BY <1>1 DEF Moves, Fits
<1> QED BY <1>2, <1>3, StepCovered DEF Moves, Rests

-----------------------------------------------------------------------------
(* One lemma per action.                                                    *)

\* What r holds and counts on p.
LEMMA MineIs ==
  ASSUME Known, NEW r \in Request, NEW p \in Path
  PROVE  /\ Consistent(r) /\ own[r] \in [Path -> 0..MaxShared]
         /\ Counted(r, p) \in 0..MaxShared
         /\ r \in Web => Counted(r, p) = IF p \in cached[r] THEN 1 ELSE 0
         /\ r \notin Web => Counted(r, p) = own[r][p] /\ p \notin cached[r]
         /\ own[r][p] > 0 => Counted(r, p) > 0
  BY CountsType DEF Known, Types, CountsOK, Counted, Consistent

\* All that is left to know of a request that is in no call.
LEMMA ReadyConsistent ==
  ASSUME NEW r \in Request, call'[r] = Idle,
         IF r \in Web THEN \A p \in Path : own'[r][p] > 0 => p \in cached'[r] ELSE cached'[r] = {}
  PROVE  Consistent(r)'
  BY DEF Consistent, Idle

\* The shared locks of r on p are n in the bookkeeping, and kept or not.
Marks(r, p, n) ==
  /\ own' \in [Request -> [Path -> 0..MaxShared]] /\ cached' \in [Request -> SUBSET Path]
  /\ own'[r][p] = n
  /\ \A x \in Path \ {p} : own'[r][x] = own[r][x] /\ (x \in cached'[r] <=> x \in cached[r])
  /\ \A q \in Request \ {r} : own'[q] = own[q] /\ cached'[q] = cached[q]

LEMMA MarkSharedFacts ==
  ASSUME Known, NEW r \in Request, NEW p \in Path, MarkShared(r, p), own[r][p] < MaxShared
  PROVE  Marks(r, p, own[r][p] + 1) /\ (p \in cached'[r] <=> r \in Web) /\ ownX' = ownX
<1>1. own[r][p] + 1 \in 0..MaxShared BY ConstantsAssumption DEF Known, Types
<1>2. /\ own' \in [Request -> [Path -> 0..MaxShared]] /\ own'[r][p] = own[r][p] + 1
      /\ \A x \in Path \ {p} : own'[r][x] = own[r][x]
      /\ \A q \in Request \ {r} : own'[q] = own[q]
  BY <1>1 DEF MarkShared, Known, Types
<1>3. r \notin Web => p \notin cached[r] BY MineIs
<1>4. /\ cached' \in [Request -> SUBSET Path] /\ (p \in cached'[r] <=> r \in Web)
      /\ \A x \in Path \ {p} : x \in cached'[r] <=> x \in cached[r]
      /\ \A q \in Request \ {r} : cached'[q] = cached[q]
  BY <1>3 DEF MarkShared, Known, Types
<1> QED BY <1>2, <1>4 DEF MarkShared, Marks

\* A step after which r is in no call and keeps all the shared locks it has.
LEMMA MarksMove ==
  ASSUME Known, NEW r \in Request, NEW p \in Path, NEW n, Marks(r, p, n), call'[r] = Idle,
         r \notin Web => p \notin cached'[r], r \in Web /\ n > 0 => p \in cached'[r]
  PROVE  /\ Consistent(r)'
         /\ Counted(r, p)' = IF r \in Web THEN IF p \in cached'[r] THEN 1 ELSE 0 ELSE n
<1>1. Consistent(r) /\ cached[r] \in SUBSET Path /\ cached'[r] \in SUBSET Path
  BY DEF Known, Types, Marks
<1>2. CASE r \in Web
  <2>1. \A x \in Path : own'[r][x] > 0 => x \in cached'[r] BY <1>1, <1>2 DEF Marks, Consistent
  <2> QED BY <1>2, <2>1, ReadyConsistent DEF Counted, Marks
<1>3. CASE r \notin Web
  <2>1. cached[r] = {} BY <1>1, <1>3 DEF Consistent
  <2>2. cached'[r] = {} BY <1>1, <1>3, <2>1 DEF Marks
  <2> QED BY <1>3, <2>2, ReadyConsistent DEF Counted, Marks
<1> QED BY <1>2, <1>3

CallType == [op : {"none", "share", "exclude"}, path : Path \cup {NoPath},
             expire : Int, existing : {0, 1}]

\* Only the row of p, the exclusive lock of r on p and the call of r may change.
Rows(p)     == /\ row' \in [Path -> Int \cup {NoRow}] /\ ttl' \in [Path -> Int]
               /\ \A x \in Path \ {p} : row'[x] = row[x]
OwnX(r, p)  == /\ ownX' \in [Request -> SUBSET Path]
               /\ \A q \in Request \ {r} : ownX'[q] = ownX[q]
               /\ \A x \in Path \ {p} : x \in ownX'[r] <=> x \in ownX[r]
Called(r)   == /\ call' \in [Request -> CallType] /\ \A q \in Request \ {r} : call'[q] = call[q]
Back(r) == Called(r) /\ call'[r] = Idle

LEMMA IdleFacts == Idle \in CallType
  BY ConstantsAssumption DEF Idle, CallType

LEMMA CallFacts ==
  ASSUME Known, NEW r \in Request
  PROVE  /\ UNCHANGED call => Called(r)
         /\ Return(r) => Back(r)
         /\ \A c \in CallType : call' = [call EXCEPT ![r] = c] => Called(r) /\ call'[r] = c
<1>1. call \in [Request -> CallType] BY DEF Known, Types, CallType
<1> QED BY <1>1, IdleFacts DEF Return, Called, Back

LEMMA RowFacts ==
  ASSUME Known, NEW p \in Path
  PROVE  /\ Keep => Rows(p) /\ row'[p] = row[p]
         /\ \A v, t \in Int : Write(p, v, t) => Rows(p) /\ row'[p] = v
         /\ \A v \in Int : row' = [row EXCEPT ![p] = v] /\ ttl' = ttl => Rows(p) /\ row'[p] = v
  BY DEF Known, Types, Keep, Write, Rows

LEMMA OwnXFacts ==
  ASSUME Known, NEW r \in Request, NEW p \in Path
  PROVE  /\ UNCHANGED ownX => OwnX(r, p) /\ (p \in ownX'[r] <=> p \in ownX[r])
         /\ ownX' = [ownX EXCEPT ![r] = @ \cup {p}] => OwnX(r, p) /\ p \in ownX'[r]
         /\ ownX' = [ownX EXCEPT ![r] = @ \ {p}] => OwnX(r, p) /\ p \notin ownX'[r]
  BY DEF Known, Types, OwnX

\* A step of r on p that ends its call.
LEMMA Ends ==
  ASSUME Known, Covers, NEW r \in Request, NEW p \in Path, NEW n, Marks(r, p, n),
         r \notin Web => p \notin cached'[r], r \in Web /\ n > 0 => p \in cached'[r],
         Back(r), Rows(p), OwnX(r, p), Rests(p), p \in lapsed' \/ Effect(r, p), Fits(r, p)
  PROVE  Known' /\ Covers'
<1>1. UNCHANGED <<now, ending, crashes, stray>> /\ lapsed' \in SUBSET Path
  BY DEF Rests, Known, Types
<1>2. Types' BY <1>1 DEF Known, Types, Marks, Rows, OwnX, Back, Called, CallType
<1>3. Others(r) BY DEF Others, Marks, OwnX, Back, Called
<1>4. Consistent(r)' BY MarksMove DEF Back
<1>5. OneRow(r, p) BY DEF OneRow, Marks, Rows, OwnX
<1> QED BY <1>1, <1>2, <1>3, <1>4, <1>5, MovesCovered DEF Moves

LEMMA RestIs == ASSUME NEW p \in Path, Rest PROVE Rests(p) /\ lapsed' = lapsed
  BY DEF Rest, Rests

\* The shared locks of r as they are.
LEMMA Unmarked ==
  ASSUME Known, NEW r \in Request, NEW p \in Path, UNCHANGED <<own, cached>>
  PROVE  /\ Marks(r, p, own[r][p])
         /\ r \notin Web => p \notin cached'[r]
         /\ r \in Web /\ own[r][p] > 0 => p \in cached'[r]
         /\ Counted(r, p)' = Counted(r, p)
  BY MineIs DEF Known, Types, Marks, Consistent, Counted

\* A step that changes nothing but the call of r.
LEMMA OnlyCalls ==
  ASSUME Known, Covers, NEW r \in Request, NEW p \in Path, Keep, UNCHANGED mine,
         Called(r), Consistent(r)', Rest
  PROVE  Known' /\ Covers'
<1>1. UNCHANGED <<now, ending, crashes, lapsed, stray, row, ttl, own, ownX, cached>>
  BY DEF Rest, Keep, mine
<1>2. Types' BY <1>1 DEF Known, Types, Called, CallType
<1>3. Others(r) BY <1>1 DEF Others, Called
<1>4. OneRow(r, p) BY <1>1 DEF OneRow
<1>5. Untouched(r, p) /\ Stays(r, p)
  BY <1>1, MineIs, Unmarked DEF Untouched, Stays, Same, SameX
<1> QED BY <1>2, <1>3, <1>4, <1>5, RestIs, MovesCovered DEF Moves, Effect, Fits

LEMMA Throws ==
  ASSUME Known, Covers, NEW r \in Request, NEW p \in Path, Keep, UNCHANGED mine,
         Back(r), Rest
  PROVE  Known' /\ Covers'
<1>1. Consistent(r) BY DEF Known
<1>2. UNCHANGED <<own, cached>> BY DEF mine
<1>3. Consistent(r)' BY <1>1, <1>2, ReadyConsistent DEF Back, Consistent
<1> QED BY <1>3, OnlyCalls DEF Back

LEMMA ReuseSharedKeeps ==
  ASSUME Known, Covers, NEW r \in Request, NEW p \in Path, ReuseShared(r, p)
  PROVE  Known' /\ Covers'
<1>0. own[r][p] < MaxShared /\ p \in cached[r] /\ MarkShared(r, p) /\ Keep /\ Rest
  BY DEF ReuseShared
<1>1. r \in Web BY <1>0, MineIs
<1>2. Marks(r, p, own[r][p] + 1) /\ p \in cached'[r] /\ ownX' = ownX BY <1>0, <1>1, MarkSharedFacts
<1>3. Back(r) BY CallFacts DEF ReuseShared, Ready, Back
<1>4. Counted(r, p)' = 1 BY <1>1, <1>2, <1>3, MarksMove DEF Back
<1>5. Untouched(r, p) /\ Stays(r, p)
  BY <1>0, <1>1, <1>2, <1>4, MineIs, RowFacts, OwnXFacts DEF Untouched, Stays, Same, SameX
<1> QED BY <1>0, <1>1, <1>2, <1>3, <1>5, RestIs, RowFacts, OwnXFacts, Ends DEF Effect, Fits

\* A shared lock that was not kept, and a row that counts it.
LEMMA SharesRow ==
  ASSUME Known, Covers, NEW r \in Request, NEW p \in Path, own[r][p] < MaxShared,
         p \notin cached[r], MarkShared(r, p), Back(r), Rest, NEW t \in Int,
         row[p] = NoRow \/ (row[p] # -1 /\ row[p] >= 0),
         Write(p, IF row[p] = NoRow THEN 1 ELSE row[p] + 1, t)
  PROVE  Known' /\ Covers'
<1>1. Marks(r, p, own[r][p] + 1) /\ (p \in cached'[r] <=> r \in Web) /\ ownX' = ownX BY MarkSharedFacts
<1>2. Counted(r, p)' = Counted(r, p) + 1 BY <1>1, MarksMove, MineIs DEF Back
<1>3. row[p] \in Int \cup {NoRow} /\ row[p] # -1 BY ConstantsAssumption DEF Known, Types
<1>4. Rows(p) /\ row'[p] = IF row[p] = NoRow THEN 1 ELSE row[p] + 1 BY <1>3, RowFacts
<1>5. OwnX(r, p) /\ SameX(r, p) BY <1>1, OwnXFacts DEF SameX
<1>6. Shared(r, p) /\ Grows(r, p) BY <1>2, <1>3, <1>4, <1>5 DEF Shared, Grows
<1> QED BY <1>1, <1>4, <1>5, <1>6, RestIs, Ends DEF Effect, Fits

LEMMA InsertSharedKeeps ==
  ASSUME Known, Covers, NEW r \in Request, NEW p \in Path, InsertShared(r, p)
  PROVE  Known' /\ Covers'
<1>0. /\ own[r][p] < MaxShared /\ p \notin cached[r] /\ Rest /\ call[r] = Idle
      /\ now + Ttl \in Int /\ NoRow # -1
  BY ConstantsAssumption DEF InsertShared, Ready, Known, Types
<1>1. CASE row[p] = NoRow /\ Write(p, 1, now + Ttl) /\ MarkShared(r, p) /\ UNCHANGED call
  <2>1. Back(r) BY <1>0, <1>1, CallFacts DEF Back
  <2> QED BY <1>0, <1>1, <2>1, SharesRow
<1> DEFINE c == [op |-> "share", path |-> p, expire |-> now + Ttl, existing |-> 0]
<1>2. CASE call' = [call EXCEPT ![r] = c] /\ Keep /\ UNCHANGED mine
  <2>1. c \in CallType /\ c # Idle BY <1>0 DEF CallType, Idle
  <2>2. Called(r) /\ call'[r] = c BY <1>2, <2>1, CallFacts
  <2>3. Consistent(r)'
    BY <1>0, <1>2, <2>1, <2>2, MineIs DEF Consistent, mine
  <2> QED BY <1>0, <1>2, <2>2, <2>3, OnlyCalls
<1> QED BY <1>1, <1>2 DEF InsertShared

LEMMA PathOfCall ==
  ASSUME Known, NEW r \in Request, call[r].op # "none"
  PROVE  /\ call[r].path \in Path /\ call[r].expire \in Int /\ Consistent(r)
  BY DEF Known, Types, Consistent

LEMMA UpdateSharedKeeps ==
  ASSUME Known, Covers, NEW r \in Request, UpdateShared(r)
  PROVE  Known' /\ Covers'
<1>0. PICK p \in Path : p = call[r].path BY PathOfCall DEF UpdateShared
<1>1. /\ own[r][p] < MaxShared /\ p \notin cached[r] /\ call[r].expire \in Int /\ Rest
      /\ row[p] \in Int \cup {NoRow}
  BY <1>0, PathOfCall DEF UpdateShared, Consistent, Known, Types
<1>2. CASE /\ row[p] # NoRow /\ row[p] >= 0
           /\ Write(p, row[p] + 1, call[r].expire) /\ MarkShared(r, p) /\ Return(r)
  BY <1>1, <1>2, CallFacts, SharesRow
<1>3. CASE Throw(r) BY <1>1, <1>3, CallFacts, Throws DEF Throw
<1> QED BY <1>0, <1>2, <1>3 DEF UpdateShared

\* A lock that becomes exclusive where the row counts nobody's lock, or the kept
\* one of the same request.
LEMMA ExcludesRow ==
  ASSUME Known, Covers, NEW r \in Request, NEW p \in Path,
         row[p] \in {NoRow, 0} \/ (row[p] = 1 /\ r \in Web /\ p \in cached[r]),
         MarkExclusive(r, p), Back(r), Rest, NEW t \in Int, Write(p, -1, t)
  PROVE  Known' /\ Covers'
<1>1. Rows(p) /\ row'[p] = -1 BY RowFacts
<1>2. OwnX(r, p) /\ p \in ownX'[r] BY OwnXFacts DEF MarkExclusive
<1>3. UNCHANGED <<own, cached>> BY DEF MarkExclusive
<1>4. Excluded(r, p) BY <1>1, <1>2, <1>3, Unmarked, MineIs DEF Excluded
<1> QED BY <1>1, <1>2, <1>3, <1>4, Unmarked, RestIs, Ends DEF Effect, Fits

LEMMA InsertExclusiveKeeps ==
  ASSUME Known, Covers, NEW r \in Request, NEW p \in Path, InsertExclusive(r, p)
  PROVE  Known' /\ Covers'
<1>0. Rest /\ call[r] = Idle /\ now + Ttl \in Int
  BY ConstantsAssumption DEF InsertExclusive, Ready, Known, Types
<1>1. CASE row[p] = NoRow /\ Write(p, -1, now + Ttl) /\ MarkExclusive(r, p) /\ UNCHANGED call
  <2>1. Back(r) BY <1>0, <1>1, CallFacts DEF Back
  <2> QED BY <1>0, <1>1, <2>1, ExcludesRow
<1> DEFINE c == [op |-> "exclude", path |-> p, expire |-> now + Ttl,
                 existing |-> IF own[r][p] = 0 /\ p \in cached[r] THEN 1 ELSE 0]
<1>2. CASE call' = [call EXCEPT ![r] = c] /\ Keep /\ UNCHANGED mine
  <2>1. c \in CallType /\ c # Idle BY <1>0 DEF CallType, Idle
  <2>2. Called(r) /\ call'[r] = c BY <1>2, <2>1, CallFacts
  <2>3. Consistent(r)'
    BY <1>0, <1>2, <2>1, <2>2, MineIs DEF Consistent, mine
  <2> QED BY <1>0, <1>2, <2>2, <2>3, OnlyCalls
<1> QED BY <1>1, <1>2 DEF InsertExclusive

LEMMA UpdateExclusiveKeeps ==
  ASSUME Known, Covers, NEW r \in Request, UpdateExclusive(r)
  PROVE  Known' /\ Covers'
<1>0. PICK p \in Path : p = call[r].path BY PathOfCall DEF UpdateExclusive
<1>1. /\ call[r].expire \in Int /\ Rest
      /\ call[r].existing = IF own[r][p] = 0 /\ p \in cached[r] THEN 1 ELSE 0
  BY <1>0, PathOfCall DEF UpdateExclusive, Consistent
<1>2. CASE row[p] = call[r].existing /\ Write(p, -1, call[r].expire) /\ MarkExclusive(r, p) /\ Return(r)
  <2>1. row[p] = 0 \/ (row[p] = 1 /\ r \in Web /\ p \in cached[r]) BY <1>1, <1>2, MineIs
  <2> QED BY <1>1, <1>2, <2>1, CallFacts, ExcludesRow
<1>3. CASE Throw(r) BY <1>1, <1>3, CallFacts, Throws DEF Throw
<1> QED BY <1>0, <1>2, <1>3 DEF UpdateExclusive

\* Where somebody counts, the row does, or he writes.
LEMMA CountedInRow ==
  ASSUME Known, Covers, NEW r \in Request, NEW p \in Path \ lapsed, Counted(r, p) > 0
  PROVE  /\ row[p] # NoRow
         /\ row[p] > 0 \/ (row[p] = -1 /\ r \in Web /\ p \in ownX[r])
<1>1. Covered(p) /\ row[p] \in Int \cup {NoRow} BY CoversIs DEF Known, Types
<1>2. row[p] # NoRow BY <1>1 DEF Covered, InUse
<1>3. CASE row[p] = -1 BY <1>1, <1>2, <1>3 DEF Covered
<1>4. CASE row[p] # -1
  <2>1. Counted(r, p) \in 0..MaxShared BY CountsType DEF Known, CountsOK
  <2>2. Total(p) \in Nat /\ Total(p) # 0
    BY <2>1, CountsType, TallyZero, ConstantsAssumption DEF Known, CountsOK
  <2> QED BY <1>1, <1>2, <1>4, <2>2 DEF Covered
<1> QED BY <1>3, <1>4

LEMMA ReleaseSharedKeeps ==
  ASSUME Known, Covers, NEW r \in Request, NEW p \in Path, ReleaseShared(r, p)
  PROVE  Known' /\ Covers'
<1> DEFINE n == IF own[r][p] > 0 THEN own[r][p] - 1 ELSE 0
<1>0. own[r][p] \in 0..MaxShared /\ n \in 0..MaxShared /\ row[p] \in Int \cup {NoRow}
  BY ConstantsAssumption DEF Known, Types
<1>1. Marks(r, p, n) /\ UNCHANGED <<cached, ownX>>
  BY <1>0 DEF ReleaseShared, Known, Types, Marks
<1>2. Back(r) /\ Rests(p) /\ lapsed \subseteq lapsed'
  BY CallFacts DEF ReleaseShared, Ready, Back, Rests
<1>3. /\ p \in cached'[r] <=> p \in cached[r]
      /\ r \notin Web => p \notin cached'[r]
      /\ r \in Web /\ n > 0 => p \in cached'[r]
  BY <1>0, <1>1, MineIs DEF Consistent
<1>4. OwnX(r, p) /\ SameX(r, p) /\ (p \in ownX[r] => p \in ownX'[r])
  BY <1>1, OwnXFacts DEF SameX
<1>5. Counted(r, p) \in 0..MaxShared /\ Counted(r, p)' = IF r \in Web THEN Counted(r, p) ELSE n
  BY <1>1, <1>2, <1>3, MarksMove, MineIs DEF Back
<1>6. r \notin Web => Counted(r, p) = own[r][p] BY MineIs
<1>7. Rows(p) /\ row'[p] = IF r \in Web THEN row[p] ELSE Decremented(row[p])
  BY <1>0 DEF ReleaseShared, Decremented, Rows, Known, Types
<1>8. (p \in lapsed' \/ Effect(r, p)) /\ Fits(r, p)
  <2>1. CASE r \in Web
    BY <1>4, <1>5, <1>7, <2>1 DEF Effect, Untouched, Same, Fits, Stays
  <2>2. CASE r \notin Web /\ row[p] # NoRow /\ row[p] > 0 /\ own[r][p] > 0
    BY <1>0, <1>4, <1>5, <1>6, <1>7, <2>2 DEF Effect, Returned, Fits, Drops, Decremented
  <2>3. CASE r \notin Web /\ row[p] # NoRow /\ row[p] > 0 /\ own[r][p] = 0
    <3>1. row'[p] = row[p] - 1 /\ row' # row /\ Same(r, p)
      BY <1>0, <1>4, <1>5, <1>6, <1>7, <2>3 DEF Decremented, Same
    <3>2. Total(p) \in Nat BY CountsType DEF Known, CountsOK
    <3>3. p \in lapsed' \/ Total(p) < row[p] BY <1>0, <2>3, <3>1, <3>2 DEF ReleaseShared
    <3> QED BY <2>3, <3>1, <3>3 DEF Effect, Spared, Fits, Drops, Same
  <2>4. CASE r \notin Web /\ (row[p] = NoRow \/ ~(row[p] > 0))
    <3>1. row'[p] = row[p] BY <1>7, <2>4 DEF Decremented
    <3>2. own[r][p] = 0 \/ p \in lapsed BY <1>0, <1>6, <2>4, CountedInRow
    <3>3. own[r][p] = 0 => Same(r, p) BY <1>0, <1>4, <1>5, <1>6, <2>4 DEF Same
    <3>4. Fits(r, p) BY <1>0, <1>4, <2>4, <3>1 DEF Fits, Frees
    <3> QED BY <1>2, <3>1, <3>2, <3>3, <3>4 DEF Effect, Untouched
  <2> QED BY <1>0, <2>1, <2>2, <2>3, <2>4
<1> HIDE DEF n
<1> QED BY <1>1, <1>2, <1>3, <1>4, <1>7, <1>8, Ends

LEMMA ReleaseExclusiveKeeps ==
  ASSUME Known, Covers, NEW r \in Request, NEW p \in Path, ReleaseExclusive(r, p)
  PROVE  Known' /\ Covers'
<1>1. UNCHANGED <<own, cached>> /\ Rests(p) /\ p \in ownX[r] /\ lapsed \subseteq lapsed'
  BY DEF ReleaseExclusive, Rests
<1>2. Back(r) BY CallFacts DEF ReleaseExclusive, Ready, Back
<1>3. OwnX(r, p) /\ p \notin ownX'[r] BY OwnXFacts DEF ReleaseExclusive
<1>4. Rows(p) /\ row'[p] = IF row[p] = -1 THEN 0 ELSE row[p]
  BY DEF ReleaseExclusive, Known, Types, Rows
<1>5. Counted(r, p)' = Counted(r, p) /\ Counted(r, p) \in 0..MaxShared BY <1>1, Unmarked, MineIs
<1>6. p \in lapsed' \/ Counted(r, p) = 0
  <2>1. p \in cached[r] => p \in lapsed' BY DEF ReleaseExclusive
  <2>2. CASE p \notin cached[r] /\ r \in Web BY <2>2, MineIs
  <2>3. CASE r \notin Web /\ p \notin lapsed
    <3>1. Covered(p) /\ row[p] \in Int \cup {NoRow} BY <2>3, CoversIs DEF Known, Types
    <3>2. row[p] = -1 BY <1>1, <3>1 DEF Covered, InUse
    <3> QED BY <1>5, <2>3, <3>1, <3>2 DEF Covered
  <2> QED BY <1>1, <2>1, <2>2, <2>3
<1>7. p \in lapsed' \/ Freed(r, p) BY <1>1, <1>3, <1>4, <1>5, <1>6 DEF Freed, Gone
<1>8. Fits(r, p)
  <2>1. CASE row[p] = -1 BY <1>4, <2>1 DEF Fits, Frees
  <2>2. CASE row[p] # -1 /\ row'[p] = row[p]
    BY <1>5, <2>2, <1>3 DEF Fits, Stays
  <2> QED BY <1>4, <2>1, <2>2
<1> QED BY <1>1, <1>2, <1>3, <1>4, <1>7, <1>8, Unmarked, Ends DEF Effect

\* changeLock that finds another row than it needs.
LEMMA Refuses ==
  ASSUME Known, Covers, NEW r \in Request, NEW p \in Path, Ready(r), Keep, UNCHANGED mine,
         UNCHANGED call, Rest
  PROVE  Known' /\ Covers'
  BY CallFacts, Throws DEF Ready, Back

LEMMA ChangeToSharedKeeps ==
  ASSUME Known, Covers, NEW r \in Request, NEW p \in Path, ChangeToShared(r, p)
  PROVE  Known' /\ Covers'
<1>1. /\ Ready(r) /\ Rest /\ UNCHANGED call /\ p \in ownX[r] /\ own[r][p] < MaxShared
      /\ now + Ttl \in Int
  BY ConstantsAssumption DEF ChangeToShared, Known, Types
<1>2. CASE Keep /\ UNCHANGED mine BY <1>1, <1>2, Refuses
<1>3. CASE /\ row[p] = -1 /\ Write(p, 1, now + Ttl) /\ own' = [own EXCEPT ![r][p] = @ + 1]
           /\ ownX' = [ownX EXCEPT ![r] = @ \ {p}]
           /\ cached' = IF r \in Web THEN [cached EXCEPT ![r] = @ \cup {p}] ELSE cached
  <2>1. own[r][p] + 1 \in 0..MaxShared BY <1>1, ConstantsAssumption DEF Known, Types
  <2>2. Marks(r, p, own[r][p] + 1) /\ (p \in cached'[r] <=> r \in Web)
    <3>1. r \notin Web => p \notin cached[r] BY MineIs
    <3>2. /\ own' \in [Request -> [Path -> 0..MaxShared]] /\ own'[r][p] = own[r][p] + 1
          /\ \A x \in Path \ {p} : own'[r][x] = own[r][x]
          /\ \A q \in Request \ {r} : own'[q] = own[q]
      BY <1>3, <2>1 DEF Known, Types
    <3>3. /\ cached' \in [Request -> SUBSET Path] /\ (p \in cached'[r] <=> r \in Web)
          /\ \A x \in Path \ {p} : x \in cached'[r] <=> x \in cached[r]
          /\ \A q \in Request \ {r} : cached'[q] = cached[q]
      BY <1>3, <3>1 DEF Known, Types
    <3> QED BY <3>2, <3>3 DEF Marks
  <2>3. Back(r) BY <1>1, CallFacts DEF Ready, Back
  <2>4. OwnX(r, p) /\ p \notin ownX'[r] BY <1>3, OwnXFacts
  <2>5. Rows(p) /\ row'[p] = 1 BY <1>1, <1>3, RowFacts
  <2>6. Counted(r, p)' = IF r \in Web THEN 1 ELSE Counted(r, p) + 1
    BY <2>2, <2>3, MarksMove, MineIs DEF Back
  <2>7. Counted(r, p) \in 0..MaxShared BY MineIs
  <2>8. p \in lapsed \/ Lowered(r, p)
    <3>1. p \in lapsed \/ r \in Web \/ Counted(r, p) = 0
      BY <1>3, <2>7, CoversIs DEF Covered
    <3> QED BY <1>1, <1>3, <2>4, <2>5, <2>6, <3>1 DEF Lowered
  <2>9. Fits(r, p) BY <2>5, <2>6, <2>7 DEF Fits
  <2> QED BY <1>1, <2>2, <2>3, <2>4, <2>5, <2>8, <2>9, RestIs, Ends DEF Effect
<1> QED BY <1>2, <1>3 DEF ChangeToShared

LEMMA ChangeToExclusiveKeeps ==
  ASSUME Known, Covers, NEW r \in Request, NEW p \in Path, ChangeToExclusive(r, p)
  PROVE  Known' /\ Covers'
<1>1. Ready(r) /\ Rest /\ UNCHANGED call /\ now + Ttl \in Int
  BY ConstantsAssumption DEF ChangeToExclusive, Known, Types
<1>2. CASE Keep /\ UNCHANGED mine BY <1>1, <1>2, Refuses
<1>3. CASE /\ own[r][p] = 1 /\ row[p] = 1 /\ Write(p, -1, now + Ttl)
           /\ own' = [own EXCEPT ![r][p] = 0] /\ ownX' = [ownX EXCEPT ![r] = @ \cup {p}]
           /\ cached' = IF r \in Web THEN [cached EXCEPT ![r] = @ \ {p}] ELSE cached
  <2>1. Marks(r, p, 0) /\ p \notin cached'[r]
    <3>1. r \notin Web => p \notin cached[r] BY MineIs
    <3>2. /\ own' \in [Request -> [Path -> 0..MaxShared]] /\ own'[r][p] = 0
          /\ \A x \in Path \ {p} : own'[r][x] = own[r][x]
          /\ \A q \in Request \ {r} : own'[q] = own[q]
      BY <1>3, ConstantsAssumption DEF Known, Types
    <3>3. /\ cached' \in [Request -> SUBSET Path] /\ p \notin cached'[r]
          /\ \A x \in Path \ {p} : x \in cached'[r] <=> x \in cached[r]
          /\ \A q \in Request \ {r} : cached'[q] = cached[q]
      BY <1>3, <3>1 DEF Known, Types
    <3> QED BY <3>2, <3>3 DEF Marks
  <2>2. Back(r) BY <1>1, CallFacts DEF Ready, Back
  <2>3. OwnX(r, p) /\ p \in ownX'[r] BY <1>3, OwnXFacts
  <2>4. Rows(p) /\ row'[p] = -1
    <3>1. Write(p, -1, now + Ttl) /\ now + Ttl \in Int BY <1>1, <1>3
    <3> QED BY <3>1, RowFacts
  <2>5. Counted(r, p) = 1 /\ Counted(r, p)' = 0
    BY <1>3, <2>1, <2>2, MarksMove, MineIs DEF Back
  <2>6. Excluded(r, p) BY <1>3, <2>3, <2>4, <2>5 DEF Excluded
  <2> QED BY <1>1, <2>1, <2>2, <2>3, <2>4, <2>6, RestIs, Ends DEF Effect, Fits
<1> QED BY <1>2, <1>3 DEF ChangeToExclusive

LEMMA StillCovers ==
  ASSUME Covers, UNCHANGED <<row, own, ownX, cached, lapsed, stray>> PROVE Covers'
<1>1. ASSUME NEW p \in Path
      PROVE  /\ Covered(p)' <=> Covered(p)
             /\ Bounded(p)' <=> Bounded(p)
  BY DEF Covered, Bounded, InUse, Total, Counts, Counted
<1> QED BY <1>1 DEF Covers, CountCovers, Covered, NothingLeaks, Bounded

LEMMA BeginReleaseAllKeeps ==
  ASSUME Known, Covers, NEW r \in Request, BeginReleaseAll(r)
  PROVE  Known' /\ Covers'
<1>1. UNCHANGED <<row, ttl, own, ownX, cached, call, now, crashes, lapsed, stray>>
  BY DEF BeginReleaseAll, Keep, mine
<1>2. Known' BY <1>1 DEF BeginReleaseAll, Known, Types, Consistent
<1>3. Covers' BY <1>1, StillCovers
<1> QED BY <1>2, <1>3

\* The next request of the worker has nothing, in the bookkeeping.
LEMMA FreshFacts ==
  ASSUME Known, NEW r \in Request, Fresh(r)
  PROVE  /\ own' \in [Request -> [Path -> 0..MaxShared]] /\ ownX' \in [Request -> SUBSET Path]
         /\ cached' \in [Request -> SUBSET Path] /\ call' \in [Request -> CallType]
         /\ ending' \in SUBSET Request /\ Others(r) /\ Consistent(r)'
         /\ \A p \in Path : Counted(r, p)' = 0 /\ p \notin ownX'[r]
<1>1. /\ own' \in [Request -> [Path -> 0..MaxShared]] /\ own'[r] = [p \in Path |-> 0]
      /\ \A q \in Request \ {r} : own'[q] = own[q]
  BY ConstantsAssumption DEF Fresh, Known, Types
<1>2. /\ ownX' \in [Request -> SUBSET Path] /\ ownX'[r] = {}
      /\ cached' \in [Request -> SUBSET Path] /\ cached'[r] = {}
      /\ \A q \in Request \ {r} : ownX'[q] = ownX[q] /\ cached'[q] = cached[q]
      /\ ending' \in SUBSET Request
  BY DEF Fresh, Known, Types
<1>3. Back(r) BY CallFacts DEF Fresh, Return
<1>4. Others(r) BY <1>1, <1>2, <1>3 DEF Others, Back, Called
<1>5. \A p \in Path : own'[r][p] = 0 BY <1>1
<1>6. Consistent(r)' BY <1>2, <1>3, <1>5, ReadyConsistent DEF Back
<1> QED BY <1>1, <1>2, <1>3, <1>4, <1>5, <1>6 DEF Counted, Back, Called

LEMMA ReleaseCachedKeeps ==
  ASSUME Known, Covers, NEW r \in Request, ReleaseCached(r)
  PROVE  Known' /\ Covers'
<1>1. Fresh(r) /\ UNCHANGED <<ttl, now, crashes, lapsed, stray>> BY DEF ReleaseCached
<1>2. \A p \in Path : own[r][p] = 0 /\ p \notin ownX[r] BY DEF ReleaseCached
<1>3. /\ row' \in [Path -> Int \cup {NoRow}]
      /\ \A p \in Path : row'[p] = IF p \in cached[r] THEN Decremented(row[p]) ELSE row[p]
  BY DEF ReleaseCached, Decremented, Known, Types
<1>4. Types' BY <1>1, <1>3, FreshFacts DEF Known, Types, CallType
<1>5. ASSUME NEW p \in Path PROVE (p \in lapsed \/ Effect(r, p)) /\ Fits(r, p)
  <2>1. Counted(r, p) = IF p \in cached[r] THEN 1 ELSE 0 BY <1>2, MineIs
  <2>2. Counted(r, p)' = 0 /\ p \notin ownX'[r] /\ p \notin ownX[r] BY <1>1, <1>2, FreshFacts
  <2>3. row[p] \in Int \cup {NoRow} BY DEF Known, Types
  <2>4. CASE p \in cached[r] /\ row[p] # NoRow /\ row[p] > 0
    BY <1>3, <2>1, <2>2, <2>4 DEF Effect, Returned, SameX, Fits, Drops, Decremented
  <2>5. CASE p \in cached[r] /\ ~(row[p] # NoRow /\ row[p] > 0)
    <3>1. p \in lapsed BY <2>1, <2>2, <2>5, CountedInRow
    <3>2. row'[p] = row[p] BY <1>3, <2>5 DEF Decremented
    <3> QED BY <2>2, <2>3, <2>5, <3>1, <3>2 DEF Effect, Untouched, Gone, Fits, Frees
  <2>6. CASE p \notin cached[r]
    BY <1>3, <2>1, <2>2, <2>6 DEF Effect, Untouched, Same, SameX, Fits, Stays
  <2> QED BY <2>4, <2>5, <2>6
<1> QED BY <1>1, <1>4, <1>5, FreshFacts, StepCovered

LEMMA CrashKeeps ==
  ASSUME Known, Covers, NEW r \in Request, Crash(r)
  PROVE  Known' /\ Covers'
<1>1. Fresh(r) /\ UNCHANGED <<row, ttl, now, lapsed>> BY DEF Crash, Keep
<1>2. stray' \in SUBSET Path BY DEF Crash, Known, Types
<1>3. crashes' \in 0..MaxCrashes BY ConstantsAssumption DEF Crash, Known, Types
<1>4. Types' BY <1>1, <1>2, <1>3, FreshFacts DEF Known, Types, CallType
<1>5. ASSUME NEW p \in Path PROVE Effect(r, p) /\ (p \in stray' \/ Fits(r, p))
  <2>1. Counted(r, p)' = 0 /\ p \notin ownX'[r] BY <1>1, FreshFacts
  <2>2. Counted(r, p) \in 0..MaxShared BY MineIs
  <2>3. p \in stray' \/ (Counted(r, p) = 0 /\ p \notin ownX[r]) BY <2>2 DEF Crash
  <2> QED BY <1>1, <2>1, <2>2, <2>3 DEF Effect, Untouched, Gone, Fits, Stays
<1>6. stray \subseteq stray' BY DEF Crash
<1> QED BY <1>6, <1>1, <1>4, <1>5, FreshFacts, StepCovered

LEMMA CleanExpiredLocksKeeps ==
  ASSUME Known, Covers, CleanExpiredLocks
  PROVE  Known' /\ Covers'
<1> DEFINE S == {p \in Path : row[p] # NoRow /\ ttl[p] < now}
<1>1. /\ UNCHANGED <<now, own, ownX, cached, call, ending, crashes>>
      /\ row' \in [Path -> Int \cup {NoRow}] /\ ttl' \in [Path -> Int]
      /\ \A p \in Path : row'[p] = IF p \in S THEN NoRow ELSE row[p]
      /\ lapsed' = lapsed \cup {p \in S : InUse(p)} /\ stray' = stray \ S
  BY DEF CleanExpiredLocks, Known, Types, mine
<1> HIDE DEF S
<1>2. lapsed' \in SUBSET Path /\ stray' \in SUBSET Path BY <1>1 DEF Known, Types, S
<1>3. Known' BY <1>1, <1>2 DEF Known, Types, Consistent
<1>4. ASSUME NEW p \in Path
      PROVE  /\ InUse(p)' <=> InUse(p)
             /\ Total(p)' = Total(p)
             /\ \A r \in Request : Counted(r, p)' = Counted(r, p)
  BY <1>1 DEF InUse, Counted, Total, Counts
<1>5. ASSUME NEW p \in Path \ lapsed' PROVE Covered(p)'
  <2>1. Covered(p) /\ (p \in S => ~InUse(p)) BY <1>1, CoversIs
  <2>2. CASE p \in S
    <3>1. row'[p] = NoRow /\ NoRow \notin Int /\ ~InUse(p)'
      BY <1>1, <1>4, <2>1, <2>2, ConstantsAssumption
    <3> QED BY <3>1, ConstantsAssumption DEF Covered
  <2>3. CASE p \notin S BY <1>1, <1>4, <2>1, <2>3 DEF Covered
  <2> QED BY <2>2, <2>3
<1>6. ASSUME NEW p \in Path \ stray' PROVE Bounded(p)'
  <2>1. CASE p \in S
    <3>1. row'[p] = NoRow /\ NoRow # -1 BY <1>1, <2>1, ConstantsAssumption
    <3> QED BY <3>1 DEF Bounded
  <2>2. CASE p \notin S
    <3>1. Bounded(p) BY <1>1, <2>2, CoversIs
    <3> QED BY <1>1, <1>4, <2>2, <3>1 DEF Bounded
  <2> QED BY <2>1, <2>2
<1>7. Covers' BY <1>5, <1>6 DEF Covers, CountCovers, Covered, NothingLeaks, Bounded
<1> QED BY <1>3, <1>7

\* A path that nobody relies on is covered by a row that counts nothing.
LEMMA RecoverKeeps ==
  ASSUME Known, Covers, NEW p \in Path, Recover(p)
  PROVE  Known' /\ Covers'
<1>1. /\ UNCHANGED <<row, ttl, now, own, ownX, cached, call, ending, crashes, stray>>
      /\ lapsed' = lapsed \ {p} /\ ~InUse(p) /\ row[p] \in {NoRow, 0}
  BY DEF Recover, Keep, mine
<1>2. Known' BY <1>1 DEF Known, Types, Consistent
<1>3. ASSUME NEW x \in Path
      PROVE  /\ Covered(x)' <=> Covered(x)
             /\ Bounded(x)' <=> Bounded(x)
  BY <1>1 DEF Covered, Bounded, InUse, Total, Counts, Counted
<1>4. Covered(p)
  <2>1. \A r \in Request : Counted(r, p) = 0 /\ p \notin ownX[r]
    BY <1>1, MineIs DEF InUse
  <2>2. Total(p) = 0
    BY <2>1, CountsType, TallyZero, ConstantsAssumption DEF Known, CountsOK
  <2> QED BY <1>1, <2>1, <2>2, ConstantsAssumption DEF Covered
<1>5. Covers'
  BY <1>1, <1>3, <1>4, CoversIs DEF Covers, CountCovers, Covered, NothingLeaks, Bounded
<1> QED BY <1>2, <1>5

LEMMA TickKeeps ==
  ASSUME Known, Covers, Tick PROVE Known' /\ Covers'
<1>1. UNCHANGED <<row, ttl, own, ownX, cached, call, ending, crashes, lapsed, stray>>
  BY DEF Tick, Keep, mine
<1>2. now' \in 0..MaxTime BY ConstantsAssumption DEF Tick, Known, Types
<1>3. Known' BY <1>1, <1>2 DEF Known, Types, Consistent
<1>4. Covers' BY <1>1, StillCovers
<1> QED BY <1>3, <1>4

-----------------------------------------------------------------------------
(* Theorems.                                                                *)

LEMMA Initially == Init => Known /\ Covers
<1> SUFFICES ASSUME Init PROVE Known /\ Covers OBVIOUS
<1>1. Types BY IdleFacts, ConstantsAssumption DEF Init, Types, CallType
<1>2. \A r \in Request : Consistent(r) BY <1>1 DEF Init, Types, Consistent, Idle
<1>3. \A p \in Path : row[p] = NoRow /\ NoRow \notin Int /\ ~InUse(p)
  BY ConstantsAssumption DEF Init, InUse, Counted
<1>4. Known BY <1>1, <1>2 DEF Known
<1>5. ASSUME NEW p \in Path PROVE Total(p) = 0
  <2>1. \A r \in Request : Counts(p)[r] = 0
    BY <1>1, CountsType DEF CountsOK, Init, Counted
  <2>2. Counts(p) \in [Request -> 0..MaxShared] /\ Total(p) = Tally(Request, MaxShared, Counts(p))
    BY <1>1, CountsType DEF CountsOK
  <2> QED BY <2>1, <2>2, TallyZero, ConstantsAssumption
<1>6. \A p \in Path : Covered(p) /\ Bounded(p) BY <1>3, <1>5, ConstantsAssumption DEF Covered, Bounded
<1> QED BY <1>4, <1>6, CoversIs

LEMMA EveryStep ==
  Known /\ Covers /\ [Next]_vars => Known' /\ Covers'
<1> SUFFICES ASSUME Known, Covers, [Next]_vars PROVE Known' /\ Covers' OBVIOUS
<1>1. ASSUME NEW r \in Request, NEW p \in Path, ClientStep(r, p) PROVE Known' /\ Covers'
  BY <1>1, ReuseSharedKeeps, InsertSharedKeeps, InsertExclusiveKeeps, ReleaseSharedKeeps,
     ReleaseExclusiveKeeps, ChangeToSharedKeeps, ChangeToExclusiveKeeps DEF ClientStep
<1>2. ASSUME NEW r \in Request, RequestStep(r) PROVE Known' /\ Covers'
  BY <1>2, UpdateSharedKeeps, UpdateExclusiveKeeps, BeginReleaseAllKeeps, ReleaseCachedKeeps,
     CrashKeeps DEF RequestStep
<1>3. CASE UNCHANGED vars
  <2>1. UNCHANGED <<row, ttl, now, own, ownX, cached, call, ending, crashes, lapsed, stray>>
    BY <1>3 DEF vars, mine
  <2>2. Known' BY <2>1 DEF Known, Types, Consistent
  <2>3. Covers' BY <2>1, StillCovers
  <2> QED BY <2>2, <2>3
<1> QED BY <1>1, <1>2, <1>3, CleanExpiredLocksKeeps, TickKeeps, RecoverKeeps DEF Next

\* Types hold for any number of requests, paths and crashes, and what a request
\* computed before its INSERT about its own locks still holds when its UPDATE
\* comes.
THEOREM TypeCorrect == Spec => []TypeOK
<1>1. Known => TypeOK BY KnownTypes
<1> QED BY <1>1, Initially, EveryStep, PTL DEF Spec

\* The row never counts less than what live requests hold or keep, whatever the
\* statements of others and the cleanup do between INSERT and UPDATE, unless the
\* row lost a lock they rely on: it was cleaned under them, a command line
\* process gave back a lock it did not hold, or a web request freed the path it
\* had taken exclusively while it kept a shared lock of it.
THEOREM RowCovers == Spec => []CountCovers
<1>1. Covers => CountCovers BY DEF Covers
<1> QED BY <1>1, Initially, EveryStep, PTL DEF Spec

\* The row never counts more than what requests hold or keep, so that nobody
\* waits for a lock that nobody has, also where locks were lost before; only a
\* killed request leaves more.
THEOREM RowLeaksNothing == Spec => []NothingLeaks
<1>1. Covers => NothingLeaks BY DEF Covers
<1> QED BY <1>1, Initially, EveryStep, PTL DEF Spec

LEMMA CoversExcludes ==
  ASSUME Known, Covers PROVE MutualExclusion
<1> SUFFICES ASSUME NEW p \in Path \ lapsed, NEW r \in Request, NEW q \in Request,
                    r # q, p \in ownX[r]
             PROVE  p \notin ownX[q] /\ own[q][p] = 0
  BY DEF MutualExclusion
<1>1. Covered(p) BY CoversIs
<1>2. row[p] \in Int \cup {NoRow} BY DEF Known, Types
<1>3. row[p] = -1 BY <1>1, <1>2 DEF Covered, InUse
<1>4. p \notin ownX[q] /\ ~(Counted(q, p) > 0) BY <1>1, <1>3 DEF Covered
<1>5. own[q][p] \in 0..MaxShared BY DEF Known, Types
<1> QED BY <1>4, <1>5, MineIs

\* An exclusive lock excludes every lock of another request, also between web
\* requests, which take kept locks again without a statement, and command line
\* processes, on every path whose row lost no lock that somebody relies on.
THEOREM Exclusion == Spec => []MutualExclusion
<1>1. Known /\ Covers => MutualExclusion BY CoversExcludes
<1> QED BY <1>1, Initially, EveryStep, PTL DEF Spec

-----------------------------------------------------------------------------
(* The abstract lock table.                                                 *)

\* Where the row is no exclusive lock nobody writes, and where it counts nothing
\* nobody reads either.
LEMMA NobodyThere ==
  ASSUME Known, Covers, NEW p \in Path \ lapsed
  PROVE  /\ row[p] # -1 => Table!NoWriter(p)
         /\ row[p] \in {NoRow, 0} => \A q \in Request : own[q][p] = 0
<1>1. Covered(p) /\ row[p] \in Int \cup {NoRow} BY CoversIs DEF Known, Types
<1>2. row[p] # -1 => Table!NoWriter(p)
  BY <1>1 DEF Covered, InUse, Table!NoWriter
<1>3. ASSUME NEW q \in Request, row[p] \in {NoRow, 0} PROVE own[q][p] = 0
  <2>1. ~(Counted(q, p) > 0) BY <1>3, CountedInRow, ConstantsAssumption
  <2>2. own[q][p] \in 0..MaxShared BY DEF Known, Types
  <2> QED BY <2>1, <2>2, MineIs
<1> QED BY <1>2, <1>3

\* Where the row counts one lock, somebody who holds or keeps one is the only
\* one.
LEMMA OnlyOne ==
  ASSUME Known, Covers, NEW r \in Request, NEW p \in Path \ lapsed, row[p] = 1, Counted(r, p) > 0
  PROVE  Table!NoReaderBut(r, p)
<1>1. Covered(p) /\ CountsOK(p) BY CoversIs, CountsType DEF Known
<1>2. Total(p) <= 1 BY <1>1 DEF Covered
<1>3. Counts(p)[r] > 0 BY <1>1, MineIs DEF CountsOK
<1>4. \A q \in Request \ {r} : Counts(p)[q] = 0
  BY <1>1, <1>2, <1>3, TallyOne, ConstantsAssumption DEF CountsOK
<1>5. ASSUME NEW q \in Request \ {r} PROVE own[q][p] = 0
  <2>1. Counted(q, p) = 0 BY <1>1, <1>4 DEF CountsOK
  <2>2. own[q][p] \in 0..MaxShared BY DEF Known, Types
  <2> QED BY <2>1, <2>2, MineIs
<1> QED BY <1>5 DEF Table!NoReaderBut

Simulates == Table!Next \/ UNCHANGED <<own, ownX, lapsed>>

LEMMA SimulatesShared ==
  ASSUME Known, Covers, NEW r \in Request, NEW p \in Path, MarkShared(r, p), Rest, row[p] # -1
  PROVE  Simulates
<1>1. p \in lapsed \/ Table!NoWriterBut(r, p)
  BY NobodyThere DEF Table!NoWriter, Table!NoWriterBut
<1>2. Table!AcquireShared(r, p) BY <1>1 DEF MarkShared, Rest, Table!AcquireShared
<1> QED BY <1>2 DEF Simulates, Table!Next

LEMMA SimulatesExclusive ==
  ASSUME Known, Covers, NEW r \in Request, NEW p \in Path, MarkExclusive(r, p), Rest,
         row[p] \in {NoRow, 0} \/ (row[p] = 1 /\ own[r][p] = 0 /\ Counted(r, p) > 0)
  PROVE  Simulates
<1>1. row[p] # -1 BY ConstantsAssumption
<1>2. p \in lapsed \/ (Table!NoWriter(p) /\ \A q \in Request : own[q][p] = 0)
  BY <1>1, NobodyThere, OnlyOne DEF Table!NoReaderBut
<1>3. Table!AcquireExclusive(r, p)
  BY <1>2 DEF MarkExclusive, Rest, Table!AcquireExclusive, Table!NoReaderBut
<1> QED BY <1>3 DEF Simulates, Table!Next

LEMMA ClientSimulates ==
  ASSUME Known, Covers, NEW r \in Request, NEW p \in Path, ClientStep(r, p)
  PROVE  Simulates
<1>0. row[p] \in Int \cup {NoRow} /\ NoRow # -1 BY ConstantsAssumption DEF Known, Types
<1>1. CASE ReuseShared(r, p)
  <2>1. p \in cached[r] /\ MarkShared(r, p) /\ Rest BY <1>1 DEF ReuseShared
  <2>2. Counted(r, p) = 1 BY <2>1, MineIs
  <2>3. p \in lapsed \/ Table!NoWriterBut(r, p)
    <3>1. CASE p \notin lapsed /\ row[p] = -1 /\ p \in ownX[r]
      BY <3>1, CoversIs DEF Covered, Table!NoWriterBut
    <3>2. CASE p \notin lapsed /\ row[p] # -1
      BY <3>2, NobodyThere DEF Table!NoWriter, Table!NoWriterBut
    <3> QED BY <2>2, <3>1, <3>2, CountedInRow
  <2>4. Table!AcquireShared(r, p) BY <2>1, <2>3 DEF MarkShared, Rest, Table!AcquireShared
  <2> QED BY <2>4 DEF Simulates, Table!Next
<1>2. CASE InsertShared(r, p)
  <2>1. CASE row[p] = NoRow /\ MarkShared(r, p)
    BY <1>0, <1>2, <2>1, SimulatesShared DEF InsertShared
  <2>2. CASE UNCHANGED mine BY <1>2, <2>2 DEF InsertShared, mine, Rest, Simulates
  <2> QED BY <1>2, <2>1, <2>2 DEF InsertShared
<1>3. CASE InsertExclusive(r, p)
  <2>1. CASE row[p] = NoRow /\ MarkExclusive(r, p)
    BY <1>3, <2>1, SimulatesExclusive DEF InsertExclusive
  <2>2. CASE UNCHANGED mine BY <1>3, <2>2 DEF InsertExclusive, mine, Rest, Simulates
  <2> QED BY <1>3, <2>1, <2>2 DEF InsertExclusive
<1>4. CASE ReleaseShared(r, p)
  <2>1. own[r][p] \in 0..MaxShared BY DEF Known, Types
  <2>2. CASE own[r][p] > 0
    <3>1. own' = [own EXCEPT ![r][p] = @ - 1]
      BY <1>4, <2>2 DEF ReleaseShared
    <3>. UNCHANGED <<ownX, lapsed>>
      BY <1>4, <2>1, <2>2 DEF ReleaseShared
    <3>2. Table!ReleaseShared(r, p) BY <2>2, <3>1 DEF Table!ReleaseShared
    <3> QED BY <3>2 DEF Simulates, Table!Next
  <2>3. CASE own[r][p] = 0
    <3>1. own' = own /\ ownX' = ownX /\ lapsed' \in {lapsed, lapsed \cup {p}}
      BY <1>4, <2>3 DEF ReleaseShared, Known, Types
    <3>2. lapsed' = lapsed \/ Table!Lapse({p}) BY <3>1 DEF Table!Lapse
    <3> QED BY <3>1, <3>2 DEF Simulates, Table!Next
  <2> QED BY <2>1, <2>2, <2>3
<1>5. CASE ReleaseExclusive(r, p)
  <2>1. Table!ReleaseExclusive(r, p) BY <1>5 DEF ReleaseExclusive, Table!ReleaseExclusive
  <2> QED BY <2>1 DEF Simulates, Table!Next
<1>6. CASE ChangeToShared(r, p)
  <2>1. CASE UNCHANGED mine BY <1>6, <2>1 DEF ChangeToShared, mine, Rest, Simulates
  <2>2. CASE /\ own' = [own EXCEPT ![r][p] = @ + 1] /\ ownX' = [ownX EXCEPT ![r] = @ \ {p}]
    <3>1. Table!Downgrade(r, p) BY <1>6, <2>2 DEF ChangeToShared, Rest, Table!Downgrade
    <3> QED BY <3>1 DEF Simulates, Table!Next
  <2> QED BY <1>6, <2>1, <2>2 DEF ChangeToShared
<1>7. CASE ChangeToExclusive(r, p)
  <2>1. CASE UNCHANGED mine BY <1>7, <2>1 DEF ChangeToExclusive, mine, Rest, Simulates
  <2>2. CASE /\ own[r][p] = 1 /\ row[p] = 1 /\ own' = [own EXCEPT ![r][p] = 0]
             /\ ownX' = [ownX EXCEPT ![r] = @ \cup {p}]
    <3>1. p \in lapsed \/ (Table!NoWriter(p) /\ Table!NoReaderBut(r, p))
      BY <2>2, NobodyThere, OnlyOne, MineIs
    <3>2. own' = [own EXCEPT ![r][p] = @ - 1] BY <2>2 DEF Known, Types
    <3>3. Table!Upgrade(r, p)
      BY <1>7, <2>2, <3>1, <3>2 DEF ChangeToExclusive, Rest, Table!Upgrade
    <3> QED BY <3>3 DEF Simulates, Table!Next
  <2> QED BY <1>7, <2>1, <2>2 DEF ChangeToExclusive
<1> QED BY <1>1, <1>2, <1>3, <1>4, <1>5, <1>6, <1>7 DEF ClientStep

LEMMA RequestSimulates ==
  ASSUME Known, Covers, NEW r \in Request, RequestStep(r)
  PROVE  Simulates
<1>1. CASE UpdateShared(r)
  <2>0. PICK p \in Path : p = call[r].path BY <1>1, PathOfCall DEF UpdateShared
  <2>1. CASE row[p] # NoRow /\ row[p] >= 0 /\ MarkShared(r, p)
    BY <1>1, <2>1, SimulatesShared DEF UpdateShared
  <2>2. CASE Throw(r) BY <1>1, <2>2 DEF UpdateShared, Throw, mine, Rest, Simulates
  <2> QED BY <1>1, <2>0, <2>1, <2>2 DEF UpdateShared
<1>2. CASE UpdateExclusive(r)
  <2>0. PICK p \in Path : p = call[r].path BY <1>2, PathOfCall DEF UpdateExclusive
  <2>1. call[r].existing = IF own[r][p] = 0 /\ p \in cached[r] THEN 1 ELSE 0
    BY <1>2, <2>0, PathOfCall DEF UpdateExclusive, Consistent
  <2>2. CASE row[p] = call[r].existing /\ MarkExclusive(r, p)
    <3>1. row[p] = 0 \/ (row[p] = 1 /\ own[r][p] = 0 /\ Counted(r, p) > 0)
      BY <2>1, <2>2, MineIs
    <3> QED BY <1>2, <2>2, <3>1, SimulatesExclusive DEF UpdateExclusive
  <2>3. CASE Throw(r) BY <1>2, <2>3 DEF UpdateExclusive, Throw, mine, Rest, Simulates
  <2> QED BY <1>2, <2>0, <2>2, <2>3 DEF UpdateExclusive
<1>3. CASE BeginReleaseAll(r) BY <1>3 DEF BeginReleaseAll, mine, Simulates
<1>4. ASSUME Fresh(r), UNCHANGED lapsed PROVE Simulates
  <2>1. Table!Die(r) BY <1>4 DEF Fresh, Table!Die
  <2> QED BY <2>1 DEF Simulates, Table!Next
<1>5. CASE ReleaseCached(r) BY <1>4, <1>5 DEF ReleaseCached
<1>6. CASE Crash(r) BY <1>4, <1>6 DEF Crash
<1> QED BY <1>1, <1>2, <1>3, <1>5, <1>6 DEF RequestStep

LEMMA EveryStepSimulates ==
  Known /\ Covers /\ [Next]_vars => Simulates
<1> SUFFICES ASSUME Known, Covers, [Next]_vars PROVE Simulates OBVIOUS
<1>1. ASSUME CleanExpiredLocks PROVE Simulates
  <2>1. PICK S \in SUBSET Path : lapsed' = lapsed \cup S
    BY <1>1 DEF CleanExpiredLocks
  <2>2. Table!Lapse(S) BY <1>1, <2>1 DEF CleanExpiredLocks, mine, Table!Lapse
  <2> QED BY <2>2 DEF Simulates, Table!Next
<1>2. CASE Tick \/ UNCHANGED vars BY <1>2 DEF Tick, vars, mine, Simulates
<1>3. ASSUME NEW p \in Path, Recover(p) PROVE Simulates
  <2>1. \A r \in Request : own[r][p] \in 0..MaxShared /\ ~(Counted(r, p) > 0) /\ p \notin ownX[r]
    BY <1>3 DEF Recover, InUse, Known, Types
  <2>2. Table!NoWriter(p) /\ \A r \in Request : own[r][p] = 0
    BY <2>1, MineIs DEF Table!NoWriter
  <2>3. Table!Recover(p) BY <1>3, <2>2 DEF Recover, mine, Table!Recover
  <2> QED BY <2>3 DEF Simulates, Table!Next
<1> QED BY <1>1, <1>2, <1>3, ClientSimulates, RequestSimulates DEF Next

\* The statements implement the abstract lock table, whoever interleaves them:
\* every step is one of the table or changes nothing that a caller can see, and
\* what a row loses is lost in the table at that step.
THEOREM Implements == Spec => ImplementsRWLock
<1>1. Init => Table!Init BY DEF Init, Table!Init
<1>2. Simulates => [Table!Next]_(Table!vars) BY DEF Simulates, Table!vars
<1> QED BY <1>1, <1>2, Initially, EveryStep, EveryStepSimulates, PTL
        DEF Spec, ImplementsRWLock, Table!Spec
=============================================================================
