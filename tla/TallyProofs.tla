---------------------------- MODULE TallyProofs ----------------------------
(***************************************************************************)
(* What the tally of a table of holds does when one entry changes.  These  *)
(* are the only facts about counting the proofs on locking rest on.        *)
(***************************************************************************)
EXTENDS Tally, FiniteSetTheorems, TLAPS

\* The tokens of any table over finitely many requests are a finite set.
LEMMA TokensFinite ==
  ASSUME NEW R, IsFiniteSet(R), NEW M \in Nat, NEW f \in [R -> 0..M]
  PROVE  IsFiniteSet(Tokens(R, M, f)) /\ Tally(R, M, f) \in Nat
<1>1. IsFiniteSet(1..M)
  BY FS_Interval
<1>2. IsFiniteSet(R \X (1..M))
  BY <1>1, FS_Product
<1>3. Tokens(R, M, f) \in SUBSET (R \X (1..M))
  BY DEF Tokens
<1> QED
  BY <1>2, <1>3, FS_Subset, FS_CardinalityType DEF Tally

\* Taking one more hold adds one to the tally.
LEMMA TallyIncrement ==
  ASSUME NEW R, IsFiniteSet(R), NEW M \in Nat, NEW f \in [R -> 0..M],
         NEW g \in [R -> 0..M], NEW r \in R,
         g[r] = f[r] + 1, \A q \in R \ {r} : g[q] = f[q]
  PROVE  Tally(R, M, g) = Tally(R, M, f) + 1
<1> DEFINE t == <<r, f[r] + 1>>
<1>1. t \notin Tokens(R, M, f)
  BY DEF Tokens
<1>2. Tokens(R, M, g) = Tokens(R, M, f) \cup {t}
  <2>1. f[r] + 1 \in 1..M
    OBVIOUS
  <2>2. ASSUME NEW u \in R, NEW k \in 1..M
        PROVE  <<u, k>> \in Tokens(R, M, g) <=> <<u, k>> \in Tokens(R, M, f) \cup {t}
    <3>1. CASE u = r
      BY <3>1 DEF Tokens
    <3>2. CASE u # r
      BY <3>2 DEF Tokens
    <3> QED  BY <3>1, <3>2
  <2> QED  BY <2>1, <2>2 DEF Tokens
<1> QED
  BY <1>1, <1>2, TokensFinite, FS_AddElement DEF Tally

\* Giving one hold up takes one from the tally.
LEMMA TallyDecrement ==
  ASSUME NEW R, IsFiniteSet(R), NEW M \in Nat, NEW f \in [R -> 0..M],
         NEW g \in [R -> 0..M], NEW r \in R,
         g[r] = f[r] - 1, \A q \in R \ {r} : g[q] = f[q]
  PROVE  Tally(R, M, g) = Tally(R, M, f) - 1
<1>1. f[r] = g[r] + 1
  OBVIOUS
<1>2. Tally(R, M, f) = Tally(R, M, g) + 1
  BY <1>1, TallyIncrement
<1> QED
  BY <1>2, TokensFinite

\* The tally is zero exactly when nobody holds anything.
LEMMA TallyZero ==
  ASSUME NEW R, IsFiniteSet(R), NEW M \in Nat, NEW f \in [R -> 0..M]
  PROVE  Tally(R, M, f) = 0 <=> \A r \in R : f[r] = 0
<1>1. Tally(R, M, f) = 0 <=> Tokens(R, M, f) = {}
  BY TokensFinite, FS_EmptySet DEF Tally
<1>2. ASSUME Tokens(R, M, f) = {}, NEW r \in R
      PROVE  f[r] = 0
  <2>1. SUFFICES ASSUME f[r] > 0 PROVE FALSE
    OBVIOUS
  <2>2. <<r, 1>> \in Tokens(R, M, f)
    BY <2>1 DEF Tokens
  <2> QED  BY <1>2, <2>2
<1>3. ASSUME \A r \in R : f[r] = 0
      PROVE  Tokens(R, M, f) = {}
  BY <1>3 DEF Tokens
<1> QED
  BY <1>1, <1>2, <1>3

\* Whoever has a hold is counted: with a tally of at most one, the holder
\* holds once and nobody else holds at all.
LEMMA TallyOne ==
  ASSUME NEW R, IsFiniteSet(R), NEW M \in Nat, NEW f \in [R -> 0..M],
         NEW r \in R, f[r] > 0, Tally(R, M, f) <= 1
  PROVE  f[r] = 1 /\ \A q \in R \ {r} : f[q] = 0
<1> DEFINE g == [f EXCEPT ![r] = @ - 1]
<1>1. g \in [R -> 0..M] /\ g[r] = f[r] - 1 /\ \A q \in R \ {r} : g[q] = f[q]
  OBVIOUS
<1> HIDE DEF g
<1>2. Tally(R, M, g) = Tally(R, M, f) - 1
  BY <1>1, TallyDecrement
<1>3. Tally(R, M, g) = 0
  BY <1>1, <1>2, TokensFinite
<1>4. \A q \in R : g[q] = 0
  BY <1>1, <1>3, TallyZero
<1> QED
  BY <1>1, <1>4

\* A table that is nowhere larger has no larger tally.
LEMMA TallyMonotone ==
  ASSUME NEW R, IsFiniteSet(R), NEW M \in Nat, NEW f \in [R -> 0..M],
         NEW g \in [R -> 0..M], \A q \in R : g[q] <= f[q]
  PROVE  Tally(R, M, g) <= Tally(R, M, f)
<1>1. Tokens(R, M, g) \in SUBSET Tokens(R, M, f)
  <2>1. ASSUME NEW u \in R, NEW k \in 1..M, <<u, k>> \in Tokens(R, M, g)
        PROVE  <<u, k>> \in Tokens(R, M, f)
    BY <2>1 DEF Tokens
  <2> QED  BY <2>1 DEF Tokens
<1> QED
  BY <1>1, TokensFinite, FS_Subset DEF Tally
=============================================================================
