-------------------------- MODULE ViewLocksProofs --------------------------
(***************************************************************************)
(* Theorems about ViewLocks, for every set of requests and every tree of   *)
(* paths.  What is left of an operation is a chain: each of its calls turns *)
(* the locks the operation holds before it into those it holds after it,   *)
(* and the last one leaves none.  A call that fails is left for the chain  *)
(* of its fallback, which starts at the same holds, if there is one        *)
(* (Caught).  That the locks a request has are those its chain starts      *)
(* with, and what was left by calls without a fallback, is inductive       *)
(* (Inv): a step goes one link along the chain or onto the fallback.       *)
(***************************************************************************)
EXTENDS ViewLocks, SequenceTheorems, FiniteSetTheorems, TLAPS

-----------------------------------------------------------------------------
(* Calls, what an operation holds, and what a call does to it.              *)

Doing == {"share", "unshare", "raise", "lower", "free", "hook", "work"}

\* Fallbacks of fallbacks have none.
Step0 == [do : Doing, path : Path, otherwise : {<<>>}]
Step1 == [do : Doing, path : Path, otherwise : Seq(Step0)]
Step  == [do : Doing, path : Path, otherwise : Seq(Step1)]

Made(do, p, otherwise) == [do |-> do, path |-> p, otherwise |-> otherwise]

Hold == [r : [Path -> Nat], w : SUBSET Path]
Zero == [r |-> [p \in Path |-> 0], w |-> {}]

Less(n, m) == IF n > m THEN n - m ELSE 0

ReadsAfter(c, h, x) ==
  IF x # c.path THEN h.r[x]
  ELSE IF c.do = "share" \/ (c.do = "lower" /\ x \in h.w) THEN h.r[x] + 1
  ELSE IF c.do \in {"unshare", "raise"} THEN Less(h.r[x], 1) ELSE h.r[x]
WritesAfter(c, h) ==
  IF c.do = "raise" THEN h.w \cup {c.path}
  ELSE IF c.do \in {"lower", "free"} THEN h.w \ {c.path} ELSE h.w

\* The call c, if it succeeds, turns h into g.
Leads(c, h, g) == /\ g.w = WritesAfter(c, h)
                  /\ \A x \in Path : g.r[x] = ReadsAfter(c, h, x)

\* H are the holds between the calls of s, each allowed by G.
Chain(G, s, H) == /\ s \in Seq(Step)
                  /\ H \in [1..Len(s) + 1 -> Hold]
                  /\ \A i \in 1..Len(s) : <<s[i], H[i]>> \in G /\ Leads(s[i], H[i], H[i + 1])

Run(G, s, h, g) == \E H \in [1..Len(s) + 1 -> Hold] :
                     Chain(G, s, H) /\ H[1] = h /\ H[Len(s) + 1] = g

-----------------------------------------------------------------------------
(* Chains are joined, taken apart and lifted.                               *)

LEMMA RunNil ==
  ASSUME NEW G, NEW h \in Hold
  PROVE  Run(G, <<>>, h, h)
<1> DEFINE H == [i \in 1..1 |-> h]
<1>1. <<>> \in Seq(Step) /\ Len(<<>>) = 0
  BY EmptySeq
<1>2. H \in [1..0 + 1 -> Hold] /\ H[0 + 1] = h /\ H[1] = h
  OBVIOUS
<1> HIDE DEF H
<1>3. Chain(G, <<>>, H)
  BY <1>1, <1>2 DEF Chain
<1> QED
  BY <1>1, <1>2, <1>3 DEF Run

LEMMA RunDone ==
  ASSUME NEW G, NEW h, NEW g, Run(G, <<>>, h, g)
  PROVE  h = g
BY EmptySeq DEF Run

LEMMA RunType ==
  ASSUME NEW G, NEW s, NEW h, NEW g, Run(G, s, h, g)
  PROVE  s \in Seq(Step) /\ h \in Hold /\ g \in Hold
<1>1. PICK H \in [1..Len(s) + 1 -> Hold] : Chain(G, s, H) /\ H[1] = h /\ H[Len(s) + 1] = g
  BY DEF Run
<1>2. s \in Seq(Step) /\ Len(s) \in Nat
  BY <1>1, LenProperties DEF Chain
<1> QED
  BY <1>1, <1>2

LEMMA RunOne ==
  ASSUME NEW G, NEW c \in Step, NEW h \in Hold, NEW g \in Hold,
         <<c, h>> \in G, Leads(c, h, g)
  PROVE  Run(G, <<c>>, h, g)
<1> DEFINE H == [i \in 1..2 |-> IF i = 1 THEN h ELSE g]
<1>1. <<c>> \in Seq(Step) /\ Len(<<c>>) = 1 /\ <<c>>[1] = c
  OBVIOUS
<1>2. H \in [1..Len(<<c>>) + 1 -> Hold] /\ H[1] = h /\ H[2] = g
  BY <1>1
<1> HIDE DEF H
<1>3. Chain(G, <<c>>, H)
  BY <1>1, <1>2 DEF Chain
<1> QED
  BY <1>1, <1>2, <1>3 DEF Run

LEMMA RunJoin ==
  ASSUME NEW G, NEW s, NEW t, NEW h, NEW k, NEW g,
         Run(G, s, h, k), Run(G, t, k, g)
  PROVE  Run(G, s \o t, h, g)
<1>1. PICK H \in [1..Len(s) + 1 -> Hold] : Chain(G, s, H) /\ H[1] = h /\ H[Len(s) + 1] = k
  BY DEF Run
<1>2. PICK K \in [1..Len(t) + 1 -> Hold] : Chain(G, t, K) /\ K[1] = k /\ K[Len(t) + 1] = g
  BY DEF Run
<1> DEFINE u == s \o t
           J == [i \in 1..Len(u) + 1 |-> IF i <= Len(s) THEN H[i] ELSE K[i - Len(s)]]
<1>3. s \in Seq(Step) /\ t \in Seq(Step) /\ Len(s) \in Nat /\ Len(t) \in Nat
  BY <1>1, <1>2, LenProperties DEF Chain
<1>4. /\ u \in Seq(Step) /\ Len(u) = Len(s) + Len(t)
      /\ \A i \in 1..Len(u) : u[i] = IF i <= Len(s) THEN s[i] ELSE t[i - Len(s)]
  BY <1>3, ConcatProperties
<1> HIDE DEF u
<1>5. /\ J \in [1..Len(u) + 1 -> Hold]
      /\ \A i \in 1..Len(s) + 1 : J[i] = H[i]
      /\ \A i \in 1..Len(t) + 1 : J[Len(s) + i] = K[i]
  BY <1>1, <1>2, <1>3, <1>4
<1> HIDE DEF J
<1>6. ASSUME NEW i \in 1..Len(u)
      PROVE  <<u[i], J[i]>> \in G /\ Leads(u[i], J[i], J[i + 1])
  <2>1. CASE i <= Len(s)
    <3>1. i \in 1..Len(s) /\ i \in 1..Len(s) + 1 /\ i + 1 \in 1..Len(s) + 1
      BY <2>1, <1>3
    <3>2. u[i] = s[i] /\ J[i] = H[i] /\ J[i + 1] = H[i + 1]
      BY <2>1, <3>1, <1>4, <1>5
    <3> QED  BY <3>1, <3>2, <1>1 DEF Chain
  <2>2. CASE i > Len(s)
    <3>1. PICK j \in 1..Len(t) : i = Len(s) + j
      BY <2>2, <1>3, <1>4
    <3>2. u[i] = t[j]
      <4>1. i - Len(s) = j /\ ~(i <= Len(s))
        BY <2>2, <3>1, <1>3
      <4> QED  BY <4>1, <1>4
    <3>3. J[i] = K[j] /\ J[i + 1] = K[j + 1]
      <4>1. j + 1 \in 1..Len(t) + 1 /\ i + 1 = Len(s) + (j + 1) /\ j \in 1..Len(t) + 1
        BY <3>1, <1>3
      <4> QED  BY <4>1, <3>1, <1>5
    <3> QED  BY <3>2, <3>3, <1>2 DEF Chain
  <2> QED  BY <2>1, <2>2, <1>3, <1>4
<1>7. Chain(G, u, J) /\ J[1] = h /\ J[Len(u) + 1] = g
  <2>1. J[1] = h
    BY <1>1, <1>3, <1>5
  <2>2. Len(u) + 1 = Len(s) + (Len(t) + 1) /\ Len(t) + 1 \in 1..Len(t) + 1
    BY <1>3, <1>4
  <2>3. J[Len(u) + 1] = g
    BY <1>2, <1>5, <2>2
  <2> QED  BY <1>4, <1>5, <1>6, <2>1, <2>3 DEF Chain
<1>8. Run(G, u, h, g)
  BY <1>5, <1>7 DEF Run
<1> QED
  BY <1>8 DEF u

LEMMA RunLift ==
  ASSUME NEW F, NEW G, F \subseteq G, NEW s, NEW h, NEW g, Run(F, s, h, g)
  PROVE  Run(G, s, h, g)
BY DEF Run, Chain

\* The first call of a chain, and the chain after it.
LEMMA RunHead ==
  ASSUME NEW G, NEW s, NEW h, NEW g, Run(G, s, h, g), s # <<>>
  PROVE  /\ Head(s) \in Step /\ h \in Hold /\ <<Head(s), h>> \in G
         /\ \E k \in Hold : Leads(Head(s), h, k) /\ Run(G, Tail(s), k, g)
<1>1. PICK H \in [1..Len(s) + 1 -> Hold] : Chain(G, s, H) /\ H[1] = h /\ H[Len(s) + 1] = g
  BY DEF Run
<1>2. s \in Seq(Step) /\ Len(s) \in Nat \ {0}
  BY <1>1, EmptySeq DEF Chain
<1>3. /\ Head(s) = s[1] /\ Head(s) \in Step /\ Tail(s) \in Seq(Step) /\ Len(Tail(s)) = Len(s) - 1
      /\ \A i \in 1..Len(Tail(s)) : Tail(s)[i] = s[i + 1]
  BY <1>2, HeadTailProperties
<1> DEFINE K == [i \in 1..Len(s) |-> H[i + 1]]
<1>4. /\ K \in [1..Len(Tail(s)) + 1 -> Hold] /\ \A i \in 1..Len(s) : K[i] = H[i + 1]
  BY <1>1, <1>2, <1>3
<1> HIDE DEF K
<1>5. ASSUME NEW i \in 1..Len(Tail(s))
      PROVE  <<Tail(s)[i], K[i]>> \in G /\ Leads(Tail(s)[i], K[i], K[i + 1])
  <2>1. i + 1 \in 1..Len(s) /\ i \in 1..Len(s)
    BY <1>2, <1>3
  <2>2. Tail(s)[i] = s[i + 1] /\ K[i] = H[i + 1] /\ K[i + 1] = H[(i + 1) + 1]
    BY <1>3, <1>4, <2>1
  <2> QED  BY <2>1, <2>2, <1>1 DEF Chain
<1>6. 1 \in 1..Len(s) /\ Len(s) \in 1..Len(s)
  BY <1>2
<1>7. Chain(G, Tail(s), K) /\ K[1] = H[2] /\ K[Len(Tail(s)) + 1] = g
  BY <1>1, <1>2, <1>3, <1>4, <1>5, <1>6 DEF Chain
<1>8. Run(G, Tail(s), H[2], g) /\ H[2] \in Hold
  BY <1>1, <1>2, <1>4, <1>7 DEF Run
<1>9. <<s[1], H[1]>> \in G /\ Leads(s[1], H[1], H[1 + 1])
  BY <1>1, <1>6 DEF Chain
<1>10. 1 + 1 = 2 /\ H[1] \in Hold
  BY <1>1, <1>2
<1> QED
  BY <1>1, <1>3, <1>8, <1>9, <1>10

-----------------------------------------------------------------------------
(* Which calls an operation may come to with which holds.                   *)

\* What is left after the last fallback only releases.
Good0 == {x \in Step \X Hold :
  \/ x[1].do = "unshare"
  \/ x[1].do = "free" /\ x[1].path \in x[2].w}

\* The fallback of a call that lowers a lock only releases.
Good1 == {x \in Step \X Hold :
  \/ x \in Good0
  \/ x[1].do = "lower" /\ (x[1].path \in x[2].w \/ Run(Good0, x[1].otherwise, x[2], Zero))}

\* The locks that an operation works under.
Secured(o, h) ==
  /\ o.writes \subseteq h.w
  /\ \A p \in o.reads : h.r[p] > 0
  /\ \A p \in o.writes \cup o.reads : \A i \in DOMAIN Parents[p] : h.r[Parents[p][i]] > 0

\* A fallback gives back all that is held, if there is one.
Caught(G, otherwise, h) == otherwise = <<>> \/ Run(G, otherwise, h, Zero)

Good(o) == {x \in Step \X Hold :
  \/ x \in Good1
  \/ x[1].do \in {"share", "hook"} /\ Caught(Good0, x[1].otherwise, x[2])
  \/ /\ x[1].do = "raise" /\ x[2].r[x[1].path] > 0
     /\ Run(Good1, x[1].otherwise, x[2], Zero)
  \/ /\ x[1].do = "work" /\ Secured(o, x[2])
     /\ Caught(Good1, x[1].otherwise, x[2])}

LEMMA GoodLevels ==
  ASSUME NEW o
  PROVE  Good0 \subseteq Good1 /\ Good1 \subseteq Good(o) /\ Good0 \subseteq Good(o)
BY DEF Good0, Good1, Good

LEMMA StepLevels ==
  /\ Step0 \subseteq Step1 /\ Step1 \subseteq Step /\ Step0 \subseteq Step
  /\ Seq(Step0) \subseteq Seq(Step1) /\ Seq(Step1) \subseteq Seq(Step)
  /\ <<>> \in Seq(Step0) /\ <<>> \in Seq(Step1)
<1>1. <<>> \in Seq(Step0) /\ <<>> \in Seq(Step1)
  BY EmptySeq
<1>2. Step0 \subseteq Step1
  BY <1>1 DEF Step0, Step1
<1>3. Seq(Step0) \subseteq Seq(Step1)
  BY <1>2, SeqMonotonic
<1>4. Step1 \subseteq Step
  BY <1>3 DEF Step1, Step
<1>5. Seq(Step1) \subseteq Seq(Step)
  BY <1>4, SeqMonotonic
<1> QED
  BY <1>1, <1>2, <1>3, <1>4, <1>5

LEMMA MadeType ==
  ASSUME NEW do \in Doing, NEW p \in Path
  PROVE  /\ \A otherwise \in Seq(Step1) : Made(do, p, otherwise) \in Step
         /\ \A otherwise \in Seq(Step0) : Made(do, p, otherwise) \in Step1
         /\ Made(do, p, <<>>) \in Step0
         /\ \A otherwise : /\ Made(do, p, otherwise).do = do
                           /\ Made(do, p, otherwise).path = p
                           /\ Made(do, p, otherwise).otherwise = otherwise
                           /\ Call(do, p, otherwise) = <<Made(do, p, otherwise)>>
BY DEF Made, Call, Step, Step1, Step0

LEMMA CallMade ==
  ASSUME NEW do \in Doing, NEW p \in Path, NEW otherwise \in Seq(Step1)
  PROVE  \E c \in Step : /\ c = Made(do, p, otherwise) /\ Call(do, p, otherwise) = <<c>>
                         /\ c.do = do /\ c.path = p /\ c.otherwise = otherwise
<1>1. Made(do, p, otherwise) \in Step
  BY MadeType
<1> QED
  BY <1>1 DEF Call, Made

LEMMA CallBare ==
  ASSUME NEW do \in Doing, NEW p \in Path
  PROVE  \E c \in Step : /\ c = Made(do, p, <<>>) /\ Call(do, p, <<>>) = <<c>>
                         /\ c.do = do /\ c.path = p /\ c.otherwise = <<>>
<1>1. PICK none \in Seq(Step1) : none = <<>>
  BY StepLevels
<1>2. \E c \in Step : /\ c = Made(do, p, none) /\ Call(do, p, none) = <<c>>
                      /\ c.do = do /\ c.path = p /\ c.otherwise = none
  BY CallMade
<1> QED
  BY <1>1, <1>2

LEMMA HoldType ==
  ASSUME NEW h \in Hold
  PROVE  /\ h.w \subseteq Path /\ h.r \in [Path -> Nat] /\ \A x \in Path : h.r[x] \in Nat
         /\ h = [r |-> h.r, w |-> h.w]
BY DEF Hold

LEMMA HoldEqual ==
  ASSUME NEW h \in Hold, NEW g \in Hold, h.w = g.w, \A x \in Path : h.r[x] = g.r[x]
  PROVE  h = g
<1>1. h.r = g.r
  BY HoldType
<1> QED
  BY <1>1, HoldType

LEMMA MadeHold ==
  ASSUME NEW f \in [Path -> Nat], NEW S \in SUBSET Path
  PROVE  /\ [r |-> f, w |-> S] \in Hold
         /\ [r |-> f, w |-> S].r = f /\ [r |-> f, w |-> S].w = S
BY DEF Hold

LEMMA ZeroType == Zero \in Hold /\ Zero.w = {} /\ \A x \in Path : Zero.r[x] = 0
BY DEF Zero, Hold

-----------------------------------------------------------------------------
(* How often a path occurs among the parents of another.                    *)

Times(n, k, x) == Cardinality({j \in 1..k : n[j] = x})
Above(p, x)    == Times(Parents[p], Len(Parents[p]), x)
Needs(p, x)    == IF x = p THEN Above(p, x) + 1 ELSE Above(p, x)

LEMMA TimesStep ==
  ASSUME NEW n, NEW x
  PROVE  /\ Times(n, 0, x) = 0
         /\ \A k \in Nat : /\ Times(n, k, x) \in Nat
                           /\ Times(n, k + 1, x)
                              = IF n[k + 1] = x THEN Times(n, k, x) + 1 ELSE Times(n, k, x)
<1> DEFINE T(k) == {j \in 1..k : n[j] = x}
<1>1. ASSUME NEW k \in Nat PROVE IsFiniteSet(T(k))
  <2>1. IsFiniteSet(1..k)
    BY FS_Interval
  <2> QED  BY <2>1, FS_Subset
<1>2. ASSUME NEW k \in Nat PROVE Cardinality(T(k)) \in Nat
  BY <1>1, FS_CardinalityType
<1>3. T(0) = {} /\ Cardinality({}) = 0
  BY FS_EmptySet
<1>4. ASSUME NEW k \in Nat, n[k + 1] = x PROVE Cardinality(T(k + 1)) = Cardinality(T(k)) + 1
  <2>1. T(k + 1) = T(k) \cup {k + 1} /\ k + 1 \notin T(k)
    BY <1>4
  <2> QED  BY <1>1, <2>1, FS_AddElement
<1>5. ASSUME NEW k \in Nat, n[k + 1] # x PROVE T(k + 1) = T(k)
  BY <1>5
<1> QED
  BY <1>2, <1>3, <1>4, <1>5 DEF Times

LEMMA TimesBound ==
  ASSUME NEW n, NEW x, NEW m \in Nat, NEW k \in 0..m
  PROVE  Times(n, k, x) <= Times(n, m, x)
<1> DEFINE T(i) == {j \in 1..i : n[j] = x}
<1>1. IsFiniteSet(T(m))
  <2>1. IsFiniteSet(1..m)
    BY FS_Interval
  <2> QED  BY <2>1, FS_Subset
<1>2. T(k) \subseteq T(m)
  OBVIOUS
<1>3. Cardinality(T(k)) <= Cardinality(T(m))
  BY <1>1, <1>2, FS_Subset
<1> QED
  BY <1>3 DEF Times

LEMMA ParentsType ==
  ASSUME NEW p \in Path
  PROVE  /\ Parents[p] \in Seq(Path) /\ Len(Parents[p]) \in Nat
         /\ DOMAIN Parents[p] = 1..Len(Parents[p])
         /\ \A i \in 1..Len(Parents[p]) : Parents[p][i] \in Path /\ Parents[p][i] # p
<1>1. Parents[p] \in Seq(Path)
  BY ConstantsAssumption
<1>2. Len(Parents[p]) \in Nat /\ DOMAIN Parents[p] = 1..Len(Parents[p])
  BY <1>1, LenProperties
<1>3. \A i \in 1..Len(Parents[p]) : Parents[p][i] \in Path
  BY <1>1, ElementOfSeq
<1> QED
  BY <1>1, <1>2, <1>3, ConstantsAssumption

LEMMA NeedsType ==
  ASSUME NEW p \in Path, NEW x \in Path
  PROVE  Above(p, x) \in Nat /\ Needs(p, x) \in Nat /\ Above(p, x) <= Needs(p, x)
<1>1. Above(p, x) \in Nat
  BY ParentsType, TimesStep DEF Above
<1> QED
  BY <1>1 DEF Needs

\* A path, and each of its parents, is needed.
LEMMA NeedsThem ==
  ASSUME NEW p \in Path
  PROVE  /\ Needs(p, p) = 1 /\ Above(p, p) = 0
         /\ \A i \in 1..Len(Parents[p]) : Needs(p, Parents[p][i]) >= 1
<1>1. Above(p, p) = 0
  <2>1. {j \in 1..Len(Parents[p]) : Parents[p][j] = p} = {}
    BY ParentsType
  <2> QED  BY <2>1, FS_EmptySet DEF Above, Times
<1>2. ASSUME NEW i \in 1..Len(Parents[p])
      PROVE  Needs(p, Parents[p][i]) >= 1
  <2> DEFINE x == Parents[p][i]
  <2>1. x \in Path /\ i \in Nat /\ i - 1 \in Nat /\ i \in 0..Len(Parents[p])
    BY ParentsType
  <2>2. Times(Parents[p], i - 1, x) \in Nat
    BY <2>1, TimesStep
  <2>3. Times(Parents[p], (i - 1) + 1, x) = Times(Parents[p], i - 1, x) + 1
    <3>1. (i - 1) + 1 = i
      BY <2>1
    <3> QED  BY <2>1, <3>1, TimesStep
  <2>4. Times(Parents[p], i, x) >= 1 /\ Times(Parents[p], i, x) \in Nat
    BY <2>1, <2>2, <2>3
  <2>5. Times(Parents[p], i, x) <= Above(p, x)
    BY <2>1, ParentsType, TimesBound DEF Above
  <2>6. Above(p, x) \in Nat /\ Needs(p, x) \in Nat /\ Above(p, x) <= Needs(p, x)
    BY <2>1, NeedsType
  <2> HIDE DEF x
  <2>7. Needs(p, x) >= 1
    BY <2>4, <2>5, <2>6
  <2> QED  BY <2>7 DEF x
<1> QED
  BY <1>1, <1>2 DEF Needs

\* One more of the parents is counted.
LEMMA TimesNext ==
  ASSUME NEW p \in Path, NEW i \in 1..Len(Parents[p]), NEW x \in Path
  PROVE  /\ Times(Parents[p], i - 1, x) \in Nat
         /\ Times(Parents[p], (i + 1) - 1, x)
              = IF Parents[p][i] = x THEN Times(Parents[p], i - 1, x) + 1
                                     ELSE Times(Parents[p], i - 1, x)
         /\ Above(p, x) \in Nat /\ Times(Parents[p], i - 1, x) <= Above(p, x)
<1>1. Len(Parents[p]) \in Nat
  BY ParentsType
<1>2. i - 1 \in Nat /\ i - 1 \in 0..Len(Parents[p]) /\ (i - 1) + 1 = i /\ (i + 1) - 1 = i
  BY <1>1
<1>3. /\ Times(Parents[p], i - 1, x) \in Nat
      /\ Times(Parents[p], (i - 1) + 1, x)
           = IF Parents[p][(i - 1) + 1] = x THEN Times(Parents[p], i - 1, x) + 1
                                            ELSE Times(Parents[p], i - 1, x)
  BY <1>2, TimesStep
<1>4. Times(Parents[p], i - 1, x) <= Above(p, x)
  BY <1>1, <1>2, TimesBound DEF Above
<1> QED
  BY <1>2, <1>3, <1>4, NeedsType

LEMMA ParentNeeded ==
  ASSUME NEW p \in Path, NEW i \in DOMAIN Parents[p]
  PROVE  \E y \in Path : y = Parents[p][i] /\ y # p /\ Needs(p, y) >= 1
<1>1. i \in 1..Len(Parents[p])
  BY ParentsType
<1>2. Parents[p][i] \in Path /\ Parents[p][i] # p
  BY <1>1, ParentsType
<1> QED
  BY <1>1, <1>2, NeedsThem

LEMMA LessSteps ==
  ASSUME NEW a \in Nat, NEW b \in Nat
  PROVE  /\ Less(a, b) \in Nat /\ Less(a, 0) = a
         /\ Less(Less(a, b), 1) = Less(a, b + 1)
         /\ a <= b => Less(a, b) = 0
         /\ Less(a + b, b) = a
BY DEF Less

-----------------------------------------------------------------------------
(* Locking and unlocking a path and its parents.                            *)

LEMMA OnParentsType ==
  ASSUME NEW do \in Doing, NEW p \in Path, NEW otherwise \in Seq(Step1)
  PROVE  /\ OnParents(do, p, otherwise) \in Seq(Step)
         /\ Len(OnParents(do, p, otherwise)) = Len(Parents[p])
         /\ \A i \in 1..Len(Parents[p]) :
              OnParents(do, p, otherwise)[i] = Made(do, Parents[p][i], otherwise)
<1> DEFINE n == Len(Parents[p])
           s == [i \in 1..n |-> Made(do, Parents[p][i], otherwise)]
<1>1. /\ n \in Nat /\ DOMAIN Parents[p] = 1..n
      /\ \A i \in 1..n : Parents[p][i] \in Path
  BY ParentsType
<1>2. ASSUME NEW i \in 1..n PROVE Made(do, Parents[p][i], otherwise) \in Step
  BY <1>1, MadeType
<1>3. OnParents(do, p, otherwise) = s
  BY <1>1 DEF OnParents, Call, Made
<1>4. s \in [1..n -> Step]
  BY <1>2
<1>5. s \in Seq(Step) /\ Len(s) = n
  BY <1>1, <1>4
<1> QED
  BY <1>3, <1>5

\* With, and without, the locks that f counts.
Plus(h, f)  == [r |-> [x \in Path |-> h.r[x] + f[x]], w |-> h.w]
Minus(h, f) == [r |-> [x \in Path |-> Less(h.r[x], f[x])], w |-> h.w]

AboveOf(p) == [x \in Path |-> Above(p, x)]
NeedsOf(p) == [x \in Path |-> Needs(p, x)]

LEMMA OfType ==
  ASSUME NEW p \in Path
  PROVE  /\ AboveOf(p) \in [Path -> Nat] /\ NeedsOf(p) \in [Path -> Nat]
         /\ \A x \in Path : AboveOf(p)[x] = Above(p, x) /\ NeedsOf(p)[x] = Needs(p, x)
BY NeedsType DEF AboveOf, NeedsOf

LEMMA PlusType ==
  ASSUME NEW h \in Hold, NEW f \in [Path -> Nat]
  PROVE  /\ Plus(h, f) \in Hold /\ Plus(h, f).w = h.w
         /\ \A x \in Path : Plus(h, f).r[x] = h.r[x] + f[x]
<1>1. [x \in Path |-> h.r[x] + f[x]] \in [Path -> Nat]
  BY HoldType
<1> QED
  BY <1>1, MadeHold, HoldType DEF Plus

LEMMA MinusType ==
  ASSUME NEW h \in Hold, NEW f \in [Path -> Nat]
  PROVE  /\ Minus(h, f) \in Hold /\ Minus(h, f).w = h.w
         /\ \A x \in Path : Minus(h, f).r[x] = Less(h.r[x], f[x])
<1>1. [x \in Path |-> Less(h.r[x], f[x])] \in [Path -> Nat]
  BY HoldType, LessSteps
<1> QED
  BY <1>1, MadeHold, HoldType DEF Minus

LEMMA PlusOf ==
  ASSUME NEW h \in Hold, NEW p \in Path
  PROVE  /\ Plus(h, AboveOf(p)) \in Hold /\ Plus(h, AboveOf(p)).w = h.w
         /\ Plus(h, NeedsOf(p)) \in Hold /\ Plus(h, NeedsOf(p)).w = h.w
         /\ \A x \in Path : /\ Plus(h, AboveOf(p)).r[x] = h.r[x] + Above(p, x)
                            /\ Plus(h, NeedsOf(p)).r[x] = h.r[x] + Needs(p, x)
<1>1. AboveOf(p) \in [Path -> Nat] /\ NeedsOf(p) \in [Path -> Nat]
  BY OfType
<1>2. /\ Plus(h, AboveOf(p)) \in Hold /\ Plus(h, AboveOf(p)).w = h.w
      /\ \A x \in Path : Plus(h, AboveOf(p)).r[x] = h.r[x] + AboveOf(p)[x]
  BY <1>1, PlusType
<1>3. /\ Plus(h, NeedsOf(p)) \in Hold /\ Plus(h, NeedsOf(p)).w = h.w
      /\ \A x \in Path : Plus(h, NeedsOf(p)).r[x] = h.r[x] + NeedsOf(p)[x]
  BY <1>1, PlusType
<1> QED
  BY <1>2, <1>3, OfType

LEMMA MinusOf ==
  ASSUME NEW h \in Hold, NEW p \in Path
  PROVE  /\ Minus(h, AboveOf(p)) \in Hold /\ Minus(h, AboveOf(p)).w = h.w
         /\ Minus(h, NeedsOf(p)) \in Hold /\ Minus(h, NeedsOf(p)).w = h.w
         /\ \A x \in Path : /\ Minus(h, AboveOf(p)).r[x] = Less(h.r[x], Above(p, x))
                            /\ Minus(h, NeedsOf(p)).r[x] = Less(h.r[x], Needs(p, x))
<1>1. AboveOf(p) \in [Path -> Nat] /\ NeedsOf(p) \in [Path -> Nat]
  BY OfType
<1>2. /\ Minus(h, AboveOf(p)) \in Hold /\ Minus(h, AboveOf(p)).w = h.w
      /\ \A x \in Path : Minus(h, AboveOf(p)).r[x] = Less(h.r[x], AboveOf(p)[x])
  BY <1>1, MinusType
<1>3. /\ Minus(h, NeedsOf(p)) \in Hold /\ Minus(h, NeedsOf(p)).w = h.w
      /\ \A x \in Path : Minus(h, NeedsOf(p)).r[x] = Less(h.r[x], NeedsOf(p)[x])
  BY <1>1, MinusType
<1> QED
  BY <1>2, <1>3, OfType

LEMMA ShareParents ==
  ASSUME NEW G, NEW p \in Path, NEW otherwise \in Seq(Step1), NEW h \in Hold,
         \A k \in Hold : \A y \in Path :
           k.w = h.w /\ (\A x \in Path : k.r[x] <= h.r[x] + Above(p, x))
           => <<Made("share", y, otherwise), k>> \in G
  PROVE  Run(G, OnParents("share", p, otherwise), h, Plus(h, AboveOf(p)))
<1> DEFINE n == Len(Parents[p])
           s == OnParents("share", p, otherwise)
           Up(i) == [x \in Path |-> Times(Parents[p], i, x)]
           H == [i \in 1..n + 1 |-> Plus(h, Up(i - 1))]
<1>1. /\ n \in Nat /\ \A i \in 1..n : Parents[p][i] \in Path
      /\ s \in Seq(Step) /\ Len(s) = n
      /\ \A i \in 1..n : s[i] = Made("share", Parents[p][i], otherwise)
  BY ParentsType, OnParentsType DEF Doing
<1>2. ASSUME NEW i \in 1..n + 1
      PROVE  /\ i - 1 \in Nat /\ Up(i - 1) \in [Path -> Nat]
             /\ \A x \in Path : Up(i - 1)[x] = Times(Parents[p], i - 1, x)
  <2>1. i - 1 \in Nat
    BY <1>1
  <2> QED  BY <2>1, TimesStep
<1>3. ASSUME NEW i \in 1..n + 1
      PROVE  /\ H[i] \in Hold /\ H[i].w = h.w
             /\ \A x \in Path : H[i].r[x] = h.r[x] + Times(Parents[p], i - 1, x)
  <2> HIDE DEF Up
  <2> QED  BY <1>2, PlusType
<1>4. H[1] = h
  <2>1. 1 \in 1..n + 1 /\ 1 - 1 = 0
    BY <1>1
  <2>2. ASSUME NEW x \in Path PROVE H[1].r[x] = h.r[x]
    <3>1. h.r[x] \in Nat /\ Times(Parents[p], 1 - 1, x) = 0
      BY <2>1, HoldType, TimesStep
    <3> HIDE DEF H
    <3> QED  BY <2>1, <3>1, <1>3
  <2> HIDE DEF H
  <2> QED  BY <2>1, <2>2, <1>3, HoldEqual
<1>5. H[n + 1] = Plus(h, AboveOf(p))
  <2>1. n + 1 \in 1..n + 1 /\ (n + 1) - 1 = n
    BY <1>1
  <2>2. Up(n) = AboveOf(p)
    BY DEF AboveOf, Above
  <2> HIDE DEF Up
  <2> QED  BY <2>1, <2>2
<1>6. H \in [1..n + 1 -> Hold]
  BY <1>3
<1> HIDE DEF H, Up, s
<1>7. ASSUME NEW i \in 1..n
      PROVE  <<s[i], H[i]>> \in G /\ Leads(s[i], H[i], H[i + 1])
  <2> DEFINE y == Parents[p][i]
  <2>1. y \in Path /\ i \in 1..n + 1 /\ i + 1 \in 1..n + 1 /\ (i + 1) - 1 = (i - 1) + 1
        /\ i - 1 \in 0..n
    BY <1>1
  <2>2. ASSUME NEW x \in Path
        PROVE  /\ h.r[x] \in Nat
               /\ Times(Parents[p], i - 1, x) \in Nat
               /\ Times(Parents[p], i - 1, x) <= Above(p, x) /\ Above(p, x) \in Nat
               /\ Times(Parents[p], (i + 1) - 1, x)
                    = IF y = x THEN Times(Parents[p], i - 1, x) + 1
                               ELSE Times(Parents[p], i - 1, x)
    BY <2>1, <1>1, TimesNext, HoldType
  <2>3. s[i] = Made("share", y, otherwise)
    BY <1>1
  <2> HIDE DEF y
  <2>4. <<s[i], H[i]>> \in G
    <3>1. ASSUME NEW x \in Path PROVE H[i].r[x] <= h.r[x] + Above(p, x)
      <4>1. H[i].r[x] = h.r[x] + Times(Parents[p], i - 1, x)
        BY <2>1, <1>3
      <4> QED  BY <4>1, <2>2
    <3> QED  BY <2>1, <2>3, <3>1, <1>3
  <2>5. s[i].do = "share" /\ s[i].path = y
    BY <2>3 DEF Made
  <2>6. ASSUME NEW x \in Path PROVE H[i + 1].r[x] = ReadsAfter(s[i], H[i], x)
    <3>1. /\ H[i].r[x] = h.r[x] + Times(Parents[p], i - 1, x)
          /\ H[i + 1].r[x] = h.r[x] + Times(Parents[p], (i + 1) - 1, x)
      BY <2>1, <1>3
    <3>2. ReadsAfter(s[i], H[i], x) = IF x = y THEN H[i].r[x] + 1 ELSE H[i].r[x]
      BY <2>5 DEF ReadsAfter
    <3> QED  BY <3>1, <3>2, <2>2
  <2>7. H[i + 1].w = WritesAfter(s[i], H[i])
    BY <2>1, <2>5, <1>3 DEF WritesAfter
  <2> QED  BY <2>4, <2>6, <2>7 DEF Leads
<1>8. Chain(G, s, H)
  BY <1>1, <1>6, <1>7 DEF Chain
<1>9. Run(G, s, h, Plus(h, AboveOf(p)))
  BY <1>1, <1>4, <1>5, <1>6, <1>8 DEF Run
<1> QED
  BY <1>9 DEF s

LEMMA UnshareParents ==
  ASSUME NEW p \in Path, NEW h \in Hold
  PROVE  Run(Good0, OnParents("unshare", p, <<>>), h, Minus(h, AboveOf(p)))
<1> DEFINE n == Len(Parents[p])
           s == OnParents("unshare", p, <<>>)
           Up(i) == [x \in Path |-> Times(Parents[p], i, x)]
           H == [i \in 1..n + 1 |-> Minus(h, Up(i - 1))]
<1>1. /\ n \in Nat /\ \A i \in 1..n : Parents[p][i] \in Path
      /\ s \in Seq(Step) /\ Len(s) = n
      /\ \A i \in 1..n : s[i] = Made("unshare", Parents[p][i], <<>>) /\ s[i] \in Step
  <2>1. <<>> \in Seq(Step1) /\ "unshare" \in Doing
    BY StepLevels DEF Doing
  <2>2. \A i \in 1..n : Parents[p][i] \in Path
    BY ParentsType
  <2>3. \A i \in 1..n : Made("unshare", Parents[p][i], <<>>) \in Step
    BY <2>1, <2>2, MadeType
  <2> QED  BY <2>1, <2>3, ParentsType, OnParentsType
<1>2. ASSUME NEW i \in 1..n + 1
      PROVE  /\ i - 1 \in Nat /\ Up(i - 1) \in [Path -> Nat]
             /\ \A x \in Path : Up(i - 1)[x] = Times(Parents[p], i - 1, x)
  <2>1. i - 1 \in Nat
    BY <1>1
  <2> QED  BY <2>1, TimesStep
<1>3. ASSUME NEW i \in 1..n + 1
      PROVE  /\ H[i] \in Hold /\ H[i].w = h.w
             /\ \A x \in Path : H[i].r[x] = Less(h.r[x], Times(Parents[p], i - 1, x))
  <2> HIDE DEF Up
  <2> QED  BY <1>2, MinusType
<1>4. H[1] = h
  <2>1. 1 \in 1..n + 1 /\ 1 - 1 = 0
    BY <1>1
  <2>2. ASSUME NEW x \in Path PROVE H[1].r[x] = h.r[x]
    <3>1. h.r[x] \in Nat /\ Times(Parents[p], 1 - 1, x) = 0
      BY <2>1, HoldType, TimesStep
    <3>2. Less(h.r[x], Times(Parents[p], 1 - 1, x)) = h.r[x]
      BY <3>1, LessSteps
    <3> HIDE DEF H
    <3> QED  BY <2>1, <3>2, <1>3
  <2> HIDE DEF H
  <2> QED  BY <2>1, <2>2, <1>3, HoldEqual
<1>5. H[n + 1] = Minus(h, AboveOf(p))
  <2>1. n + 1 \in 1..n + 1 /\ (n + 1) - 1 = n
    BY <1>1
  <2>2. Up(n) = AboveOf(p)
    BY DEF AboveOf, Above
  <2> HIDE DEF Up
  <2> QED  BY <2>1, <2>2
<1>6. H \in [1..n + 1 -> Hold]
  BY <1>3
<1> HIDE DEF H, Up, s
<1>7. ASSUME NEW i \in 1..n
      PROVE  <<s[i], H[i]>> \in Good0 /\ Leads(s[i], H[i], H[i + 1])
  <2> DEFINE y == Parents[p][i]
  <2>1. y \in Path /\ i \in 1..n + 1 /\ i + 1 \in 1..n + 1 /\ (i + 1) - 1 = (i - 1) + 1
    BY <1>1
  <2>2. ASSUME NEW x \in Path
        PROVE  Less(h.r[x], Times(Parents[p], (i + 1) - 1, x))
                 = IF y = x THEN Less(Less(h.r[x], Times(Parents[p], i - 1, x)), 1)
                            ELSE Less(h.r[x], Times(Parents[p], i - 1, x))
    <3>2. /\ h.r[x] \in Nat /\ Times(Parents[p], i - 1, x) \in Nat
          /\ Times(Parents[p], (i + 1) - 1, x)
               = IF y = x THEN Times(Parents[p], i - 1, x) + 1
                          ELSE Times(Parents[p], i - 1, x)
      BY <1>1, TimesNext, HoldType
    <3>3. Less(Less(h.r[x], Times(Parents[p], i - 1, x)), 1)
            = Less(h.r[x], Times(Parents[p], i - 1, x) + 1)
      BY <3>2, LessSteps
    <3> QED  BY <3>2, <3>3
  <2>3. s[i] = Made("unshare", y, <<>>)
    BY <1>1
  <2> HIDE DEF y
  <2>4. s[i].do = "unshare" /\ s[i].path = y
    BY <2>3 DEF Made
  <2>5. <<s[i], H[i]>> \in Good0
    BY <2>1, <2>4, <1>1, <1>3 DEF Good0
  <2>6. \A x \in Path : H[i + 1].r[x] = ReadsAfter(s[i], H[i], x)
    BY <2>1, <2>2, <2>4, <1>3 DEF ReadsAfter
  <2>7. H[i + 1].w = WritesAfter(s[i], H[i])
    BY <2>1, <2>4, <1>3 DEF WritesAfter
  <2> QED  BY <2>5, <2>6, <2>7 DEF Leads
<1>8. Chain(Good0, s, H)
  BY <1>1, <1>6, <1>7 DEF Chain
<1>9. Run(Good0, s, h, Minus(h, AboveOf(p)))
  BY <1>1, <1>4, <1>5, <1>6, <1>8 DEF Run
<1> QED
  BY <1>9 DEF s

Only(p) == [x \in Path |-> IF x = p THEN 1 ELSE 0]

LEMMA OnlyType ==
  ASSUME NEW p \in Path
  PROVE  Only(p) \in [Path -> Nat] /\ \A x \in Path : Only(p)[x] = IF x = p THEN 1 ELSE 0
BY DEF Only

LEMMA Locks ==
  ASSUME NEW G, NEW p \in Path, NEW otherwise \in Seq(Step1), NEW h \in Hold,
         \A k \in Hold : \A y \in Path :
           k.w = h.w /\ (\A x \in Path : k.r[x] <= h.r[x] + Needs(p, x))
           => <<Made("share", y, otherwise), k>> \in G
  PROVE  Run(G, LockFile(p, otherwise), h, Plus(h, NeedsOf(p)))
<1>1. PICK g \in Hold : g = Plus(h, Only(p))
  BY OnlyType, PlusType
<1>2. /\ g.w = h.w
      /\ \A x \in Path : /\ g.r[x] = IF x = p THEN h.r[x] + 1 ELSE h.r[x]
                         /\ h.r[x] \in Nat /\ Above(p, x) \in Nat
                         /\ Needs(p, x) = IF x = p THEN Above(p, x) + 1 ELSE Above(p, x)
  <2>1. Only(p) \in [Path -> Nat] /\ \A x \in Path : Only(p)[x] = IF x = p THEN 1 ELSE 0
    BY OnlyType
  <2>2. g.w = h.w /\ \A x \in Path : g.r[x] = h.r[x] + Only(p)[x]
    BY <1>1, <2>1, PlusType
  <2>3. \A x \in Path : h.r[x] \in Nat
    BY HoldType
  <2>4. ASSUME NEW x \in Path PROVE g.r[x] = IF x = p THEN h.r[x] + 1 ELSE h.r[x]
    BY <2>1, <2>2, <2>3
  <2> QED  BY <2>2, <2>3, <2>4, NeedsType DEF Needs
<1>3. "share" \in Doing
  BY DEF Doing
<1>4. PICK c \in Step : /\ c = Made("share", p, otherwise) /\ Call("share", p, otherwise) = <<c>>
                        /\ c.do = "share" /\ c.path = p
  BY <1>3, CallMade
<1>5. <<c, h>> \in G
  <2>1. \A x \in Path : h.r[x] <= h.r[x] + Needs(p, x)
    BY <1>2, NeedsType
  <2> QED  BY <1>4, <2>1
<1>6. Leads(c, h, g)
  BY <1>2, <1>4 DEF Leads, ReadsAfter, WritesAfter
<1>7. Run(G, <<c>>, h, g)
  BY <1>5, <1>6, RunOne
<1>8. Run(G, OnParents("share", p, otherwise), g, Plus(g, AboveOf(p)))
  <2>1. ASSUME NEW k \in Hold, NEW y \in Path, k.w = g.w,
               \A x \in Path : k.r[x] <= g.r[x] + Above(p, x)
        PROVE  <<Made("share", y, otherwise), k>> \in G
    <3>1. ASSUME NEW x \in Path PROVE k.r[x] <= h.r[x] + Needs(p, x)
      <4>1. /\ k.r[x] <= g.r[x] + Above(p, x) /\ k.r[x] \in Nat /\ h.r[x] \in Nat
            /\ g.r[x] = IF x = p THEN h.r[x] + 1 ELSE h.r[x]
            /\ Above(p, x) \in Nat
            /\ Needs(p, x) = IF x = p THEN Above(p, x) + 1 ELSE Above(p, x)
        BY <1>2, <2>1, HoldType
      <4> QED  BY <4>1
    <3> QED  BY <1>2, <2>1, <3>1
  <2> QED  BY <2>1, ShareParents
<1>9. Plus(g, AboveOf(p)) = Plus(h, NeedsOf(p))
  <2>1. /\ Plus(g, AboveOf(p)) \in Hold /\ Plus(h, NeedsOf(p)) \in Hold
        /\ Plus(g, AboveOf(p)).w = Plus(h, NeedsOf(p)).w
    BY <1>2, PlusOf
  <2>2. ASSUME NEW x \in Path
        PROVE  Plus(g, AboveOf(p)).r[x] = Plus(h, NeedsOf(p)).r[x]
    <3>1. /\ Plus(g, AboveOf(p)).r[x] = g.r[x] + Above(p, x)
          /\ Plus(h, NeedsOf(p)).r[x] = h.r[x] + Needs(p, x)
      BY PlusOf
    <3>2. /\ g.r[x] = IF x = p THEN h.r[x] + 1 ELSE h.r[x]
          /\ Above(p, x) \in Nat /\ h.r[x] \in Nat
          /\ Needs(p, x) = IF x = p THEN Above(p, x) + 1 ELSE Above(p, x)
      BY <1>2
    <3> QED  BY <3>1, <3>2
  <2> QED  BY <2>1, <2>2, HoldEqual
<1> QED
  BY <1>4, <1>7, <1>8, <1>9, RunJoin DEF LockFile

LEMMA Unlocks ==
  ASSUME NEW p \in Path, NEW h \in Hold
  PROVE  Run(Good0, UnlockFile(p, "unshare"), h, Minus(h, NeedsOf(p)))
<1>1. PICK g \in Hold : g = Minus(h, Only(p))
  BY OnlyType, MinusType
<1>2. /\ g.w = h.w
      /\ \A x \in Path : g.r[x] = IF x = p THEN Less(h.r[x], 1) ELSE h.r[x]
  <2>1. ASSUME NEW x \in Path PROVE g.r[x] = IF x = p THEN Less(h.r[x], 1) ELSE h.r[x]
    <3>1. g.r[x] = Less(h.r[x], Only(p)[x]) /\ h.r[x] \in Nat
      BY <1>1, OnlyType, MinusType, HoldType
    <3> QED  BY <3>1, OnlyType, LessSteps
  <2> QED  BY <1>1, <2>1, OnlyType, MinusType
<1>3. "unshare" \in Doing /\ <<>> \in Seq(Step1)
  BY StepLevels DEF Doing
<1>4. PICK c \in Step : /\ c = Made("unshare", p, <<>>) /\ Call("unshare", p, <<>>) = <<c>>
                        /\ c.do = "unshare" /\ c.path = p
  BY <1>3, CallBare
<1>5. <<c, h>> \in Good0
  BY <1>4 DEF Good0
<1>6. Leads(c, h, g)
  BY <1>2, <1>4 DEF Leads, ReadsAfter, WritesAfter
<1>7. Run(Good0, <<c>>, h, g)
  BY <1>5, <1>6, RunOne
<1>8. Run(Good0, OnParents("unshare", p, <<>>), g, Minus(g, AboveOf(p)))
  BY UnshareParents
<1>9. Minus(g, AboveOf(p)) = Minus(h, NeedsOf(p))
  <2>1. /\ Minus(g, AboveOf(p)) \in Hold /\ Minus(h, NeedsOf(p)) \in Hold
        /\ Minus(g, AboveOf(p)).w = Minus(h, NeedsOf(p)).w
    BY <1>2, MinusOf
  <2>2. ASSUME NEW x \in Path
        PROVE  Minus(g, AboveOf(p)).r[x] = Minus(h, NeedsOf(p)).r[x]
    <3>1. /\ Minus(g, AboveOf(p)).r[x] = Less(g.r[x], Above(p, x))
          /\ Minus(h, NeedsOf(p)).r[x] = Less(h.r[x], Needs(p, x))
      BY MinusOf
    <3>2. h.r[x] \in Nat /\ Above(p, x) \in Nat
      BY HoldType, NeedsType
    <3>3. x = p => Above(p, x) = 0
      BY NeedsThem
    <3> QED  BY <1>2, <3>1, <3>2, <3>3 DEF Needs, Less
  <2> QED  BY <2>1, <2>2, HoldEqual
<1> QED
  BY <1>4, <1>7, <1>8, <1>9, RunJoin DEF UnlockFile

Freed(h, p) == [r |-> Minus(h, AboveOf(p)).r, w |-> h.w \ {p}]

LEMMA FreedType ==
  ASSUME NEW h \in Hold, NEW p \in Path
  PROVE  /\ Freed(h, p) \in Hold /\ Freed(h, p).w = h.w \ {p}
         /\ \A x \in Path : Freed(h, p).r[x] = Less(h.r[x], Above(p, x))
<1>1. /\ Minus(h, AboveOf(p)).r \in [Path -> Nat] /\ h.w \ {p} \in SUBSET Path
      /\ \A x \in Path : Minus(h, AboveOf(p)).r[x] = Less(h.r[x], Above(p, x))
  BY MinusOf, HoldType
<1> QED
  BY <1>1, MadeHold DEF Freed

LEMMA Frees ==
  ASSUME NEW p \in Path, NEW h \in Hold, p \in h.w
  PROVE  Run(Good0, UnlockFile(p, "free"), h, Freed(h, p))
<1>1. PICK g \in Hold : g.r = h.r /\ g.w = h.w \ {p}
  BY HoldType, MadeHold
<1>2. "free" \in Doing /\ <<>> \in Seq(Step1)
  BY StepLevels DEF Doing
<1>3. PICK c \in Step : /\ c = Made("free", p, <<>>) /\ Call("free", p, <<>>) = <<c>>
                        /\ c.do = "free" /\ c.path = p
  BY <1>2, CallBare
<1>4. <<c, h>> \in Good0
  BY <1>3 DEF Good0
<1>5. Leads(c, h, g)
  BY <1>1, <1>3 DEF Leads, ReadsAfter, WritesAfter
<1>6. Run(Good0, <<c>>, h, g)
  BY <1>4, <1>5, RunOne
<1>7. Run(Good0, OnParents("unshare", p, <<>>), g, Minus(g, AboveOf(p)))
  BY UnshareParents
<1>8. Minus(g, AboveOf(p)) = Freed(h, p)
  <2>1. /\ Minus(g, AboveOf(p)) \in Hold /\ Freed(h, p) \in Hold
        /\ Minus(g, AboveOf(p)).w = Freed(h, p).w
    BY <1>1, MinusOf, FreedType
  <2>2. ASSUME NEW x \in Path PROVE Minus(g, AboveOf(p)).r[x] = Freed(h, p).r[x]
    <3>1. Minus(g, AboveOf(p)).r[x] = Less(g.r[x], Above(p, x))
      BY MinusOf
    <3>2. Freed(h, p).r[x] = Less(h.r[x], Above(p, x))
      BY FreedType
    <3> QED  BY <1>1, <3>1, <3>2
  <2> QED  BY <2>1, <2>2, HoldEqual
<1> QED
  BY <1>3, <1>6, <1>7, <1>8, RunJoin DEF UnlockFile

-----------------------------------------------------------------------------
(* What is given back when the holds are known.                             *)

LEMMA UnlocksAll ==
  ASSUME NEW p \in Path, NEW h \in Hold, h.w = {}, \A x \in Path : h.r[x] <= Needs(p, x)
  PROVE  Run(Good0, UnlockFile(p, "unshare"), h, Zero)
<1>1. ASSUME NEW x \in Path PROVE Minus(h, NeedsOf(p)).r[x] = 0
  <2>1. Less(h.r[x], Needs(p, x)) = 0
    BY HoldType, NeedsType, LessSteps
  <2> QED  BY <2>1, MinusOf
<1>2. Minus(h, NeedsOf(p)) = Zero
  <2>1. Minus(h, NeedsOf(p)) \in Hold /\ Zero \in Hold
    BY MinusOf, ZeroType
  <2>2. /\ Minus(h, NeedsOf(p)).w = Zero.w
        /\ \A x \in Path : Minus(h, NeedsOf(p)).r[x] = Zero.r[x]
    BY <1>1, MinusOf, ZeroType
  <2> QED  BY <2>1, <2>2, HoldEqual
<1> QED
  BY <1>2, Unlocks

LEMMA UnlocksBoth ==
  ASSUME NEW p \in Path, NEW q \in Path, NEW h \in Hold,
         h.w = {}, \A x \in Path : h.r[x] <= Needs(p, x) + Needs(q, x)
  PROVE  Run(Good0, UnlockFile(p, "unshare") \o UnlockFile(q, "unshare"), h, Zero)
<1>1. PICK g \in Hold : g = Minus(h, NeedsOf(p))
  BY MinusOf
<1>2. Run(Good0, UnlockFile(p, "unshare"), h, g)
  BY <1>1, Unlocks
<1>3. g.w = {}
  BY <1>1, MinusOf
<1>4. ASSUME NEW x \in Path PROVE g.r[x] <= Needs(q, x)
  <2>1. g.r[x] = Less(h.r[x], Needs(p, x))
    BY <1>1, MinusOf
  <2>2. h.r[x] \in Nat /\ Needs(p, x) \in Nat /\ Needs(q, x) \in Nat
    BY HoldType, NeedsType
  <2> QED  BY <2>1, <2>2 DEF Less
<1>5. Run(Good0, UnlockFile(q, "unshare"), g, Zero)
  BY <1>3, <1>4, UnlocksAll
<1> QED
  BY <1>2, <1>5, RunJoin

LEMMA FreesAll ==
  ASSUME NEW p \in Path, NEW h \in Hold, h.w = {p}, \A x \in Path : h.r[x] <= Above(p, x)
  PROVE  Run(Good0, UnlockFile(p, "free"), h, Zero)
<1>1. ASSUME NEW x \in Path PROVE Freed(h, p).r[x] = 0
  <2>1. Less(h.r[x], Above(p, x)) = 0
    BY HoldType, NeedsType, LessSteps
  <2> QED  BY <2>1, FreedType
<1>2. Freed(h, p).w = {}
  BY FreedType
<1>3. Freed(h, p) = Zero
  <2>1. Freed(h, p) \in Hold /\ Zero \in Hold
    BY FreedType, ZeroType
  <2>2. Freed(h, p).w = Zero.w /\ \A x \in Path : Freed(h, p).r[x] = Zero.r[x]
    BY <1>1, <1>2, ZeroType
  <2> QED  BY <2>1, <2>2, HoldEqual
<1> QED
  BY <1>3, Frees

LEMMA FreesBoth ==
  ASSUME NEW p \in Path, NEW q \in Path, NEW h \in Hold,
         h.w = {p}, \A x \in Path : h.r[x] <= Above(p, x) + Needs(q, x)
  PROVE  Run(Good0, UnlockFile(p, "free") \o UnlockFile(q, "unshare"), h, Zero)
<1>1. PICK g \in Hold : g = Freed(h, p)
  BY FreedType
<1>2. Run(Good0, UnlockFile(p, "free"), h, g)
  BY <1>1, Frees
<1>3. g.w = {}
  BY <1>1, FreedType
<1>4. ASSUME NEW x \in Path PROVE g.r[x] <= Needs(q, x)
  <2>1. g.r[x] = Less(h.r[x], Above(p, x))
    BY <1>1, FreedType
  <2>2. h.r[x] \in Nat /\ Above(p, x) \in Nat /\ Needs(q, x) \in Nat
    BY HoldType, NeedsType
  <2> QED  BY <2>1, <2>2 DEF Less
<1>5. Run(Good0, UnlockFile(q, "unshare"), g, Zero)
  BY <1>3, <1>4, UnlocksAll
<1> QED
  BY <1>2, <1>5, RunJoin

LEMMA UnlockType ==
  ASSUME NEW p \in Path, NEW release \in {"unshare", "free"}
  PROVE  UnlockFile(p, release) \in Seq(Step0)
<1> DEFINE s == OnParents("unshare", p, <<>>)
           n == Len(Parents[p])
<1>1. /\ n \in Nat /\ DOMAIN Parents[p] = 1..n /\ \A i \in 1..n : Parents[p][i] \in Path
  BY ParentsType
<1>2. "unshare" \in Doing /\ release \in Doing
  BY DEF Doing
<1>3. s \in [1..n -> Step0]
  <2>1. \A i \in 1..n : Made("unshare", Parents[p][i], <<>>) \in Step0
    BY <1>1, <1>2, MadeType
  <2>2. s = [i \in 1..n |-> Made("unshare", Parents[p][i], <<>>)]
    BY <1>1 DEF OnParents, Call, Made
  <2> QED  BY <2>1, <2>2
<1>4. s \in Seq(Step0)
  BY <1>1, <1>3
<1>5. Call(release, p, <<>>) \in Seq(Step0)
  <2>1. PICK c \in Step0 : c = Made(release, p, <<>>)
    BY <1>2, MadeType
  <2>2. Call(release, p, <<>>) = <<c>>
    BY <2>1 DEF Call, Made
  <2>3. <<c>> \in Seq(Step0)
    OBVIOUS
  <2> QED  BY <2>2, <2>3
<1> HIDE DEF s
<1> QED
  BY <1>4, <1>5, ConcatProperties DEF UnlockFile, s

-----------------------------------------------------------------------------
(* Each call of an operation, as a chain of its own.                        *)

LEMMA ShareRuns ==
  ASSUME NEW o, NEW p \in Path, NEW otherwise \in Seq(Step1), NEW h \in Hold,
         \A k \in Hold : k.w = h.w /\ (\A x \in Path : k.r[x] <= h.r[x] + Needs(p, x))
           => Caught(Good0, otherwise, k)
  PROVE  \E g \in Hold : /\ g.w = h.w /\ \A x \in Path : g.r[x] = h.r[x] + Needs(p, x)
                         /\ Run(Good(o), LockFile(p, otherwise), h, g)
<1>1. ASSUME NEW k \in Hold, NEW y \in Path, k.w = h.w,
             \A x \in Path : k.r[x] <= h.r[x] + Needs(p, x)
      PROVE  <<Made("share", y, otherwise), k>> \in Good(o)
  <2>1. "share" \in Doing
    BY DEF Doing
  <2>2. PICK c \in Step : c = Made("share", y, otherwise) /\ c.do = "share" /\ c.otherwise = otherwise
    BY <2>1, CallMade
  <2>3. Caught(Good0, c.otherwise, k)
    BY <1>1, <2>2
  <2> QED  BY <2>2, <2>3 DEF Good
<1>2. Run(Good(o), LockFile(p, otherwise), h, Plus(h, NeedsOf(p)))
  BY <1>1, Locks
<1> QED
  BY <1>2, PlusOf

LEMMA HookRuns ==
  ASSUME NEW o, NEW p \in Path, NEW otherwise \in Seq(Step1), NEW h \in Hold,
         Caught(Good0, otherwise, h)
  PROVE  Run(Good(o), Call("hook", p, otherwise), h, h)
<1>1. "hook" \in Doing
  BY DEF Doing
<1>2. PICK c \in Step : /\ Call("hook", p, otherwise) = <<c>>
                        /\ c.do = "hook" /\ c.otherwise = otherwise
  BY <1>1, CallMade
<1>3. <<c, h>> \in Good(o)
  BY <1>2 DEF Good
<1>4. Leads(c, h, h)
  BY <1>2 DEF Leads, ReadsAfter, WritesAfter
<1> QED
  BY <1>2, <1>3, <1>4, RunOne

LEMMA WorkRuns ==
  ASSUME NEW o, NEW p \in Path, NEW otherwise \in Seq(Step1), NEW h \in Hold,
         Secured(o, h), Caught(Good1, otherwise, h)
  PROVE  Run(Good(o), Call("work", p, otherwise), h, h)
<1>1. "work" \in Doing
  BY DEF Doing
<1>2. PICK c \in Step : /\ Call("work", p, otherwise) = <<c>>
                        /\ c.do = "work" /\ c.otherwise = otherwise
  BY <1>1, CallMade
<1>3. <<c, h>> \in Good(o)
  BY <1>2 DEF Good
<1>4. Leads(c, h, h)
  BY <1>2 DEF Leads, ReadsAfter, WritesAfter
<1> QED
  BY <1>2, <1>3, <1>4, RunOne

\* What is outside of any try.
LEMMA BareRuns ==
  ASSUME NEW o, NEW p \in Path, NEW h \in Hold
  PROVE  /\ Run(Good(o), Call("hook", p, <<>>), h, h)
         /\ Secured(o, h) => Run(Good(o), Call("work", p, <<>>), h, h)
<1>1. PICK none \in Seq(Step1) : none = <<>>
  BY StepLevels
<1>2. Caught(Good0, none, h) /\ Caught(Good1, none, h)
  BY <1>1 DEF Caught
<1> QED
  BY <1>1, <1>2, HookRuns, WorkRuns

LEMMA AskRuns ==
  ASSUME NEW o, NEW p \in Path, NEW unlock \in Seq(Step1), NEW h \in Hold,
         Run(Good0, unlock, h, Zero)
  PROVE  Run(Good(o), Ask(p, unlock), h, h)
<1>1. Run(Good(o), Call("hook", p, <<>>), h, h)
  BY BareRuns
<1>2. Run(Good(o), Call("hook", p, unlock), h, h)
  BY HookRuns DEF Caught
<1> QED
  BY <1>1, <1>2, RunJoin DEF Ask

LEMMA RaiseRuns ==
  ASSUME NEW o, NEW p \in Path, NEW otherwise \in Seq(Step1), NEW h \in Hold,
         h.r[p] > 0, Run(Good1, otherwise, h, Zero)
  PROVE  \E g \in Hold : /\ g.w = h.w \cup {p}
                         /\ \A x \in Path : g.r[x] = IF x = p THEN h.r[x] - 1 ELSE h.r[x]
                         /\ Run(Good(o), Call("raise", p, otherwise), h, g)
<1>1. "raise" \in Doing
  BY DEF Doing
<1>2. PICK c \in Step : /\ Call("raise", p, otherwise) = <<c>>
                        /\ c.do = "raise" /\ c.path = p /\ c.otherwise = otherwise
  BY <1>1, CallMade
<1> DEFINE f == [x \in Path |-> IF x = p THEN h.r[x] - 1 ELSE h.r[x]]
<1>3. f \in [Path -> Nat] /\ h.w \cup {p} \in SUBSET Path
  BY HoldType
<1>4. PICK g \in Hold : g.r = f /\ g.w = h.w \cup {p}
  BY <1>3, MadeHold
<1>5. \A x \in Path : g.r[x] = IF x = p THEN h.r[x] - 1 ELSE h.r[x]
  BY <1>4
<1>6. <<c, h>> \in Good(o)
  BY <1>2 DEF Good
<1>7. Leads(c, h, g)
  <2>1. ASSUME NEW x \in Path PROVE g.r[x] = ReadsAfter(c, h, x)
    BY <1>2, <1>5, HoldType DEF ReadsAfter, Less
  <2> QED  BY <1>2, <1>4, <2>1 DEF Leads, WritesAfter
<1> QED
  BY <1>2, <1>4, <1>5, <1>6, <1>7, RunOne

LEMMA LowerRuns ==
  ASSUME NEW p \in Path, NEW otherwise \in Seq(Step1), NEW h \in Hold, p \in h.w
  PROVE  \E g \in Hold : /\ g.w = h.w \ {p}
                         /\ \A x \in Path : g.r[x] = IF x = p THEN h.r[x] + 1 ELSE h.r[x]
                         /\ Run(Good1, Call("lower", p, otherwise), h, g)
<1>1. "lower" \in Doing
  BY DEF Doing
<1>2. PICK c \in Step : /\ Call("lower", p, otherwise) = <<c>>
                        /\ c.do = "lower" /\ c.path = p /\ c.otherwise = otherwise
  BY <1>1, CallMade
<1> DEFINE f == [x \in Path |-> IF x = p THEN h.r[x] + 1 ELSE h.r[x]]
<1>3. f \in [Path -> Nat] /\ h.w \ {p} \in SUBSET Path
  BY HoldType
<1>4. PICK g \in Hold : g.r = f /\ g.w = h.w \ {p}
  BY <1>3, MadeHold
<1>5. \A x \in Path : g.r[x] = IF x = p THEN h.r[x] + 1 ELSE h.r[x]
  BY <1>4
<1>6. <<c, h>> \in Good1
  BY <1>2 DEF Good1
<1>7. Leads(c, h, g)
  BY <1>2, <1>4, <1>5 DEF Leads, ReadsAfter, WritesAfter
<1> QED
  BY <1>2, <1>4, <1>5, <1>6, <1>7, RunOne

\* What is not locked exclusively is not lowered.
LEMMA LowerFails ==
  ASSUME NEW p \in Path, NEW otherwise \in Seq(Step1), NEW h \in Hold, p \notin h.w,
         Run(Good0, otherwise, h, Zero)
  PROVE  Run(Good1, Call("lower", p, otherwise), h, h)
<1>1. "lower" \in Doing
  BY DEF Doing
<1>2. PICK c \in Step : /\ Call("lower", p, otherwise) = <<c>>
                        /\ c.do = "lower" /\ c.path = p /\ c.otherwise = otherwise
  BY <1>1, CallMade
<1>3. <<c, h>> \in Good1
  BY <1>2 DEF Good1
<1>4. Leads(c, h, h)
  BY <1>2 DEF Leads, ReadsAfter, WritesAfter
<1> QED
  BY <1>2, <1>3, <1>4, RunOne

-----------------------------------------------------------------------------
(* The operations: chains that start and end with nothing held.             *)

\* Before an operation locks its first path, it may be refused.
LEMMA FirstLocks ==
  ASSUME NEW o, NEW p \in Path
  PROVE  \E g \in Hold : /\ g.w = {} /\ \A x \in Path : g.r[x] = Needs(p, x)
                         /\ Run(Good(o), LockFile(p, <<>>), Zero, g)
<1>1. PICK none \in Seq(Step1) : none = <<>>
  BY StepLevels
<1>2. PICK g \in Hold : /\ g.w = Zero.w /\ \A x \in Path : g.r[x] = Zero.r[x] + Needs(p, x)
                        /\ Run(Good(o), LockFile(p, none), Zero, g)
  <2>1. \A k \in Hold : Caught(Good0, none, k)
    BY <1>1 DEF Caught
  <2> QED  BY <2>1, ZeroType, ShareRuns
<1>3. ASSUME NEW x \in Path PROVE g.r[x] = Needs(p, x)
  BY <1>2, ZeroType, NeedsType
<1> QED
  BY <1>1, <1>2, <1>3, ZeroType

LEMMA ReadRuns ==
  ASSUME NEW o, NEW p \in Path, o.writes = {}, o.reads = {p}
  PROVE  Run(Good(o), Read(p), Zero, Zero)
<1> DEFINE unlock == UnlockFile(p, "unshare")
<1>1. unlock \in Seq(Step0) /\ unlock \in Seq(Step1)
  BY UnlockType, StepLevels
<1>2. PICK k \in Hold : /\ k.w = {} /\ \A x \in Path : k.r[x] = Needs(p, x)
                        /\ Run(Good(o), LockFile(p, <<>>), Zero, k)
  BY FirstLocks
<1>3. Run(Good0, unlock, k, Zero)
  <2>1. \A x \in Path : k.r[x] <= Needs(p, x)
    BY <1>2, NeedsType
  <2> QED  BY <1>2, <2>1, UnlocksAll
<1> HIDE DEF unlock
<1>4. Run(Good1, unlock, k, Zero) /\ Run(Good(o), unlock, k, Zero)
  BY <1>3, GoodLevels, RunLift
<1>5. Secured(o, k)
  <2>1. k.r[p] > 0
    BY <1>2, NeedsThem
  <2>2. ASSUME NEW i \in DOMAIN Parents[p] PROVE k.r[Parents[p][i]] > 0
    <3>1. Parents[p][i] \in Path /\ Needs(p, Parents[p][i]) >= 1 /\ Needs(p, Parents[p][i]) \in Nat
      BY ParentsType, NeedsThem, NeedsType
    <3> QED  BY <3>1, <1>2
  <2> QED  BY <1>2, <2>1, <2>2 DEF Secured
<1>6. Run(Good(o), Call("work", p, unlock), k, k)
  BY <1>1, <1>4, <1>5, WorkRuns DEF Caught
<1>7. Run(Good(o), Ask(p, unlock), k, k) /\ Run(Good(o), Call("hook", p, <<>>), k, k)
  BY <1>1, <1>3, AskRuns, BareRuns
<1>8. Run(Good(o), LockFile(p, <<>>) \o Ask(p, unlock), Zero, k)
  BY <1>2, <1>7, RunJoin
<1>9. Run(Good(o), (LockFile(p, <<>>) \o Ask(p, unlock)) \o Call("work", p, unlock), Zero, k)
  BY <1>6, <1>8, RunJoin
<1>10. Run(Good(o), ((LockFile(p, <<>>) \o Ask(p, unlock)) \o Call("work", p, unlock))
                    \o Call("hook", p, <<>>), Zero, k)
  BY <1>7, <1>9, RunJoin
<1>11. Run(Good(o), (((LockFile(p, <<>>) \o Ask(p, unlock)) \o Call("work", p, unlock))
                    \o Call("hook", p, <<>>)) \o unlock, Zero, Zero)
  BY <1>4, <1>10, RunJoin
<1> QED
  BY <1>11 DEF Read, unlock

LEMMA StoredRuns ==
  ASSUME NEW o, NEW p \in Path, o.writes = {p}, o.reads = {}, NEW rest \in {"hook", "work"}
  PROVE  Run(Good(o), Stored(p, rest), Zero, Zero)
<1> DEFINE unlock == UnlockFile(p, "unshare")
           free == UnlockFile(p, "free")
<1>1. /\ unlock \in Seq(Step1) /\ free \in Seq(Step1)
  BY UnlockType, StepLevels
<1>2. PICK k \in Hold : /\ k.w = {} /\ \A x \in Path : k.r[x] = Needs(p, x)
                        /\ Run(Good(o), LockFile(p, <<>>), Zero, k)
  BY FirstLocks
<1>3. Run(Good0, unlock, k, Zero)
  <2>1. \A x \in Path : k.r[x] <= Needs(p, x)
    BY <1>2, NeedsType
  <2> QED  BY <1>2, <2>1, UnlocksAll
<1> HIDE DEF unlock
<1>4. Run(Good1, unlock, k, Zero)
  BY <1>3, GoodLevels, RunLift
<1>5. Run(Good(o), Ask(p, unlock), k, k) /\ Run(Good(o), Call("hook", p, <<>>), k, k)
  BY <1>1, <1>3, AskRuns, BareRuns
<1>6. PICK g \in Hold : /\ g.w = k.w \cup {p}
                        /\ \A x \in Path : g.r[x] = IF x = p THEN k.r[x] - 1 ELSE k.r[x]
                        /\ Run(Good(o), Call("raise", p, unlock), k, g)
  <2>1. k.r[p] > 0
    BY <1>2, NeedsThem
  <2> QED  BY <2>1, <1>1, <1>4, RaiseRuns
<1>7. /\ g.w = {p} /\ \A x \in Path : g.r[x] = Above(p, x)
  BY <1>2, <1>6, NeedsThem, NeedsType DEF Needs
<1>8. Run(Good1, free, g, Zero)
  <2>1. \A x \in Path : g.r[x] <= Above(p, x)
    BY <1>7, NeedsType
  <2>2. Run(Good0, free, g, Zero)
    BY <1>7, <2>1, FreesAll
  <2> QED  BY <2>2, GoodLevels, RunLift
<1> HIDE DEF free
<1>9. Secured(o, g)
  <2>1. ASSUME NEW i \in DOMAIN Parents[p] PROVE g.r[Parents[p][i]] > 0
    <3>1. /\ Parents[p][i] \in Path /\ Parents[p][i] # p
          /\ Needs(p, Parents[p][i]) >= 1 /\ Needs(p, Parents[p][i]) \in Nat
      BY ParentsType, NeedsThem, NeedsType
    <3> QED  BY <3>1, <1>7 DEF Needs
  <2> QED  BY <1>7, <2>1 DEF Secured
<1>10. Run(Good(o), Call("work", p, free), g, g) /\ Run(Good(o), Call(rest, p, <<>>), g, g)
  BY <1>1, <1>8, <1>9, WorkRuns, BareRuns DEF Caught
<1>11. Run(Good(o), Call("lower", p, <<>>), g, k)
  <2>1. PICK none \in Seq(Step1) : none = <<>>
    BY StepLevels
  <2>2. PICK m \in Hold : /\ m.w = g.w \ {p}
                          /\ \A x \in Path : m.r[x] = IF x = p THEN g.r[x] + 1 ELSE g.r[x]
                          /\ Run(Good1, Call("lower", p, none), g, m)
    BY <1>7, LowerRuns
  <2>3. m = k
    <3>1. ASSUME NEW x \in Path PROVE m.r[x] = k.r[x]
      BY <1>2, <1>7, <2>2 DEF Needs
    <3>2. m.w = k.w
      BY <1>2, <1>7, <2>2
    <3> QED  BY <3>1, <3>2, HoldEqual
  <2> QED  BY <2>1, <2>2, <2>3, GoodLevels, RunLift
<1>12. Run(Good(o), LockFile(p, <<>>) \o Ask(p, unlock), Zero, k)
  BY <1>2, <1>5, RunJoin
<1>13. Run(Good(o), unlock, k, Zero)
  BY <1>3, GoodLevels, RunLift
<1>14. Run(Good(o),
  (LockFile(p, <<>>) \o Ask(p, unlock))
  \o Call("raise", p, unlock),
  Zero, g)
  BY <1>6, <1>12, RunJoin
<1>15. Run(Good(o),
  ((LockFile(p, <<>>) \o Ask(p, unlock))
  \o Call("raise", p, unlock))
  \o Call("work", p, free),
  Zero, g)
  BY <1>10, <1>14, RunJoin
<1>16. Run(Good(o),
  (((LockFile(p, <<>>) \o Ask(p, unlock))
  \o Call("raise", p, unlock))
  \o Call("work", p, free))
  \o Call(rest, p, <<>>),
  Zero, g)
  BY <1>10, <1>15, RunJoin
<1>17. Run(Good(o),
  ((((LockFile(p, <<>>) \o Ask(p, unlock))
  \o Call("raise", p, unlock))
  \o Call("work", p, free))
  \o Call(rest, p, <<>>))
  \o Call("lower", p, <<>>),
  Zero, k)
  BY <1>11, <1>16, RunJoin
<1>18. Run(Good(o),
  (((((LockFile(p, <<>>) \o Ask(p, unlock))
  \o Call("raise", p, unlock))
  \o Call("work", p, free))
  \o Call(rest, p, <<>>))
  \o Call("lower", p, <<>>))
  \o Call("hook", p, <<>>),
  Zero, k)
  BY <1>5, <1>17, RunJoin
<1>19. Run(Good(o),
  ((((((LockFile(p, <<>>) \o Ask(p, unlock))
  \o Call("raise", p, unlock))
  \o Call("work", p, free))
  \o Call(rest, p, <<>>))
  \o Call("lower", p, <<>>))
  \o Call("hook", p, <<>>))
  \o unlock,
  Zero, Zero)
  BY <1>13, <1>18, RunJoin
<1> QED
  BY <1>19 DEF Stored, unlock, free

\* A rename locks both paths before it makes the first one exclusive; its
\* fallbacks release what has been locked of either.
LEMMA RenameRuns ==
  ASSUME NEW o, NEW p \in Path, NEW q \in Path, q \notin Within(p),
         o.writes = {p, q}, o.reads = {}
  PROVE  Run(Good(o), Rename(p, q), Zero, Zero)
<1> DEFINE unlock == UnlockFile(p, "unshare") \o UnlockFile(q, "unshare")
           LowerP == Call("lower", p, unlock)
           LowerQ == Call("lower", q, unlock)
           lower == (LowerP \o LowerQ) \o unlock
           G == Good(o)
<1>1. p # q /\ \A i \in 1..Len(Parents[q]) : Parents[q][i] # p
  BY ParentsType DEF Within
<1>2. unlock \in Seq(Step0) /\ unlock \in Seq(Step1)
  BY UnlockType, ConcatProperties, StepLevels
<1>3. ASSUME NEW h \in Hold, h.w = {}, \A x \in Path : h.r[x] <= Needs(p, x) + Needs(q, x)
      PROVE  Run(Good0, unlock, h, Zero)
  BY <1>3, UnlocksBoth
<1> HIDE DEF unlock
<1>4. lower \in Seq(Step1)
  <2>1. "lower" \in Doing
    BY DEF Doing
  <2>2. PICK c \in Step1, e \in Step1 : c = Made("lower", p, unlock) /\ e = Made("lower", q, unlock)
    BY <1>2, <2>1, MadeType
  <2>3. LowerP = <<c>> /\ LowerQ = <<e>>
    BY <2>2 DEF Call, Made
  <2>4. <<c>> \in Seq(Step1) /\ <<e>> \in Seq(Step1)
    OBVIOUS
  <2>5. LowerP \in Seq(Step1) /\ LowerQ \in Seq(Step1)
    BY <2>3, <2>4
  <2> HIDE DEF LowerP, LowerQ
  <2> QED  BY <1>2, <2>5, ConcatProperties
<1>5. \A x \in Path : Needs(p, x) \in Nat /\ Needs(q, x) \in Nat
  BY NeedsType
<1>6. PICK k1 \in Hold : /\ k1.w = {} /\ \A x \in Path : k1.r[x] = Needs(p, x)
                         /\ Run(G, LockFile(p, <<>>), Zero, k1)
  BY FirstLocks
<1>7. PICK k \in Hold : /\ k.w = k1.w /\ \A x \in Path : k.r[x] = k1.r[x] + Needs(q, x)
                        /\ Run(G, LockFile(q, unlock), k1, k)
  <2>1. ASSUME NEW h \in Hold, h.w = k1.w, \A x \in Path : h.r[x] <= k1.r[x] + Needs(q, x)
        PROVE  Caught(Good0, unlock, h)
    BY <2>1, <1>3, <1>6 DEF Caught
  <2> QED  BY <2>1, <1>2, ShareRuns
<1>8. k.w = {} /\ \A x \in Path : k.r[x] = Needs(p, x) + Needs(q, x)
  BY <1>6, <1>7
<1>9. Run(Good0, unlock, k, Zero) /\ Run(Good1, unlock, k, Zero) /\ Run(G, unlock, k, Zero)
  <2>1. Run(Good0, unlock, k, Zero)
    BY <1>3, <1>5, <1>8
  <2> QED  BY <2>1, GoodLevels, RunLift
<1>10. Run(G, Call("hook", p, unlock), k, k)
  BY <1>2, <1>9, HookRuns DEF Caught
<1>11. PICK k2 \in Hold : /\ k2.w = k.w \cup {p}
                          /\ \A x \in Path : k2.r[x] = IF x = p THEN k.r[x] - 1 ELSE k.r[x]
                          /\ Run(G, Call("raise", p, unlock), k, k2)
  <2>1. k.r[p] > 0
    BY <1>5, <1>8, NeedsThem
  <2> QED  BY <2>1, <1>2, <1>9, RaiseRuns
\* From either exclusive hold, lower leads back to what was shared.
<1>12. Run(Good1, LowerP, k2, k)
  <2>1. PICK m \in Hold : /\ m.w = k2.w \ {p}
                          /\ \A x \in Path : m.r[x] = IF x = p THEN k2.r[x] + 1 ELSE k2.r[x]
                          /\ Run(Good1, LowerP, k2, m)
    BY <1>2, <1>11, LowerRuns
  <2>2. ASSUME NEW x \in Path PROVE m.r[x] = k.r[x]
    BY <2>1, <1>5, <1>8, <1>11
  <2>3. m.w = k.w
    BY <2>1, <1>8, <1>11
  <2>4. m = k
    BY <2>2, <2>3, HoldEqual
  <2> QED  BY <2>1, <2>4
<1>13. Run(Good1, LowerQ, k, k)
  BY <1>2, <1>8, <1>9, LowerFails
<1>14. Run(Good1, lower, k2, Zero)
  <2> HIDE DEF LowerP, LowerQ
  <2>1. Run(Good1, LowerP \o LowerQ, k2, k)
    BY <1>12, <1>13, RunJoin
  <2> QED  BY <2>1, <1>9, RunJoin
<1>15. PICK g \in Hold : /\ g.w = k2.w \cup {q}
                         /\ \A x \in Path : g.r[x] = IF x = q THEN k2.r[x] - 1 ELSE k2.r[x]
                         /\ Run(G, Call("raise", q, lower), k2, g)
  <2>1. k2.r[q] > 0
    BY <1>1, <1>5, <1>8, <1>11, NeedsThem
  <2> HIDE DEF lower
  <2> QED  BY <2>1, <1>4, <1>14, RaiseRuns
<1>16. PICK m \in Hold : /\ m.w = g.w \ {p}
                         /\ \A x \in Path : m.r[x] = IF x = p THEN g.r[x] + 1 ELSE g.r[x]
                         /\ Run(Good1, LowerP, g, m)
  BY <1>2, <1>11, <1>15, LowerRuns
<1>17. Run(Good1, LowerQ, m, k)
  <2>1. PICK n \in Hold : /\ n.w = m.w \ {q}
                          /\ \A x \in Path : n.r[x] = IF x = q THEN m.r[x] + 1 ELSE m.r[x]
                          /\ Run(Good1, LowerQ, m, n)
    BY <1>1, <1>2, <1>15, <1>16, LowerRuns
  <2>2. ASSUME NEW x \in Path PROVE n.r[x] = k.r[x]
    BY <2>1, <1>1, <1>5, <1>8, <1>11, <1>15, <1>16
  <2>3. n.w = k.w
    BY <2>1, <1>8, <1>11, <1>15, <1>16
  <2> QED  BY <2>1, <2>2, <2>3, HoldEqual
<1>18. Run(Good1, lower, g, Zero) /\ Run(G, lower, g, Zero)
  <2> HIDE DEF LowerP, LowerQ
  <2>1. Run(Good1, LowerP \o LowerQ, g, k)
    BY <1>16, <1>17, RunJoin
  <2>2. Run(Good1, lower, g, Zero)
    BY <2>1, <1>9, RunJoin
  <2> HIDE DEF lower, G
  <2> QED  BY <2>2, GoodLevels, RunLift DEF G
<1>19. Secured(o, g)
  <2>1. ASSUME NEW y \in Path, y # p \/ Needs(q, y) > 0, y # q \/ Needs(p, y) > 0,
               Needs(p, y) > 0 \/ Needs(q, y) > 0
        PROVE  g.r[y] > 0
    <3>1. Needs(p, p) = 1 /\ Needs(q, q) = 1
      BY NeedsThem
    <3> QED  BY <2>1, <3>1, <1>1, <1>5, <1>8, <1>11, <1>15
  <2>2. ASSUME NEW i \in DOMAIN Parents[p] PROVE g.r[Parents[p][i]] > 0
    <3>1. PICK y \in Path : y = Parents[p][i] /\ y # p /\ Needs(p, y) >= 1
      BY ParentNeeded
    <3> QED  BY <2>1, <3>1, <1>5
  <2>3. ASSUME NEW i \in DOMAIN Parents[q] PROVE g.r[Parents[q][i]] > 0
    <3>1. PICK y \in Path : y = Parents[q][i] /\ y # q /\ Needs(q, y) >= 1
      BY ParentNeeded
    <3> QED  BY <2>1, <3>1, <1>5
  <2>4. o.writes \subseteq g.w
    BY <1>11, <1>15
  <2> QED  BY <2>2, <2>3, <2>4 DEF Secured
<1> HIDE DEF lower
<1>20. Run(G, Call("work", q, lower), g, g)
  BY <1>4, <1>18, <1>19, WorkRuns DEF Caught
<1>21. Run(G, LockFile(p, <<>>) \o LockFile(q, unlock), Zero, k)
  BY <1>6, <1>7, RunJoin
<1>22. Run(G, (LockFile(p, <<>>) \o LockFile(q, unlock)) \o Call("hook", p, unlock), Zero, k)
  BY <1>10, <1>21, RunJoin
<1>23. Run(G, ((LockFile(p, <<>>) \o LockFile(q, unlock)) \o Call("hook", p, unlock))
              \o Call("raise", p, unlock), Zero, k2)
  BY <1>11, <1>22, RunJoin
<1>24. Run(G, (((LockFile(p, <<>>) \o LockFile(q, unlock)) \o Call("hook", p, unlock))
              \o Call("raise", p, unlock)) \o Call("raise", q, lower), Zero, g)
  BY <1>15, <1>23, RunJoin
<1>25. Run(G, ((((LockFile(p, <<>>) \o LockFile(q, unlock)) \o Call("hook", p, unlock))
              \o Call("raise", p, unlock)) \o Call("raise", q, lower))
              \o Call("work", q, lower), Zero, g)
  BY <1>20, <1>24, RunJoin
<1>26. Run(G, (((((LockFile(p, <<>>) \o LockFile(q, unlock)) \o Call("hook", p, unlock))
              \o Call("raise", p, unlock)) \o Call("raise", q, lower))
              \o Call("work", q, lower)) \o lower, Zero, Zero)
  BY <1>18, <1>25, RunJoin
<1> QED
  BY <1>26 DEF Rename, unlock, lower

LEMMA CopyRuns ==
  ASSUME NEW o, NEW p \in Path, NEW q \in Path, p # q,
         o.writes = {q}, o.reads = {p}
  PROVE  Run(Good(o), Copy(p, q), Zero, Zero)
<1> DEFINE unlock == UnlockFile(q, "unshare") \o UnlockFile(p, "unshare")
           free == UnlockFile(q, "free") \o UnlockFile(p, "unshare")
           G == Good(o)
<1>1. unlock \in Seq(Step1) /\ free \in Seq(Step1)
  BY UnlockType, ConcatProperties, StepLevels
<1>2. \A x \in Path : Needs(p, x) \in Nat /\ Needs(q, x) \in Nat /\ Above(q, x) \in Nat
  BY NeedsType
<1>3. PICK k1 \in Hold : /\ k1.w = {} /\ \A x \in Path : k1.r[x] = Needs(q, x)
                         /\ Run(G, LockFile(q, <<>>), Zero, k1)
  BY FirstLocks
<1>4. PICK k \in Hold : /\ k.w = k1.w /\ \A x \in Path : k.r[x] = k1.r[x] + Needs(p, x)
                        /\ Run(G, LockFile(p, <<>>), k1, k)
  <2>1. PICK none \in Seq(Step1) : none = <<>>
    BY StepLevels
  <2>2. \A h \in Hold : Caught(Good0, none, h)
    BY <2>1 DEF Caught
  <2> QED  BY <2>1, <2>2, ShareRuns
<1>5. k.w = {} /\ \A x \in Path : k.r[x] = Needs(q, x) + Needs(p, x)
  BY <1>3, <1>4
<1>6. Run(Good0, unlock, k, Zero)
  <2>1. \A x \in Path : k.r[x] <= Needs(q, x) + Needs(p, x)
    BY <1>2, <1>5
  <2> QED  BY <2>1, <1>5, UnlocksBoth
<1> HIDE DEF unlock
<1>7. Run(Good1, unlock, k, Zero) /\ Run(G, unlock, k, Zero)
  BY <1>6, GoodLevels, RunLift
<1>8. Run(G, Call("hook", q, unlock), k, k)
  BY <1>1, <1>6, HookRuns DEF Caught
<1>9. PICK g \in Hold : /\ g.w = k.w \cup {q}
                        /\ \A x \in Path : g.r[x] = IF x = q THEN k.r[x] - 1 ELSE k.r[x]
                        /\ Run(G, Call("raise", q, unlock), k, g)
  <2>1. k.r[q] > 0
    BY <1>2, <1>5, NeedsThem
  <2> QED  BY <2>1, <1>1, <1>7, RaiseRuns
<1>10. /\ g.w = {q} /\ \A x \in Path : g.r[x] = Above(q, x) + Needs(p, x)
  <2>1. ASSUME NEW x \in Path PROVE g.r[x] = Above(q, x) + Needs(p, x)
    BY <1>2, <1>5, <1>9 DEF Needs
  <2> QED  BY <2>1, <1>5, <1>9
<1>11. Run(Good0, free, g, Zero)
  <2>1. \A x \in Path : g.r[x] <= Above(q, x) + Needs(p, x)
    BY <1>2, <1>10
  <2> QED  BY <2>1, <1>10, FreesBoth
<1> HIDE DEF free
<1>12. Run(Good1, free, g, Zero)
  BY <1>11, GoodLevels, RunLift
<1>13. Secured(o, g)
  <2>1. g.r[p] > 0
    BY <1>2, <1>10, NeedsThem
  <2>2. ASSUME NEW i \in DOMAIN Parents[p] PROVE g.r[Parents[p][i]] > 0
    <3>1. PICK y \in Path : y = Parents[p][i] /\ Needs(p, y) >= 1
      BY ParentNeeded
    <3> QED  BY <3>1, <1>2, <1>10
  <2>3. ASSUME NEW i \in DOMAIN Parents[q] PROVE g.r[Parents[q][i]] > 0
    <3>1. PICK y \in Path : y = Parents[q][i] /\ y # q /\ Needs(q, y) >= 1
      BY ParentNeeded
    <3>2. Above(q, y) >= 1
      BY <3>1 DEF Needs
    <3> QED  BY <3>1, <3>2, <1>2, <1>10
  <2>4. o.writes \subseteq g.w
    BY <1>10
  <2> QED  BY <2>1, <2>2, <2>3, <2>4 DEF Secured
<1>14. Run(G, Call("work", q, free), g, g)
  BY <1>1, <1>12, <1>13, WorkRuns DEF Caught
<1>15. Run(G, Call("lower", q, free), g, k)
  <2>1. PICK m \in Hold : /\ m.w = g.w \ {q}
                          /\ \A x \in Path : m.r[x] = IF x = q THEN g.r[x] + 1 ELSE g.r[x]
                          /\ Run(Good1, Call("lower", q, free), g, m)
    BY <1>1, <1>10, LowerRuns
  <2>2. ASSUME NEW x \in Path PROVE m.r[x] = k.r[x]
    BY <2>1, <1>2, <1>5, <1>9
  <2>3. m = k
    <3>1. m.w = k.w
      BY <2>1, <1>5, <1>10
    <3> QED  BY <2>2, <3>1, HoldEqual
  <2> HIDE DEF G
  <2> QED  BY <2>1, <2>3, GoodLevels, RunLift DEF G
<1>16. Run(G, LockFile(q, <<>>) \o LockFile(p, <<>>), Zero, k)
  BY <1>3, <1>4, RunJoin
<1>17. Run(G, (LockFile(q, <<>>) \o LockFile(p, <<>>)) \o Call("hook", q, unlock), Zero, k)
  BY <1>8, <1>16, RunJoin
<1>18. Run(G, ((LockFile(q, <<>>) \o LockFile(p, <<>>)) \o Call("hook", q, unlock))
              \o Call("raise", q, unlock), Zero, g)
  BY <1>9, <1>17, RunJoin
<1>19. Run(G, (((LockFile(q, <<>>) \o LockFile(p, <<>>)) \o Call("hook", q, unlock))
              \o Call("raise", q, unlock)) \o Call("work", q, free), Zero, g)
  BY <1>14, <1>18, RunJoin
<1>20. Run(G, ((((LockFile(q, <<>>) \o LockFile(p, <<>>)) \o Call("hook", q, unlock))
              \o Call("raise", q, unlock)) \o Call("work", q, free))
              \o Call("lower", q, free), Zero, k)
  BY <1>15, <1>19, RunJoin
<1>21. Run(G, (((((LockFile(q, <<>>) \o LockFile(p, <<>>)) \o Call("hook", q, unlock))
              \o Call("raise", q, unlock)) \o Call("work", q, free))
              \o Call("lower", q, free)) \o unlock, Zero, Zero)
  BY <1>7, <1>20, RunJoin
<1> QED
  BY <1>21 DEF Copy, unlock, free

-----------------------------------------------------------------------------
(* The inductive invariant.                                                 *)

Typed ==
  /\ readers \in [Request -> [Path -> Nat]] /\ writers \in [Request -> SUBSET Path]
  /\ op \in [Request -> [writes : SUBSET Path, reads : SUBSET Path]]
  /\ ops \in [Request -> 0..MaxOps] /\ cut \in [Request -> BOOLEAN]
  /\ todo \in [Request -> Seq(Step)]

\* An exclusive lock excludes every lock of another request.
Excludes == \A r \in Request : \A p \in writers[r] : \A q \in Request \ {r} :
              readers[q][p] = 0 /\ p \notin writers[q]

\* The locks of a request are those h says, and others that operations before
\* have left, if it was cut.
Fits(h, shared, exclusive, more) ==
  /\ h.w \subseteq exclusive /\ (~more => exclusive = h.w)
  /\ \A x \in Path : h.r[x] <= shared[x] /\ (~more => shared[x] = h.r[x])

Follows(r) == \E h \in Hold : /\ Fits(h, readers[r], writers[r], cut[r])
                             /\ Run(Good(op[r]), todo[r], h, Zero)

Inv == Typed /\ Excludes /\ \A r \in Request : Follows(r)

LEMMA InitInv == Init => Inv
<1> SUFFICES ASSUME Init PROVE Inv
  OBVIOUS
<1> USE DEF Init, Lock!Init
<1>1. Typed
  <2>1. <<>> \in Seq(Step) /\ 0 \in 0..MaxOps
    BY EmptySeq, ConstantsAssumption
  <2> QED  BY <2>1 DEF Typed, None
<1>2. ASSUME NEW r \in Request PROVE Follows(r)
  <2>1. Run(Good(op[r]), todo[r], Zero, Zero)
    BY RunNil, ZeroType
  <2>2. Fits(Zero, readers[r], writers[r], cut[r])
    BY ZeroType DEF Fits
  <2> QED  BY <2>1, <2>2, ZeroType DEF Follows
<1> QED
  BY <1>1, <1>2 DEF Inv, Excludes

\* What a request is about to do: the next call of its chain and the rest.
LEMMA Ahead ==
  ASSUME Inv, NEW r \in Request, todo[r] # <<>>
  PROVE  \E h \in Hold, k \in Hold, c \in Step :
           /\ c = Head(todo[r]) /\ Fits(h, readers[r], writers[r], cut[r])
           /\ <<c, h>> \in Good(op[r]) /\ Leads(c, h, k)
           /\ Run(Good(op[r]), Tail(todo[r]), k, Zero)
<1>1. PICK h \in Hold : /\ Fits(h, readers[r], writers[r], cut[r])
                        /\ Run(Good(op[r]), todo[r], h, Zero)
  BY DEF Inv, Follows
<1> QED
  BY <1>1, RunHead

\* A step of r leaves what the others hold and do as it is.
Elsewhere(r) == \A q \in Request \ {r} :
  /\ readers'[q] = readers[q] /\ writers'[q] = writers[q] /\ op'[q] = op[q]
  /\ todo'[q] = todo[q] /\ cut'[q] = cut[q]

LEMMA FollowAll ==
  ASSUME Inv, NEW r \in Request, Elsewhere(r), Follows(r)'
  PROVE  \A q \in Request : Follows(q)'
<1>1. ASSUME NEW q \in Request \ {r} PROVE Follows(q)'
  <2>1. Follows(q)
    BY DEF Inv
  <2>2. /\ readers'[q] = readers[q] /\ writers'[q] = writers[q] /\ op'[q] = op[q]
        /\ todo'[q] = todo[q] /\ cut'[q] = cut[q]
    BY DEF Elsewhere
  <2> QED  BY <2>1, <2>2 DEF Follows
<1> QED
  BY <1>1

\* A call that succeeds is one link of the chain.
LEMMA GoFollows ==
  ASSUME Typed, NEW r \in Request, Go(r), NEW k \in Hold,
         Run(Good(op[r]), Tail(todo[r]), k, Zero), Fits(k, readers'[r], writers'[r], cut[r])
  PROVE  Follows(r)' /\ todo' \in [Request -> Seq(Step)]
<1>1. todo'[r] = Tail(todo[r]) /\ op'[r] = op[r] /\ cut'[r] = cut[r]
  BY DEF Go, Typed
<1>2. Tail(todo[r]) \in Seq(Step)
  BY RunType
<1> QED
  BY <1>1, <1>2 DEF Follows, Go, Typed

\* A call that fails is the start of another.
LEMMA FailFollows ==
  ASSUME Typed, NEW r \in Request, Throw(r), NEW k \in Hold, NEW G, G \subseteq Good(op[r]),
         Run(G, Head(todo[r]).otherwise, k, Zero), Fits(k, readers'[r], writers'[r], cut'[r])
  PROVE  Follows(r)' /\ todo' \in [Request -> Seq(Step)]
<1>1. todo'[r] = Head(todo[r]).otherwise /\ op'[r] = op[r]
  BY DEF Throw, Typed
<1>2. Run(Good(op[r]), Head(todo[r]).otherwise, k, Zero) /\ Head(todo[r]).otherwise \in Seq(Step)
  BY RunLift, RunType
<1> QED
  BY <1>1, <1>2 DEF Follows, Throw, Typed

LEMMA GoodMeans ==
  ASSUME NEW o, NEW c, NEW h, <<c, h>> \in Good(o)
  PROVE  /\ c.do \in {"share", "hook"} => Caught(Good0, c.otherwise, h)
         /\ c.do = "lower" => c.path \in h.w \/ Run(Good0, c.otherwise, h, Zero)
         /\ c.do = "raise" => h.r[c.path] > 0 /\ Run(Good1, c.otherwise, h, Zero)
         /\ c.do = "work" => Secured(o, h) /\ Caught(Good1, c.otherwise, h)
         /\ c.do = "free" => c.path \in h.w
BY DEF Good, Good1, Good0

LEMMA StepType ==
  ASSUME NEW c \in Step
  PROVE  c.path \in Path /\ c.do \in Doing /\ c.otherwise \in Seq(Step1)
BY DEF Step

-----------------------------------------------------------------------------
(* Every step keeps the invariant.                                          *)

LEMMA BeginInv == ASSUME Inv, NEW r \in Request, Begin(r) PROVE Inv'
<1>1. todo[r] = <<>> /\ Typed /\ UNCHANGED <<readers, writers, cut>>
  BY DEF Inv, Begin
<1>2. Fits(Zero, readers[r], writers[r], cut[r])
  <2>1. PICK h \in Hold : /\ Fits(h, readers[r], writers[r], cut[r])
                          /\ Run(Good(op[r]), todo[r], h, Zero)
    BY DEF Inv, Follows
  <2> QED  BY <1>1, <2>1, RunDone
<1>3. ASSUME NEW o \in [writes : SUBSET Path, reads : SUBSET Path], NEW s,
             op' = [op EXCEPT ![r] = o], todo' = [todo EXCEPT ![r] = s],
             Run(Good(o), s, Zero, Zero)
      PROVE  Inv'
  <2>1. op'[r] = o /\ todo'[r] = s /\ s \in Seq(Step)
    BY <1>1, <1>3, RunType DEF Typed
  <2>2. Follows(r)'
    BY <1>1, <1>2, <1>3, <2>1, ZeroType DEF Follows
  <2>3. Elsewhere(r)
    BY <1>1, <1>3 DEF Elsewhere, Typed
  <2>4. ops' \in [Request -> 0..MaxOps]
    BY <1>1, ConstantsAssumption DEF Begin, Typed
  <2>5. Typed' /\ Excludes'
    BY <1>1, <1>3, <2>1, <2>4 DEF Typed, Excludes, Inv
  <2> QED  BY <2>2, <2>3, <2>5, FollowAll DEF Inv
<1>4. PICK p \in Path, q \in Path :
       \/ /\ p = q
          /\ \/ /\ op' = [op EXCEPT ![r] = [None EXCEPT !.reads = {p}]]
                /\ todo' = [todo EXCEPT ![r] = Read(p)]
             \/ /\ op' = [op EXCEPT ![r] = [None EXCEPT !.writes = {p}]]
                /\ todo' \in {[todo EXCEPT ![r] = s] : s \in {Write(p), Put(p)}}
       \/ /\ q \notin Within(p)
          /\ op' = [op EXCEPT ![r] = [None EXCEPT !.writes = {p, q}]]
          /\ todo' = [todo EXCEPT ![r] = Rename(p, q)]
       \/ /\ p # q
          /\ op' = [op EXCEPT ![r] = [writes |-> {q}, reads |-> {p}]]
          /\ todo' = [todo EXCEPT ![r] = Copy(p, q)]
  BY DEF Begin
<1>5. ASSUME NEW S \in SUBSET Path, NEW T \in SUBSET Path
      PROVE  /\ [writes |-> S, reads |-> T] \in [writes : SUBSET Path, reads : SUBSET Path]
             /\ [writes |-> S, reads |-> T].writes = S /\ [writes |-> S, reads |-> T].reads = T
             /\ [None EXCEPT !.writes = S] = [writes |-> S, reads |-> {}]
             /\ [None EXCEPT !.reads = T] = [writes |-> {}, reads |-> T]
  BY DEF None
<1>6. CASE op' = [op EXCEPT ![r] = [None EXCEPT !.reads = {p}]]
           /\ todo' = [todo EXCEPT ![r] = Read(p)]
  <2>1. PICK o \in [writes : SUBSET Path, reads : SUBSET Path] :
          o = [None EXCEPT !.reads = {p}] /\ o.writes = {} /\ o.reads = {p}
    <3>1. PICK S \in SUBSET Path : S = {p}
      OBVIOUS
    <3>2. [writes |-> {}, reads |-> S] \in [writes : SUBSET Path, reads : SUBSET Path]
      OBVIOUS
    <3>3. [None EXCEPT !.reads = {p}] = [writes |-> {}, reads |-> S]
      BY <3>1 DEF None
    <3> QED  BY <3>1, <3>2, <3>3
  <2>2. Run(Good(o), Read(p), Zero, Zero)
    BY <2>1, ReadRuns
  <2> QED  BY <1>3, <1>6, <2>1, <2>2
<1>7. CASE op' = [op EXCEPT ![r] = [None EXCEPT !.writes = {p}]]
           /\ todo' \in {[todo EXCEPT ![r] = s] : s \in {Write(p), Put(p)}}
  <2>1. PICK o \in [writes : SUBSET Path, reads : SUBSET Path] :
          o = [None EXCEPT !.writes = {p}] /\ o.writes = {p} /\ o.reads = {}
    BY <1>5
  <2>2. Run(Good(o), Write(p), Zero, Zero) /\ Run(Good(o), Put(p), Zero, Zero)
    BY <2>1, StoredRuns DEF Write, Put
  <2> QED  BY <1>3, <1>7, <2>1, <2>2
<1>8. CASE q \notin Within(p) /\ op' = [op EXCEPT ![r] = [None EXCEPT !.writes = {p, q}]]
           /\ todo' = [todo EXCEPT ![r] = Rename(p, q)]
  <2>1. PICK o \in [writes : SUBSET Path, reads : SUBSET Path] :
          o = [None EXCEPT !.writes = {p, q}] /\ o.writes = {p, q} /\ o.reads = {}
    BY <1>5
  <2>2. Run(Good(o), Rename(p, q), Zero, Zero)
    BY <1>8, <2>1, RenameRuns
  <2> QED  BY <1>3, <1>8, <2>1, <2>2
<1>9. CASE p # q /\ op' = [op EXCEPT ![r] = [writes |-> {q}, reads |-> {p}]]
           /\ todo' = [todo EXCEPT ![r] = Copy(p, q)]
  <2>1. PICK o \in [writes : SUBSET Path, reads : SUBSET Path] :
          o = [writes |-> {q}, reads |-> {p}] /\ o.writes = {q} /\ o.reads = {p}
    <3>1. PICK S \in SUBSET Path, T \in SUBSET Path : S = {q} /\ T = {p}
      OBVIOUS
    <3>2. [writes |-> S, reads |-> T] \in [writes : SUBSET Path, reads : SUBSET Path]
      OBVIOUS
    <3> QED  BY <3>1, <3>2
  <2>2. Run(Good(o), Copy(p, q), Zero, Zero)
    BY <1>9, <2>1, CopyRuns
  <2> QED  BY <1>3, <1>9, <2>1, <2>2
<1> QED
  BY <1>4, <1>6, <1>7, <1>8, <1>9

\* A step that fails without a lock changing hands: what is not caught leaves
\* all that is held.
LEMMA ThrowInv ==
  ASSUME Inv, NEW r \in Request, Throw(r), NEW h \in Hold, NEW G, G \subseteq Good(op[r]),
         Fits(h, readers[r], writers[r], cut[r]), Caught(G, Head(todo[r]).otherwise, h)
  PROVE  Inv'
<1>1. Typed /\ UNCHANGED <<readers, writers>>
  BY DEF Inv, Throw
<1>2. /\ cut' \in [Request -> BOOLEAN] /\ \A q \in Request \ {r} : cut'[q] = cut[q]
      /\ cut'[r] = (cut[r] \/ Head(todo[r]).otherwise = <<>>)
  BY <1>1 DEF Throw, Typed
<1>3. ASSUME Head(todo[r]).otherwise = <<>>
      PROVE  Follows(r)' /\ todo' \in [Request -> Seq(Step)]
  <2>1. Run(G, Head(todo[r]).otherwise, Zero, Zero)
    BY <1>3, RunNil, ZeroType
  <2>2. Fits(Zero, readers'[r], writers'[r], cut'[r])
    <3>1. ASSUME NEW x \in Path PROVE Zero.r[x] <= readers'[r][x]
      BY <1>1, ZeroType DEF Typed
    <3> QED  BY <1>2, <1>3, <3>1, ZeroType DEF Fits
  <2> QED  BY <1>1, <2>1, <2>2, ZeroType, FailFollows
<1>4. ASSUME Head(todo[r]).otherwise # <<>>, Run(G, Head(todo[r]).otherwise, h, Zero)
      PROVE  Follows(r)' /\ todo' \in [Request -> Seq(Step)]
  <2>1. Fits(h, readers'[r], writers'[r], cut'[r])
    BY <1>1, <1>2, <1>4 DEF Fits
  <2> QED  BY <1>1, <1>4, <2>1, FailFollows
<1>5. Follows(r)' /\ todo' \in [Request -> Seq(Step)]
  BY <1>3, <1>4 DEF Caught
<1>6. Elsewhere(r) /\ Typed' /\ Excludes'
  BY <1>1, <1>2, <1>5 DEF Elsewhere, Typed, Throw, Excludes, Inv
<1> QED
  BY <1>5, <1>6, FollowAll DEF Inv

LEMMA ShareInv == ASSUME Inv, NEW r \in Request, Share(r) PROVE Inv'
<1>1. Typed /\ todo[r] # <<>> /\ Head(todo[r]).do = "share"
  BY DEF Inv, Share, At
<1>2. PICK h \in Hold, k \in Hold, c \in Step :
        /\ c = Head(todo[r]) /\ Fits(h, readers[r], writers[r], cut[r])
        /\ <<c, h>> \in Good(op[r]) /\ Leads(c, h, k)
        /\ Run(Good(op[r]), Tail(todo[r]), k, Zero)
  BY <1>1, Ahead
<1> DEFINE p == Head(todo[r]).path
<1>3. p \in Path /\ p = c.path /\ c.do = "share"
  BY <1>1, <1>2, StepType
<1>4. CASE Lock!AcquireShared(r, p) /\ Go(r)
  <2>1. /\ readers' = [readers EXCEPT ![r][p] = @ + 1] /\ writers' = writers
        /\ Lock!NoWriterBut(r, p)
    BY <1>4 DEF Lock!AcquireShared
  <2> HIDE DEF p
  <2>2. /\ readers' \in [Request -> [Path -> Nat]]
        /\ \A q \in Request : \A x \in Path :
             readers'[q][x] = IF q = r /\ x = p THEN readers[q][x] + 1 ELSE readers[q][x]
        /\ \A q \in Request \ {r} : readers'[q] = readers[q]
    BY <1>1, <1>3, <2>1 DEF Typed
  <2>3. Fits(k, readers'[r], writers'[r], cut[r])
    <3>1. k.w = h.w /\ \A x \in Path : k.r[x] = IF x = p THEN h.r[x] + 1 ELSE h.r[x]
      BY <1>2, <1>3 DEF Leads, ReadsAfter, WritesAfter
    <3>2. ASSUME NEW x \in Path
          PROVE  k.r[x] <= readers'[r][x] /\ (~cut[r] => readers'[r][x] = k.r[x])
      <4>1. /\ h.r[x] \in Nat /\ readers[r][x] \in Nat /\ h.r[x] <= readers[r][x]
            /\ ~cut[r] => readers[r][x] = h.r[x]
        BY <1>1, <1>2, HoldType DEF Fits, Typed
      <4> QED  BY <2>2, <3>1, <4>1
    <3> QED  BY <1>2, <2>1, <3>1, <3>2 DEF Fits
  <2>4. Follows(r)' /\ todo' \in [Request -> Seq(Step)]
    BY <1>1, <1>2, <1>4, <2>3, GoFollows
  <2>5. Elsewhere(r) /\ Typed'
    BY <1>1, <1>4, <2>1, <2>2, <2>4 DEF Elsewhere, Typed, Go
  <2>6. Excludes'
    <3> SUFFICES ASSUME NEW s \in Request, NEW x \in writers[s], NEW q \in Request \ {s}
                 PROVE  readers'[q][x] = 0 /\ x \notin writers[q]
      BY <2>1 DEF Excludes
    <3>1. readers[q][x] = 0 /\ x \notin writers[q] /\ x \in Path
      BY <1>1 DEF Inv, Excludes, Typed
    <3>2. ~(q = r /\ x = p)
      BY <2>1 DEF Lock!NoWriterBut
    <3> QED  BY <2>2, <3>1, <3>2
  <2> QED  BY <2>4, <2>5, <2>6, FollowAll DEF Inv
<1>5. CASE Throw(r)
  BY <1>2, <1>3, <1>5, GoodMeans, GoodLevels, ThrowInv
<1> QED
  BY <1>4, <1>5 DEF Share, Target

LEMMA RaiseInv == ASSUME Inv, NEW r \in Request, Raise(r) PROVE Inv'
<1>1. Typed /\ todo[r] # <<>> /\ Head(todo[r]).do = "raise"
  BY DEF Inv, Raise, At
<1>2. PICK h \in Hold, k \in Hold, c \in Step :
        /\ c = Head(todo[r]) /\ Fits(h, readers[r], writers[r], cut[r])
        /\ <<c, h>> \in Good(op[r]) /\ Leads(c, h, k)
        /\ Run(Good(op[r]), Tail(todo[r]), k, Zero)
  BY <1>1, Ahead
<1> DEFINE p == Head(todo[r]).path
<1>3. p \in Path /\ p = c.path /\ c.do = "raise"
  BY <1>1, <1>2, StepType
<1>4. h.r[p] > 0 /\ Run(Good1, c.otherwise, h, Zero)
  BY <1>2, <1>3, GoodMeans
<1>5. CASE Lock!Upgrade(r, p) /\ Go(r)
  <2>1. /\ readers' = [readers EXCEPT ![r][p] = @ - 1]
        /\ writers' = [writers EXCEPT ![r] = @ \cup {p}]
        /\ Lock!NoWriter(p) /\ Lock!NoReaderBut(r, p) /\ readers[r][p] = 1
    BY <1>5 DEF Lock!Upgrade
  <2> HIDE DEF p
  <2>2. /\ readers' \in [Request -> [Path -> Nat]]
        /\ \A q \in Request : \A x \in Path :
             readers'[q][x] = IF q = r /\ x = p THEN readers[q][x] - 1 ELSE readers[q][x]
        /\ \A q \in Request \ {r} : readers'[q] = readers[q]
    BY <1>1, <1>3, <2>1 DEF Typed
  <2>3. /\ writers' \in [Request -> SUBSET Path] /\ writers'[r] = writers[r] \cup {p}
        /\ \A q \in Request \ {r} : writers'[q] = writers[q]
    BY <1>1, <1>3, <2>1 DEF Typed
  <2>4. Fits(k, readers'[r], writers'[r], cut[r])
    <3>1. /\ k.w = h.w \cup {p}
          /\ \A x \in Path : k.r[x] = IF x = p THEN Less(h.r[x], 1) ELSE h.r[x]
      BY <1>2, <1>3 DEF Leads, ReadsAfter, WritesAfter
    <3>2. ASSUME NEW x \in Path
          PROVE  k.r[x] <= readers'[r][x] /\ (~cut[r] => readers'[r][x] = k.r[x])
      <4>1. /\ h.r[x] \in Nat /\ readers[r][x] \in Nat /\ h.r[x] <= readers[r][x]
            /\ ~cut[r] => readers[r][x] = h.r[x]
        BY <1>1, <1>2, HoldType DEF Fits, Typed
      <4> QED  BY <1>4, <2>1, <2>2, <3>1, <4>1 DEF Less
    <3> QED  BY <1>2, <2>3, <3>1, <3>2 DEF Fits
  <2>5. Follows(r)' /\ todo' \in [Request -> Seq(Step)]
    BY <1>1, <1>2, <1>5, <2>4, GoFollows
  <2>6. Elsewhere(r) /\ Typed'
    BY <1>1, <1>5, <2>1, <2>2, <2>3, <2>5 DEF Elsewhere, Typed, Go
  <2>7. Excludes'
    <3> SUFFICES ASSUME NEW s \in Request, NEW x \in writers'[s], NEW q \in Request \ {s}
                 PROVE  readers'[q][x] = 0 /\ x \notin writers'[q]
      BY DEF Excludes
    <3>1. x \in Path
      BY <2>3
    <3>2. CASE s = r /\ x = p
      <4>1. readers[q][x] = 0 /\ x \notin writers[q]
        BY <2>1, <3>2 DEF Lock!NoWriter, Lock!NoReaderBut
      <4> QED  BY <2>2, <2>3, <3>2, <4>1
    <3>3. CASE ~(s = r /\ x = p)
      <4>1. x \in writers[s]
        BY <2>3, <3>3
      <4>2. readers[q][x] = 0 /\ x \notin writers[q] /\ x # p
        BY <2>1, <4>1 DEF Inv, Excludes, Lock!NoWriter
      <4> QED  BY <2>2, <2>3, <3>1, <4>2
    <3> QED  BY <3>2, <3>3
  <2> QED  BY <2>5, <2>6, <2>7, FollowAll DEF Inv
<1>6. CASE Throw(r)
  BY <1>2, <1>4, <1>6, GoodLevels, ThrowInv DEF Caught
<1> QED
  BY <1>5, <1>6 DEF Raise, Target

LEMMA LowerInv == ASSUME Inv, NEW r \in Request, Lower(r) PROVE Inv'
<1>1. Typed /\ todo[r] # <<>> /\ Head(todo[r]).do = "lower"
  BY DEF Inv, Lower, At
<1>2. PICK h \in Hold, k \in Hold, c \in Step :
        /\ c = Head(todo[r]) /\ Fits(h, readers[r], writers[r], cut[r])
        /\ <<c, h>> \in Good(op[r]) /\ Leads(c, h, k)
        /\ Run(Good(op[r]), Tail(todo[r]), k, Zero)
  BY <1>1, Ahead
<1> DEFINE p == Head(todo[r]).path
<1>3. /\ p \in Path /\ p = c.path /\ c.do = "lower" /\ h.w \subseteq writers[r]
      /\ ~cut[r] => writers[r] = h.w
  BY <1>1, <1>2, StepType DEF Fits
<1>4. CASE Lock!Downgrade(r, p) /\ Go(r)
  <2>1. /\ readers' = [readers EXCEPT ![r][p] = @ + 1]
        /\ writers' = [writers EXCEPT ![r] = @ \ {p}]
        /\ p \in writers[r]
    BY <1>4 DEF Lock!Downgrade
  <2> HIDE DEF p
  <2>2. /\ readers' \in [Request -> [Path -> Nat]]
        /\ \A q \in Request : \A x \in Path :
             readers'[q][x] = IF q = r /\ x = p THEN readers[q][x] + 1 ELSE readers[q][x]
        /\ \A q \in Request \ {r} : readers'[q] = readers[q]
    BY <1>1, <1>3, <2>1 DEF Typed
  <2>3. /\ writers' \in [Request -> SUBSET Path] /\ writers'[r] = writers[r] \ {p}
        /\ \A q \in Request \ {r} : writers'[q] = writers[q]
    BY <1>1, <1>3, <2>1 DEF Typed
  <2>4. Fits(k, readers'[r], writers'[r], cut[r])
    <3>1. /\ k.w = h.w \ {p}
          /\ \A x \in Path : k.r[x] = IF x = p /\ p \in h.w THEN h.r[x] + 1 ELSE h.r[x]
      BY <1>2, <1>3, <2>1 DEF Leads, ReadsAfter, WritesAfter
    <3>2. ASSUME NEW x \in Path
          PROVE  k.r[x] <= readers'[r][x] /\ (~cut[r] => readers'[r][x] = k.r[x])
      <4>1. /\ h.r[x] \in Nat /\ readers[r][x] \in Nat /\ h.r[x] <= readers[r][x]
            /\ ~cut[r] => readers[r][x] = h.r[x]
        BY <1>1, <1>2, HoldType DEF Fits, Typed
      <4> QED  BY <1>3, <2>1, <2>2, <3>1, <4>1
    <3> QED  BY <1>3, <2>3, <3>1, <3>2 DEF Fits
  <2>5. Follows(r)' /\ todo' \in [Request -> Seq(Step)]
    BY <1>1, <1>2, <1>4, <2>4, GoFollows
  <2>6. Elsewhere(r) /\ Typed'
    BY <1>1, <1>4, <2>1, <2>2, <2>3, <2>5 DEF Elsewhere, Typed, Go
  <2>7. Excludes'
    <3> SUFFICES ASSUME NEW s \in Request, NEW x \in writers'[s], NEW q \in Request \ {s}
                 PROVE  readers'[q][x] = 0 /\ x \notin writers'[q]
      BY DEF Excludes
    <3>1. x \in Path /\ x \in writers[s] /\ ~(s = r /\ x = p)
      BY <2>3
    <3>2. readers[q][x] = 0 /\ x \notin writers[q]
      BY <3>1 DEF Inv, Excludes
    <3>3. ~(q = r /\ x = p)
      BY <2>1, <3>2
    <3> QED  BY <2>2, <2>3, <3>1, <3>2, <3>3
  <2> QED  BY <2>5, <2>6, <2>7, FollowAll DEF Inv
<1>5. CASE p \notin writers[r] /\ Throw(r)
  <2>1. Run(Good0, c.otherwise, h, Zero)
    BY <1>2, <1>3, <1>5, GoodMeans
  <2> QED  BY <1>2, <1>5, <2>1, GoodLevels, ThrowInv DEF Caught
<1> QED
  BY <1>4, <1>5 DEF Lower, Target

LEMMA UnshareInv == ASSUME Inv, NEW r \in Request, Unshare(r) PROVE Inv'
<1>1. Typed /\ todo[r] # <<>> /\ Head(todo[r]).do = "unshare" /\ Go(r)
  BY DEF Inv, Unshare, At
<1>2. PICK h \in Hold, k \in Hold, c \in Step :
        /\ c = Head(todo[r]) /\ Fits(h, readers[r], writers[r], cut[r])
        /\ <<c, h>> \in Good(op[r]) /\ Leads(c, h, k)
        /\ Run(Good(op[r]), Tail(todo[r]), k, Zero)
  BY <1>1, Ahead
<1> DEFINE p == Head(todo[r]).path
<1>3. p \in Path /\ p = c.path /\ c.do = "unshare"
  BY <1>1, <1>2, StepType
<1>4. \/ Lock!ReleaseShared(r, p)
      \/ readers[r][p] = 0 /\ UNCHANGED <<readers, writers>>
  BY DEF Unshare, Target
<1> HIDE DEF p
<1>5. /\ readers' \in [Request -> [Path -> Nat]] /\ writers' = writers
      /\ \A q \in Request : \A x \in Path :
           readers'[q][x] = IF q = r /\ x = p THEN Less(readers[q][x], 1) ELSE readers[q][x]
      /\ \A q \in Request \ {r} : readers'[q] = readers[q]
  <2>1. CASE Lock!ReleaseShared(r, p)
    BY <1>1, <1>3, <2>1 DEF Typed, Lock!ReleaseShared, Less
  <2>2. CASE readers[r][p] = 0 /\ UNCHANGED <<readers, writers>>
    BY <1>1, <1>3, <2>2 DEF Typed, Less
  <2> QED  BY <1>4, <2>1, <2>2
<1>6. Fits(k, readers'[r], writers'[r], cut[r])
  <2>1. /\ k.w = h.w
        /\ \A x \in Path : k.r[x] = IF x = p THEN Less(h.r[x], 1) ELSE h.r[x]
    BY <1>2, <1>3 DEF Leads, ReadsAfter, WritesAfter
  <2>2. ASSUME NEW x \in Path
        PROVE  k.r[x] <= readers'[r][x] /\ (~cut[r] => readers'[r][x] = k.r[x])
    <3>1. /\ h.r[x] \in Nat /\ readers[r][x] \in Nat /\ h.r[x] <= readers[r][x]
          /\ ~cut[r] => readers[r][x] = h.r[x]
      BY <1>1, <1>2, HoldType DEF Fits, Typed
    <3> QED  BY <1>5, <2>1, <3>1 DEF Less
  <2> QED  BY <1>2, <1>5, <2>1, <2>2 DEF Fits
<1>7. Follows(r)' /\ todo' \in [Request -> Seq(Step)]
  BY <1>1, <1>2, <1>6, GoFollows
<1>8. Elsewhere(r) /\ Typed'
  BY <1>1, <1>5, <1>7 DEF Elsewhere, Typed, Go
<1>9. Excludes'
  <2> SUFFICES ASSUME NEW s \in Request, NEW x \in writers[s], NEW q \in Request \ {s}
               PROVE  readers'[q][x] = 0 /\ x \notin writers[q]
    BY <1>5 DEF Excludes
  <2>1. readers[q][x] = 0 /\ x \notin writers[q] /\ x \in Path
    BY <1>1 DEF Inv, Excludes, Typed
  <2> QED  BY <1>5, <2>1 DEF Less
<1> QED
  BY <1>7, <1>8, <1>9, FollowAll DEF Inv

LEMMA UnlockInv == ASSUME Inv, NEW r \in Request, Unlock(r) PROVE Inv'
<1>1. /\ Typed /\ todo[r] # <<>> /\ Head(todo[r]).do = "free" /\ Go(r)
      /\ readers' = readers
  BY DEF Inv, Unlock, At
<1>2. PICK h \in Hold, k \in Hold, c \in Step :
        /\ c = Head(todo[r]) /\ Fits(h, readers[r], writers[r], cut[r])
        /\ <<c, h>> \in Good(op[r]) /\ Leads(c, h, k)
        /\ Run(Good(op[r]), Tail(todo[r]), k, Zero)
  BY <1>1, Ahead
<1> DEFINE p == Head(todo[r]).path
<1>3. p \in Path /\ p = c.path /\ c.do = "free" /\ h.w \subseteq writers[r]
  BY <1>1, <1>2, StepType DEF Fits
<1>4. p \in writers[r]
  BY <1>2, <1>3, GoodMeans
<1>5. writers' = [q \in Request |-> writers[q] \ {p}]
  BY DEF Unlock, Target
<1> HIDE DEF p
<1>6. /\ writers' \in [Request -> SUBSET Path] /\ writers'[r] = writers[r] \ {p}
      /\ \A q \in Request : writers'[q] \subseteq writers[q]
  BY <1>1, <1>5 DEF Typed
<1>7. ASSUME NEW q \in Request \ {r} PROVE writers'[q] = writers[q]
  <2>1. p \notin writers[q]
    BY <1>4 DEF Inv, Excludes
  <2> QED  BY <1>5, <2>1
<1>8. Fits(k, readers'[r], writers'[r], cut[r])
  <2>1. /\ k.w = h.w \ {p} /\ \A x \in Path : k.r[x] = h.r[x]
    BY <1>2, <1>3 DEF Leads, ReadsAfter, WritesAfter
  <2> QED  BY <1>1, <1>2, <1>3, <1>6, <2>1 DEF Fits
<1>9. Follows(r)' /\ todo' \in [Request -> Seq(Step)]
  BY <1>1, <1>2, <1>8, GoFollows
<1>10. Elsewhere(r) /\ Typed'
  BY <1>1, <1>6, <1>7, <1>9 DEF Elsewhere, Typed, Go
<1>11. Excludes'
  BY <1>1, <1>6 DEF Excludes, Inv
<1> QED
  BY <1>9, <1>10, <1>11, FollowAll DEF Inv

LEMMA ProceedInv == ASSUME Inv, NEW r \in Request, Proceed(r) PROVE Inv'
<1>1. /\ Typed /\ todo[r] # <<>> /\ Head(todo[r]).do \in {"hook", "work"} /\ Go(r)
      /\ readers' = readers /\ writers' = writers
  BY DEF Inv, Proceed, At
<1>2. PICK h \in Hold, k \in Hold, c \in Step :
        /\ c = Head(todo[r]) /\ Fits(h, readers[r], writers[r], cut[r])
        /\ <<c, h>> \in Good(op[r]) /\ Leads(c, h, k)
        /\ Run(Good(op[r]), Tail(todo[r]), k, Zero)
  BY <1>1, Ahead
<1>3. k.w = h.w /\ \A x \in Path : k.r[x] = h.r[x]
  BY <1>1, <1>2 DEF Leads, ReadsAfter, WritesAfter
<1>4. Fits(k, readers'[r], writers'[r], cut[r])
  BY <1>1, <1>2, <1>3 DEF Fits
<1>5. Follows(r)' /\ todo' \in [Request -> Seq(Step)]
  BY <1>1, <1>2, <1>4, GoFollows
<1>6. Elsewhere(r) /\ Typed' /\ Excludes'
  BY <1>1, <1>5 DEF Elsewhere, Typed, Go, Excludes, Inv
<1> QED
  BY <1>5, <1>6, FollowAll DEF Inv

LEMMA ObjectInv == ASSUME Inv, NEW r \in Request, Object(r) PROVE Inv'
<1>1. /\ Typed /\ todo[r] # <<>> /\ Head(todo[r]).do \in {"hook", "work"} /\ Throw(r)
  BY DEF Inv, Object, At
<1>2. PICK h \in Hold, k \in Hold, c \in Step :
        /\ c = Head(todo[r]) /\ Fits(h, readers[r], writers[r], cut[r])
        /\ <<c, h>> \in Good(op[r]) /\ Leads(c, h, k)
        /\ Run(Good(op[r]), Tail(todo[r]), k, Zero)
  BY <1>1, Ahead
<1>3. Caught(Good0, c.otherwise, h) \/ Caught(Good1, c.otherwise, h)
  BY <1>1, <1>2, GoodMeans
<1> QED
  BY <1>1, <1>2, <1>3, GoodLevels, ThrowInv

LEMMA EndInv == ASSUME Inv, NEW r \in Request, End(r) PROVE Inv'
<1>1. /\ Typed /\ readers' = [readers EXCEPT ![r] = [p \in Path |-> 0]]
      /\ writers' = [writers EXCEPT ![r] = {}]
      /\ todo' = [todo EXCEPT ![r] = <<>>] /\ op' = [op EXCEPT ![r] = None]
      /\ ops' = [ops EXCEPT ![r] = 0] /\ cut' = [cut EXCEPT ![r] = FALSE]
  BY DEF Inv, End, Lock!Die
<1>2. [p \in Path |-> 0] \in [Path -> Nat] /\ <<>> \in Seq(Step) /\ 0 \in 0..MaxOps
  BY EmptySeq, ConstantsAssumption
<1>3. /\ readers' \in [Request -> [Path -> Nat]] /\ writers' \in [Request -> SUBSET Path]
      /\ readers'[r] = [p \in Path |-> 0] /\ writers'[r] = {} /\ todo'[r] = <<>>
  BY <1>1, <1>2 DEF Typed
<1>4. Typed'
  BY <1>1, <1>2, <1>3 DEF Typed, None
<1>5. Follows(r)'
  <2>1. Run(Good(op'[r]), todo'[r], Zero, Zero)
    BY <1>3, RunNil, ZeroType
  <2>2. Fits(Zero, readers'[r], writers'[r], cut'[r])
    BY <1>3, ZeroType DEF Fits
  <2> QED  BY <2>1, <2>2, ZeroType DEF Follows
<1>6. Elsewhere(r)
  BY <1>1 DEF Elsewhere, Typed
<1>7. Excludes'
  <2> SUFFICES ASSUME NEW s \in Request, NEW x \in writers'[s], NEW q \in Request \ {s}
               PROVE  readers'[q][x] = 0 /\ x \notin writers'[q]
    BY DEF Excludes
  <2>1. s # r /\ x \in writers[s] /\ x \in Path
    BY <1>3, <1>6 DEF Elsewhere
  <2>2. readers[q][x] = 0 /\ x \notin writers[q]
    BY <2>1 DEF Inv, Excludes
  <2>3. CASE q = r
    BY <1>3, <2>1, <2>3
  <2>4. CASE q # r
    BY <1>6, <2>2, <2>4 DEF Elsewhere
  <2> QED  BY <2>3, <2>4
<1> QED
  BY <1>4, <1>5, <1>6, <1>7, FollowAll DEF Inv

LEMMA NextInv == Inv /\ [Next]_vars => Inv'
<1> SUFFICES ASSUME Inv, [Next]_vars PROVE Inv'
  OBVIOUS
<1>1. CASE UNCHANGED vars
  BY <1>1 DEF vars, Inv, Typed, Excludes, Follows
<1>2. CASE Next
  <2>1. PICK r \in Request :
          \/ Begin(r) \/ Share(r) \/ Raise(r) \/ Lower(r) \/ Unshare(r) \/ Unlock(r)
          \/ Proceed(r) \/ Object(r) \/ End(r)
    BY <1>2 DEF Next
  <2> QED
    BY <2>1, BeginInv, ShareInv, RaiseInv, LowerInv, UnshareInv, UnlockInv, ProceedInv, ObjectInv, EndInv
<1> QED
  BY <1>1, <1>2

\* Whatever is refused, vetoed or thrown, every request holds what the rest of
\* its operation accounts for, and exclusive locks exclude.
THEOREM Invariance == Spec => []Inv
BY InitInv, NextInv, PTL DEF Spec

-----------------------------------------------------------------------------
(* What follows from it.                                                    *)

LEMMA InvType == Inv => TypeOK
<1> SUFFICES ASSUME Inv PROVE TypeOK
  OBVIOUS
<1>1. Typed
  BY DEF Inv
<1>2. ASSUME NEW r \in Request, todo[r] = <<>>, ~cut[r]
      PROVE  writers[r] = {} /\ \A p \in Path : readers[r][p] = 0
  <2>1. PICK h \in Hold : /\ Fits(h, readers[r], writers[r], cut[r])
                          /\ Run(Good(op[r]), todo[r], h, Zero)
    BY DEF Inv, Follows
  <2>2. h = Zero
    BY <1>2, <2>1, RunDone
  <2> QED  BY <1>2, <2>1, <2>2, ZeroType DEF Fits
<1> QED
  BY <1>1, <1>2 DEF Typed, TypeOK

\* An operation that works has the locks it works under.
LEMMA WorksSecured ==
  ASSUME Inv, NEW r \in Request, Works(r)
  PROVE  /\ op[r].writes \subseteq writers[r]
         /\ \A p \in op[r].reads : readers[r][p] > 0
         /\ \A p \in op[r].writes \cup op[r].reads : \A i \in DOMAIN Parents[p] :
              readers[r][Parents[p][i]] > 0
<1>1. Typed /\ todo[r] # <<>> /\ Head(todo[r]).do = "work"
  BY DEF Inv, Works, At
<1>2. PICK h \in Hold, c \in Step :
        /\ c = Head(todo[r]) /\ Fits(h, readers[r], writers[r], cut[r])
        /\ <<c, h>> \in Good(op[r])
  BY <1>1, Ahead
<1>3. Secured(op[r], h)
  BY <1>1, <1>2, GoodMeans
<1>4. op[r].writes \subseteq Path /\ op[r].reads \subseteq Path
  BY <1>1 DEF Typed
<1>5. ASSUME NEW x \in Path, h.r[x] > 0 PROVE readers[r][x] > 0
  <2>1. h.r[x] \in Nat /\ readers[r][x] \in Nat /\ h.r[x] <= readers[r][x]
    BY <1>1, <1>2, HoldType DEF Fits, Typed
  <2> QED  BY <1>5, <2>1
<1>6. ASSUME NEW p \in op[r].writes \cup op[r].reads, NEW i \in DOMAIN Parents[p]
      PROVE  readers[r][Parents[p][i]] > 0
  <2>1. p \in Path
    BY <1>4
  <2>2. PICK y \in Path : y = Parents[p][i]
    BY <2>1, ParentNeeded
  <2> QED  BY <1>3, <1>5, <2>2 DEF Secured
<1> QED
  BY <1>2, <1>3, <1>4, <1>5, <1>6 DEF Secured, Fits

LEMMA InvIsolated == Inv => Isolated
<1> SUFFICES ASSUME Inv, NEW r \in Request, NEW q \in Request, r # q, Works(r), Works(q),
                    NEW p \in op[r].writes, NEW y \in op[q].writes \cup op[q].reads, y \in Within(p)
             PROVE  FALSE
  BY DEF Isolated
<1>1. p \in writers[r]
  BY WorksSecured
<1>2. readers[q][p] = 0 /\ p \notin writers[q]
  BY <1>1 DEF Inv, Excludes
<1>3. CASE y = p
  BY <1>2, <1>3, WorksSecured
<1>4. CASE \E i \in DOMAIN Parents[y] : Parents[y][i] = p
  BY <1>2, <1>4, WorksSecured
<1> QED
  BY <1>3, <1>4 DEF Within

\* Every variable has its type, and an operation that is over has given back
\* every lock it took, on the path and on all its parents, also when it was
\* refused, vetoed or thrown out of a try; only a call that fails outside of
\* every try, in this operation or in one before it, leaves locks until the
\* request ends (View.php, the catch and finally blocks of basicOperation,
\* file_put_contents, rename and copy).
THEOREM TypeCorrect == Spec => []TypeOK
BY Invariance, InvType, PTL

\* While an operation writes a path, nobody else works on it or on anything
\* below it, in any tree of paths and among any number of requests.
THEOREM Isolation == Spec => []Isolated
BY Invariance, InvIsolated, PTL

-----------------------------------------------------------------------------
(* The operations work on the table of RWLock.                              *)

\* The path of the next call, and whose exclusive lock it frees.
LEMMA CallFacts ==
  ASSUME Inv, NEW r \in Request, todo[r] # <<>>
  PROVE  /\ Target(r) \in Path
         /\ At(r, "free") => Target(r) \in writers[r]
<1>1. PICK h \in Hold, c \in Step :
        /\ c = Head(todo[r]) /\ Fits(h, readers[r], writers[r], cut[r])
        /\ <<c, h>> \in Good(op[r])
  BY Ahead
<1>2. c.do = "free" => c.path \in h.w
  BY <1>1, GoodMeans
<1> QED
  BY <1>1, <1>2, StepType DEF Target, At, Fits

LEMMA TableStep == Inv /\ [Next]_vars => [Lock!Next]_(Lock!vars)
<1> SUFFICES ASSUME Inv, [Next]_vars PROVE Lock!Next \/ UNCHANGED <<readers, writers>>
  BY DEF Lock!vars
<1>1. CASE UNCHANGED vars
  BY <1>1 DEF vars
<1>2. CASE Next
  <2>1. PICK r \in Request :
          \/ Begin(r) \/ Share(r) \/ Raise(r) \/ Lower(r) \/ Unshare(r) \/ Unlock(r)
          \/ Proceed(r) \/ Object(r) \/ End(r)
    BY <1>2 DEF Next
  <2> DEFINE p == Target(r)
  <2>2. CASE Begin(r) \/ Proceed(r) \/ Object(r)
    BY <2>2 DEF Begin, Proceed, Object, Throw
  <2>3. CASE Share(r)
    <3>1. p \in Path
      BY <2>3, CallFacts DEF Share, At
    <3>2. Lock!AcquireShared(r, p) \/ UNCHANGED <<readers, writers>>
      BY <2>3 DEF Share, Throw
    <3> QED  BY <3>1, <3>2 DEF Lock!Next
  <2>4. CASE Raise(r)
    <3>1. p \in Path
      BY <2>4, CallFacts DEF Raise, At
    <3>2. Lock!Upgrade(r, p) \/ UNCHANGED <<readers, writers>>
      BY <2>4 DEF Raise, Throw
    <3> QED  BY <3>1, <3>2 DEF Lock!Next
  <2>5. CASE Lower(r)
    <3>1. p \in Path
      BY <2>5, CallFacts DEF Lower, At
    <3>2. Lock!Downgrade(r, p) \/ UNCHANGED <<readers, writers>>
      BY <2>5 DEF Lower, Throw
    <3> QED  BY <3>1, <3>2 DEF Lock!Next
  <2>6. CASE Unshare(r)
    <3>1. p \in Path
      BY <2>6, CallFacts DEF Unshare, At
    <3>2. Lock!ReleaseShared(r, p) \/ UNCHANGED <<readers, writers>>
      BY <2>6 DEF Unshare
    <3> QED  BY <3>1, <3>2 DEF Lock!Next
  <2>7. CASE Unlock(r)
    <3>1. p \in Path /\ p \in writers[r]
      BY <2>7, CallFacts DEF Unlock, At
    <3>2. writers' = [q \in Request |-> writers[q] \ {p}] /\ readers' = readers
      BY <2>7 DEF Unlock
    <3>3. \A q \in Request \ {r} : p \notin writers[q]
      BY <3>1 DEF Inv, Excludes
    <3>4. writers' = [writers EXCEPT ![r] = @ \ {p}]
      <4>1. writers \in [Request -> SUBSET Path]
        BY DEF Inv, Typed
      <4>2. \A q \in Request \ {r} : writers[q] \ {p} = writers[q]
        BY <3>3
      <4> HIDE DEF p
      <4> QED  BY <3>2, <4>1, <4>2
    <3>5. Lock!ReleaseExclusive(r, p)
      BY <3>1, <3>2, <3>4 DEF Lock!ReleaseExclusive
    <3> QED  BY <3>1, <3>5 DEF Lock!Next
  <2>8. CASE End(r)
    BY <2>8 DEF End, Lock!Next
  <2> QED
    BY <2>1, <2>2, <2>3, <2>4, <2>5, <2>6, <2>7, <2>8
<1> QED
  BY <1>1, <1>2

\* With a provider that does nothing when asked to release a shared lock that
\* its caller does not hold, which MemcacheLockingProvider does always and
\* DBLockingProvider in a web request, every step of a view is one of the table
\* or leaves it alone: although the release of an exclusive lock asks nobody
\* whose it is, no operation frees an exclusive lock of another, also not on its
\* way out of a failure.
THEOREM UsesTheTable == Spec => Lock!Spec
<1>1. Init => Lock!Init
  BY DEF Init
<1> QED
  BY <1>1, Invariance, TableStep, PTL DEF Spec, Lock!Spec
=============================================================================
