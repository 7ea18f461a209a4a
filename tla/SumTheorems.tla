----------------------------- MODULE SumTheorems -----------------------------
(***************************************************************************)
(* Sums over finite sets: what SumFunctionOnSet of the community module    *)
(* Functions adds up to, and how a sum changes with its set and with its   *)
(* summands.  The library states induction for an operator P(_), which the *)
(* provers cannot instantiate; here the induction is over sets: the        *)
(* subsets of S for which a fact fails have no minimal element, so there   *)
(* are none (WFMin).                                                       *)
(***************************************************************************)
EXTENDS FiniteSetTheorems, TLAPS

(* The element that a fold takes next.                                     *)
Pick(s) == CHOOSE x \in s : TRUE

Rest(s) == s \ {Pick(s)}

(* g holds the sums of f over all the subsets of S.                        *)
HoldsSums(g, f, S) ==
    g = [s \in SUBSET S |-> IF s = {} THEN 0 ELSE f[Pick(s)] + g[Rest(s)]]

-----------------------------------------------------------------------------
LEMMA PickFacts ==
  ASSUME NEW s, s # {}
  PROVE  /\ Pick(s) \in s
         /\ Rest(s) \subseteq s
         /\ Rest(s) # s
  BY DEF Pick, Rest

(* A family of subsets of a finite set has a minimal member.               *)
LEMMA MinimalSubset ==
  ASSUME NEW S, IsFiniteSet(S), NEW F \in SUBSET (SUBSET S), F # {}
  PROVE  \E s \in F : \A t \in F : t \subseteq s => t = s
  <1>1. FiniteSubsetsOf(S) = SUBSET S
    BY FS_FiniteSubsetsOfFinite, Zenon
  <1>2. IsWellFoundedOn(StrictSubsetOrdering(S), SUBSET S)
    BY <1>1, FS_StrictSubsetOrderingWellFounded, Zenon
  <1>3. PICK s \in F : \A t \in F : ~ (<<t, s>> \in StrictSubsetOrdering(S))
    BY <1>2, WFMin, Zenon
  <1>4. ASSUME NEW t \in F, t \subseteq s
        PROVE  t = s
    <2>1. t \in SUBSET S /\ s \in SUBSET S
      OBVIOUS
    <2>2. SUFFICES ASSUME t # s
                   PROVE  <<t, s>> \in StrictSubsetOrdering(S)
      BY <1>3
    <2> QED
      BY <1>4, <2>1, <2>2 DEF StrictSubsetOrdering
  <1> QED
    BY <1>4

(* Two such functions agree wherever both are defined.                     *)
LEMMA SumsUnique ==
  ASSUME NEW f, NEW V, IsFiniteSet(V), NEW W, NEW g, NEW h,
         HoldsSums(g, f, V), HoldsSums(h, f, W),
         NEW s \in SUBSET V, s \in SUBSET W
  PROVE  g[s] = h[s]
  <1> DEFINE F == {t \in SUBSET s : g[t] # h[t]}
  <1>1. SUFFICES ASSUME F # {}
                 PROVE  FALSE
    OBVIOUS
  <1>2. IsFiniteSet(s)
    BY FS_Subset
  <1>3. PICK m \in F : \A t \in F : t \subseteq m => t = m
    <2> HIDE DEF F
    <2>1. F \in SUBSET (SUBSET s)
      BY DEF F
    <2> QED
      BY <1>1, <1>2, <2>1, MinimalSubset
  <1>4. /\ g[m] = IF m = {} THEN 0 ELSE f[Pick(m)] + g[Rest(m)]
        /\ h[m] = IF m = {} THEN 0 ELSE f[Pick(m)] + h[Rest(m)]
    <2>1. m \in SUBSET V /\ m \in SUBSET W
      OBVIOUS
    <2>2. g[m] = IF m = {} THEN 0 ELSE f[Pick(m)] + g[Rest(m)]
      BY <2>1, Zenon DEF HoldsSums
    <2>3. h[m] = IF m = {} THEN 0 ELSE f[Pick(m)] + h[Rest(m)]
      BY <2>1, Zenon DEF HoldsSums
    <2> QED
      BY <2>2, <2>3
  <1>5. m # {}
    BY <1>4
  <1>6. g[Rest(m)] = h[Rest(m)]
    BY <1>3, <1>5, PickFacts
  <1> QED
    BY <1>4, <1>5, <1>6

(* There is such a function.                                               *)
LEMMA SumsExist ==
  ASSUME NEW f, NEW S, IsFiniteSet(S)
  PROVE  \E g : HoldsSums(g, f, S)
  <1> DEFINE F == {V \in SUBSET S : ~ \E g : HoldsSums(g, f, V)}
             G(V) == CHOOSE g : HoldsSums(g, f, V)
  <1>1. SUFFICES ASSUME F # {}
                 PROVE  FALSE
    OBVIOUS
  <1>2. PICK V \in F : \A t \in F : t \subseteq V => t = V
    <2> HIDE DEF F
    <2>1. F \in SUBSET (SUBSET S)
      BY DEF F
    <2> QED
      BY <1>1, <2>1, MinimalSubset
  <1> DEFINE h == [s \in SUBSET V |-> IF s = {} THEN 0
                                      ELSE f[Pick(s)] + G(Rest(s))[Rest(s)]]
  <1>3. ASSUME NEW W \in SUBSET V, W # V
        PROVE  HoldsSums(G(W), f, W) /\ IsFiniteSet(W)
    <2>1. \E g : HoldsSums(g, f, W)
      BY <1>2, <1>3
    <2>2. IsFiniteSet(W)
      BY FS_Subset
    <2> QED
      BY <2>1, <2>2
  <1> HIDE DEF G
  <1>4. ASSUME NEW r \in SUBSET V, r # V
        PROVE  h[r] = G(r)[r]
    <2>1. G(r)[r] = IF r = {} THEN 0 ELSE f[Pick(r)] + G(r)[Rest(r)]
      <3>1. r \in SUBSET r
        OBVIOUS
      <3> QED
        BY <1>3, <1>4, <3>1, Zenon DEF HoldsSums
    <2>2. CASE r = {}
      BY <2>1, <2>2
    <2>3. CASE r # {}
      <3>1. Rest(r) \in SUBSET V /\ Rest(r) # V /\ Rest(r) \in SUBSET r
        BY <1>4, <2>3, PickFacts
      <3>2. G(r)[Rest(r)] = G(Rest(r))[Rest(r)]
        <4>1. HoldsSums(G(r), f, r) /\ IsFiniteSet(r)
          BY <1>3, <1>4
        <4>2. HoldsSums(G(Rest(r)), f, Rest(r))
          BY <1>3, <3>1
        <4> QED
          BY <3>1, <4>1, <4>2, SumsUnique
      <3> QED
        BY <2>1, <2>3, <3>2
    <2> QED
      BY <2>2, <2>3
  <1>5. ASSUME NEW s \in SUBSET V
        PROVE  h[s] = IF s = {} THEN 0 ELSE f[Pick(s)] + h[Rest(s)]
    <2>1. CASE s = {}
      BY <2>1
    <2>2. CASE s # {}
      <3>1. Rest(s) \in SUBSET V /\ Rest(s) # V
        BY <2>2, PickFacts
      <3>2. h[Rest(s)] = G(Rest(s))[Rest(s)]
        BY <1>4, <3>1
      <3> HIDE DEF h
      <3>3. h[s] = f[Pick(s)] + G(Rest(s))[Rest(s)]
        BY <2>2 DEF h
      <3> QED
        BY <2>2, <3>2, <3>3
    <2> QED
      BY <2>1, <2>2
  <1>6. HoldsSums(h, f, V)
    <2>1. h = [s \in SUBSET V |-> h[s]]
      OBVIOUS
    <2> HIDE DEF h
    <2> QED
      BY <1>5, <2>1 DEF HoldsSums
  <1> HIDE DEF h
  <1> QED
    BY <1>2, <1>6

(* A sum takes its summands one after the other.                           *)
LEMMA SumUnfolds ==
  ASSUME NEW f, NEW S, IsFiniteSet(S)
  PROVE  SumFunctionOnSet(f, S) =
           IF S = {} THEN 0
           ELSE f[Pick(S)] + SumFunctionOnSet(f, Rest(S))
  <1> DEFINE G(V) == CHOOSE g : HoldsSums(g, f, V)
  <1>1. ASSUME NEW V
        PROVE  SumFunctionOnSet(f, V) = G(V)[V]
    BY Zenon DEF SumFunctionOnSet, FoldFunctionOnSet, MapThenFoldSet, HoldsSums, Pick, Rest
  <1>2. ASSUME NEW V, IsFiniteSet(V)
        PROVE  HoldsSums(G(V), f, V)
    BY <1>2, SumsExist
  <1> HIDE DEF G
  <1>3. S \in SUBSET S
    OBVIOUS
  <1>4. G(S)[S] = IF S = {} THEN 0 ELSE f[Pick(S)] + G(S)[Rest(S)]
    BY <1>2, <1>3, Zenon DEF HoldsSums
  <1>5. CASE S = {}
    BY <1>1, <1>4, <1>5
  <1>6. CASE S # {}
    <2>1. Rest(S) \in SUBSET S /\ Rest(S) \in SUBSET Rest(S)
      BY <1>6, PickFacts
    <2>2. IsFiniteSet(Rest(S))
      BY <2>1, FS_Subset
    <2>3. G(S)[Rest(S)] = G(Rest(S))[Rest(S)]
      BY <1>2, <2>1, <2>2, SumsUnique
    <2> QED
      BY <1>1, <1>4, <1>6, <2>3
  <1> QED
    BY <1>5, <1>6

-----------------------------------------------------------------------------
(* The facts the other modules use.                                        *)

LEMMA SumEmpty ==
  ASSUME NEW f
  PROVE  SumFunctionOnSet(f, {}) = 0
  BY SumUnfolds, FS_EmptySet

(* A sum of integers is an integer.                                        *)
LEMMA SumInt ==
  ASSUME NEW f, NEW S, IsFiniteSet(S), \A x \in S : f[x] \in Int
  PROVE  SumFunctionOnSet(f, S) \in Int
  <1> DEFINE F == {V \in SUBSET S : SumFunctionOnSet(f, V) \notin Int}
  <1>1. SUFFICES ASSUME F # {}
                 PROVE  FALSE
    OBVIOUS
  <1>2. PICK V \in F : \A t \in F : t \subseteq V => t = V
    <2> HIDE DEF F
    <2>1. F \in SUBSET (SUBSET S)
      BY DEF F
    <2> QED
      BY <1>1, <2>1, MinimalSubset
  <1>3. IsFiniteSet(V)
    BY FS_Subset
  <1>4. CASE V = {}
    BY <1>4, SumEmpty
  <1>5. CASE V # {}
    <2>1. SumFunctionOnSet(f, V) = f[Pick(V)] + SumFunctionOnSet(f, Rest(V))
      BY <1>3, <1>5, SumUnfolds
    <2>2. SumFunctionOnSet(f, Rest(V)) \in Int
      BY <1>2, <1>5, PickFacts
    <2>3. f[Pick(V)] \in Int
      BY <1>5, PickFacts
    <2> QED
      BY <2>1, <2>2, <2>3
  <1> QED
    BY <1>4, <1>5

(* Any summand can be taken out of a sum.                                  *)
LEMMA SumTakeOut ==
  ASSUME NEW f, NEW S, IsFiniteSet(S), \A x \in S : f[x] \in Int, NEW x \in S
  PROVE  SumFunctionOnSet(f, S) = f[x] + SumFunctionOnSet(f, S \ {x})
  <1> DEFINE Exact(V, y) ==
               SumFunctionOnSet(f, V) = f[y] + SumFunctionOnSet(f, V \ {y})
             F == {V \in SUBSET S : \E y \in V : ~ Exact(V, y)}
  <1>1. SUFFICES ASSUME F # {}
                 PROVE  FALSE
    OBVIOUS
  <1>2. PICK V \in F : \A t \in F : t \subseteq V => t = V
    <2> HIDE DEF F
    <2>1. F \in SUBSET (SUBSET S)
      BY DEF F
    <2> QED
      BY <1>1, <2>1, MinimalSubset
  <1>3. PICK y \in V : ~ Exact(V, y)
    OBVIOUS
  <1>4. ASSUME NEW W \in SUBSET V, W # V, NEW z \in W
        PROVE  Exact(W, z)
    BY <1>2, <1>4
  <1>5. IsFiniteSet(V) /\ V # {} /\ V \in SUBSET S
    BY FS_Subset
  <1> DEFINE p == Pick(V)
  <1> HIDE DEF Exact, F
  <1>6. p \in V /\ Exact(V, p)
    BY <1>5, SumUnfolds, PickFacts DEF Exact, Rest
  <1>7. y # p
    BY <1>3, <1>6
  <1> HIDE DEF p
  <1>8. Exact(V \ {p}, y) /\ Exact(V \ {y}, p)
    BY <1>4, <1>6, <1>7
  <1>9. (V \ {p}) \ {y} = (V \ {y}) \ {p}
    OBVIOUS
  <1>10. SumFunctionOnSet(f, (V \ {y}) \ {p}) \in Int
    <2>1. IsFiniteSet((V \ {y}) \ {p})
      BY <1>5, FS_Subset
    <2> QED
      BY <1>5, <2>1, SumInt
  <1>11. f[y] \in Int /\ f[p] \in Int
    BY <1>5, <1>6
  <1>12. /\ SumFunctionOnSet(f, V) = f[p] + (f[y] + SumFunctionOnSet(f, (V \ {y}) \ {p}))
         /\ SumFunctionOnSet(f, V \ {y}) = f[p] + SumFunctionOnSet(f, (V \ {y}) \ {p})
    BY <1>6, <1>8, <1>9 DEF Exact
  <1>13. Exact(V, y)
    BY <1>10, <1>11, <1>12 DEF Exact
  <1> QED
    BY <1>3, <1>13

(* Equal summands give equal sums.                                         *)
LEMMA SumSame ==
  ASSUME NEW f, NEW g, NEW S, IsFiniteSet(S), \A x \in S : f[x] = g[x]
  PROVE  SumFunctionOnSet(f, S) = SumFunctionOnSet(g, S)
  <1> DEFINE F == {V \in SUBSET S : SumFunctionOnSet(f, V) # SumFunctionOnSet(g, V)}
  <1>1. SUFFICES ASSUME F # {}
                 PROVE  FALSE
    OBVIOUS
  <1>2. PICK V \in F : \A t \in F : t \subseteq V => t = V
    <2> HIDE DEF F
    <2>1. F \in SUBSET (SUBSET S)
      BY DEF F
    <2> QED
      BY <1>1, <2>1, MinimalSubset
  <1>3. IsFiniteSet(V)
    BY FS_Subset
  <1>4. CASE V = {}
    BY <1>4, SumEmpty
  <1>5. CASE V # {}
    <2>1. /\ SumFunctionOnSet(f, V) = f[Pick(V)] + SumFunctionOnSet(f, Rest(V))
          /\ SumFunctionOnSet(g, V) = g[Pick(V)] + SumFunctionOnSet(g, Rest(V))
      BY <1>3, <1>5, SumUnfolds
    <2>2. SumFunctionOnSet(f, Rest(V)) = SumFunctionOnSet(g, Rest(V))
      BY <1>2, <1>5, PickFacts
    <2>3. f[Pick(V)] = g[Pick(V)]
      BY <1>5, PickFacts
    <2> QED
      BY <2>1, <2>2, <2>3
  <1> QED
    BY <1>4, <1>5

(* When one summand changes, the sum changes by the difference.            *)
LEMMA SumChangeOne ==
  ASSUME NEW f, NEW g, NEW S, IsFiniteSet(S), NEW x \in S,
         \A y \in S : f[y] \in Int /\ g[y] \in Int,
         \A y \in S \ {x} : f[y] = g[y]
  PROVE  SumFunctionOnSet(g, S) = SumFunctionOnSet(f, S) + (g[x] - f[x])
  <1>1. IsFiniteSet(S \ {x})
    BY FS_Subset
  <1>2. SumFunctionOnSet(f, S \ {x}) = SumFunctionOnSet(g, S \ {x})
    BY <1>1, SumSame
  <1>3. SumFunctionOnSet(f, S \ {x}) \in Int
    BY <1>1, SumInt
  <1>4. /\ SumFunctionOnSet(f, S) = f[x] + SumFunctionOnSet(f, S \ {x})
        /\ SumFunctionOnSet(g, S) = g[x] + SumFunctionOnSet(g, S \ {x})
    BY SumTakeOut
  <1> QED
    BY <1>2, <1>3, <1>4

(* A new element adds its summand.                                         *)
LEMMA SumAddOne ==
  ASSUME NEW f, NEW g, NEW S, IsFiniteSet(S), NEW x, x \notin S,
         \A y \in S : f[y] \in Int /\ f[y] = g[y],
         g[x] \in Int
  PROVE  SumFunctionOnSet(g, S \cup {x}) = SumFunctionOnSet(f, S) + g[x]
  <1>1. IsFiniteSet(S \cup {x})
    BY FS_AddElement
  <1>2. (S \cup {x}) \ {x} = S
    OBVIOUS
  <1>3. SumFunctionOnSet(g, S \cup {x}) = g[x] + SumFunctionOnSet(g, S)
    <2>1. \A y \in S \cup {x} : g[y] \in Int
      OBVIOUS
    <2>2. SumFunctionOnSet(g, S \cup {x}) = g[x] + SumFunctionOnSet(g, (S \cup {x}) \ {x})
      BY <1>1, <2>1, SumTakeOut
    <2> QED
      BY <1>2, <2>2, Zenon
  <1>4. SumFunctionOnSet(f, S) = SumFunctionOnSet(g, S)
    BY SumSame
  <1>5. SumFunctionOnSet(f, S) \in Int
    BY SumInt
  <1> QED
    BY <1>3, <1>4, <1>5

(* A sum of natural numbers is one, and no less than any of its summands.  *)
LEMMA SumNat ==
  ASSUME NEW f, NEW S, IsFiniteSet(S), \A x \in S : f[x] \in Nat
  PROVE  /\ SumFunctionOnSet(f, S) \in Nat
         /\ \A x \in S : f[x] <= SumFunctionOnSet(f, S)
  <1>1. ASSUME NEW T, IsFiniteSet(T), \A x \in T : f[x] \in Nat
        PROVE  SumFunctionOnSet(f, T) \in Nat
    <2> DEFINE F == {V \in SUBSET T : SumFunctionOnSet(f, V) \notin Nat}
    <2>1. SUFFICES ASSUME F # {}
                   PROVE  FALSE
      OBVIOUS
    <2>2. PICK V \in F : \A t \in F : t \subseteq V => t = V
      <3> HIDE DEF F
      <3>1. F \in SUBSET (SUBSET T)
        BY DEF F
      <3> QED
        BY <1>1, <2>1, <3>1, MinimalSubset
    <2>3. IsFiniteSet(V)
      BY <1>1, FS_Subset
    <2>4. CASE V = {}
      BY <2>4, SumEmpty
    <2>5. CASE V # {}
      <3>1. SumFunctionOnSet(f, V) = f[Pick(V)] + SumFunctionOnSet(f, Rest(V))
        BY <2>3, <2>5, SumUnfolds
      <3>2. SumFunctionOnSet(f, Rest(V)) \in Nat
        BY <2>2, <2>5, PickFacts
      <3>3. f[Pick(V)] \in Nat
        BY <1>1, <2>5, PickFacts
      <3> QED
        BY <3>1, <3>2, <3>3
    <2> QED
      BY <2>4, <2>5
  <1>2. ASSUME NEW x \in S
        PROVE  f[x] <= SumFunctionOnSet(f, S)
    <2>1. IsFiniteSet(S \ {x})
      BY FS_Subset
    <2>2. SumFunctionOnSet(f, S \ {x}) \in Nat
      BY <1>1, <2>1
    <2>3. SumFunctionOnSet(f, S) = f[x] + SumFunctionOnSet(f, S \ {x})
      BY SumTakeOut
    <2> QED
      BY <2>2, <2>3
  <1> QED
    BY <1>1, <1>2

(* Zero summands add nothing.                                              *)
LEMMA SumSupport ==
  ASSUME NEW f, NEW S, NEW T, IsFiniteSet(T), S \subseteq T,
         \A x \in T : f[x] \in Int,
         \A x \in T \ S : f[x] = 0
  PROVE  SumFunctionOnSet(f, T) = SumFunctionOnSet(f, S)
  <1> DEFINE F == {V \in SUBSET T : /\ S \subseteq V
                                    /\ SumFunctionOnSet(f, V) # SumFunctionOnSet(f, S)}
  <1>1. SUFFICES ASSUME F # {}
                 PROVE  FALSE
    OBVIOUS
  <1>2. PICK V \in F : \A t \in F : t \subseteq V => t = V
    <2> HIDE DEF F
    <2>1. F \in SUBSET (SUBSET T)
      BY DEF F
    <2> QED
      BY <1>1, <2>1, MinimalSubset
  <1>3. PICK x \in V \ S : TRUE
    OBVIOUS
  <1>4. /\ V \ {x} \in SUBSET T /\ S \subseteq V \ {x} /\ V \ {x} # V
        /\ V \ {x} \subseteq V
    BY <1>3
  <1>5. IsFiniteSet(V) /\ IsFiniteSet(V \ {x})
    BY FS_Subset
  <1>6. SumFunctionOnSet(f, V \ {x}) = SumFunctionOnSet(f, S)
    BY <1>2, <1>4
  <1>7. SumFunctionOnSet(f, V) = f[x] + SumFunctionOnSet(f, V \ {x})
    BY <1>3, <1>5, SumTakeOut
  <1>8. f[x] = 0 /\ SumFunctionOnSet(f, V \ {x}) \in Int
    BY <1>3, <1>4, <1>5, SumInt
  <1> QED
    BY <1>6, <1>7, <1>8

(* Larger summands give a larger sum.                                      *)
LEMMA SumMonotone ==
  ASSUME NEW f, NEW g, NEW S, IsFiniteSet(S),
         \A x \in S : f[x] \in Int /\ g[x] \in Int /\ f[x] <= g[x]
  PROVE  SumFunctionOnSet(f, S) <= SumFunctionOnSet(g, S)
  <1> DEFINE F == {V \in SUBSET S : ~ (SumFunctionOnSet(f, V) <= SumFunctionOnSet(g, V))}
  <1>1. SUFFICES ASSUME F # {}
                 PROVE  FALSE
    OBVIOUS
  <1>2. PICK V \in F : \A t \in F : t \subseteq V => t = V
    <2> HIDE DEF F
    <2>1. F \in SUBSET (SUBSET S)
      BY DEF F
    <2> QED
      BY <1>1, <2>1, MinimalSubset
  <1>3. IsFiniteSet(V)
    BY FS_Subset
  <1>4. CASE V = {}
    BY <1>4, SumEmpty
  <1>5. CASE V # {}
    <2>1. /\ SumFunctionOnSet(f, V) = f[Pick(V)] + SumFunctionOnSet(f, Rest(V))
          /\ SumFunctionOnSet(g, V) = g[Pick(V)] + SumFunctionOnSet(g, Rest(V))
      BY <1>3, <1>5, SumUnfolds
    <2>2. SumFunctionOnSet(f, Rest(V)) <= SumFunctionOnSet(g, Rest(V))
      BY <1>2, <1>5, PickFacts
    <2>3. f[Pick(V)] \in Int /\ g[Pick(V)] \in Int /\ f[Pick(V)] <= g[Pick(V)]
      BY <1>5, PickFacts
    <2>4. /\ SumFunctionOnSet(f, Rest(V)) \in Int
          /\ SumFunctionOnSet(g, Rest(V)) \in Int
      <3>1. Rest(V) \subseteq S /\ IsFiniteSet(Rest(V))
        BY <1>3, <1>5, PickFacts, FS_Subset
      <3> QED
        BY <3>1, SumInt
    <2> QED
      BY <2>1, <2>2, <2>3, <2>4
  <1> QED
    BY <1>4, <1>5

=============================================================================
