------------------------------ MODULE SumTheorems ------------------------------
(***************************************************************************)
(* What the sums of the models add up to: MapThenSumSet over a finite set, *)
(* for every set and every summand.  The summand is a function here, so    *)
(* that the theorems can be cited for any of them.                         *)
(***************************************************************************)
EXTENDS Integers, FiniteSetsExt, FiniteSetTheorems, WellFoundedInduction, TLAPS

sumOver(f, S) == MapThenSumSet(LAMBDA x : f[x], S)

(* The element MapThenSumSet takes out of a set first.                     *)
first(s) == CHOOSE x \in s : TRUE

(* One round of the recursion that adds up the subsets in D.               *)
round(f, D, g) == [s \in D |-> IF s = {} THEN 0 ELSE f[first(s)] + g[s \ {first(s)}]]

addsUp(f, D, g) == g = round(f, D, g)
--------------------------------------------------------------------------------
(* Induction over the subsets of a finite set, the claim given as the set  *)
(* of those it holds for.                                                  *)
THEOREM SubsetInduction ==
  ASSUME NEW S, IsFiniteSet(S), NEW Claim,
         \A T \in SUBSET S : (\A U \in SUBSET T : U # T => U \in Claim) => T \in Claim
  PROVE  S \in Claim
<1> DEFINE Failing == {T \in SUBSET S : T \notin Claim}
           R       == StrictSubsetOrdering(S)
<1>1. \A T \in SUBSET S : IsFiniteSet(T)
  BY FS_Subset
<1>2. Failing \subseteq FiniteSubsetsOf(S)
  BY <1>1 DEF FiniteSubsetsOf
<1>3. IsWellFoundedOn(R, FiniteSubsetsOf(S))
  BY FS_StrictSubsetOrderingWellFounded
<1>4. SUFFICES ASSUME Failing # {} PROVE FALSE
  OBVIOUS
<1>5. PICK T \in Failing : \A U \in Failing : ~(<<U, T>> \in R)
  <2> HIDE DEF Failing, R
  <2> QED
    BY <1>2, <1>3, <1>4, WFMin
<1>6. ASSUME NEW U \in SUBSET T, U # T PROVE U \in Claim
  <2>1. <<U, T>> \in R
    BY <1>6 DEF StrictSubsetOrdering
  <2> QED
    BY <1>5, <2>1
<1> QED
  BY <1>5, <1>6

(* The element taken first is an element of the set.                       *)
THEOREM FirstOfSet == \A s : s # {} => first(s) \in s
  BY DEF first

(* The recursion of MapThenSumSet defines a function.                      *)
LEMMA RecursionDefined ==
  ASSUME NEW f, NEW S, IsFiniteSet(S)
  PROVE  \E g : g = round(f, SUBSET S, g)
<1> DEFINE layer(n)   == {s \in SUBSET S : Cardinality(s) <= n}
           Undefined  == {n \in Nat : ~ \E g : g = round(f, layer(n), g)}
<1>1. \A s \in SUBSET S : IsFiniteSet(s) /\ Cardinality(s) \in Nat /\ Cardinality(s) <= Cardinality(S)
  BY FS_Subset, FS_CardinalityType
<1>2. Undefined = {}
  <2> SUFFICES ASSUME Undefined # {} PROVE FALSE
    OBVIOUS
  <2>1. PICK n \in Undefined : \A m \in Undefined : ~(<<m, n>> \in OpToRel(<, Nat))
    <3>1. Undefined \subseteq Nat
      OBVIOUS
    <3> HIDE DEF Undefined
    <3> QED
      BY <3>1, NatLessThanWellFounded, WFMin, Zenon
  <2>2. n \in Nat /\ ~ \E g : g = round(f, layer(n), g)
    BY <2>1
  <2>3. n # 0
    <3> SUFFICES ASSUME n = 0 PROVE FALSE
      OBVIOUS
    <3> DEFINE g0 == [s \in layer(n) |-> 0]
    <3>1. \A s \in layer(n) : s = {}
      BY <1>1, FS_EmptySet
    <3>2. g0 = round(f, layer(n), g0)
      BY <3>1 DEF round
    <3> QED
      BY <2>2, <3>2
  <2>4. PICK g : g = round(f, layer(n - 1), g)
    <3>1. n - 1 \in Nat /\ n - 1 < n
      BY <2>2, <2>3
    <3>2. <<n - 1, n>> \in OpToRel(<, Nat)
      BY <2>2, <3>1 DEF OpToRel
    <3>3. n - 1 \notin Undefined
      BY <2>1, <3>2
    <3> QED
      BY <3>1, <3>3
  <2> DEFINE h == round(f, layer(n), g)
  <2>5. ASSUME NEW s \in layer(n), s # {} PROVE g[s \ {first(s)}] = h[s \ {first(s)}]
    <3> DEFINE u == s \ {first(s)}
    <3>1. u \in layer(n - 1) /\ u \in layer(n)
      <4>1. Cardinality(u) = Cardinality(s) - 1
        BY <1>1, <2>5, FS_RemoveElement, FirstOfSet
      <4>2. u \in SUBSET S /\ Cardinality(s) \in Nat /\ Cardinality(s) <= n
        BY <1>1
      <4> HIDE DEF u
      <4> QED
        BY <2>2, <4>1, <4>2
    <3>2. g[u] = IF u = {} THEN 0 ELSE f[first(u)] + g[u \ {first(u)}]
      <4> HIDE DEF u, layer
      <4> QED
        BY <2>4, <3>1 DEF round
    <3>3. h[u] = IF u = {} THEN 0 ELSE f[first(u)] + g[u \ {first(u)}]
      <4> HIDE DEF u, layer
      <4> QED
        BY <3>1 DEF round
    <3> QED
      BY <3>2, <3>3
  <2>6. h = round(f, layer(n), h)
    <3> HIDE DEF layer
    <3>1. \A s \in layer(n) : h[s] = IF s = {} THEN 0 ELSE f[first(s)] + g[s \ {first(s)}]
      BY DEF round
    <3> HIDE DEF h
    <3>2. \A s \in layer(n) : h[s] = IF s = {} THEN 0 ELSE f[first(s)] + h[s \ {first(s)}]
      BY <2>5, <3>1
    <3>3. h = [s \in layer(n) |-> h[s]]
      BY DEF h, round
    <3> QED
      BY <3>2, <3>3 DEF round
  <2> QED
    BY <2>2, <2>6
<1>3. Cardinality(S) \in Nat
  BY FS_CardinalityType
<1>4. layer(Cardinality(S)) = SUBSET S
  BY <1>1
<1> QED
  BY <1>2, <1>3, <1>4

(* ... and any two such functions agree where both are defined.            *)
LEMMA RecursionUnique ==
  ASSUME NEW f, NEW T, NEW S \in SUBSET T, IsFiniteSet(S),
         NEW g, addsUp(f, SUBSET S, g), NEW h, addsUp(f, SUBSET T, h)
  PROVE  g[S] = h[S]
<1> DEFINE Claim == {s \in SUBSET S : g[s] = h[s]}
<1>1. ASSUME NEW s \in SUBSET S, \A u \in SUBSET s : u # s => u \in Claim
      PROVE  s \in Claim
  <2>1. /\ g[s] = IF s = {} THEN 0 ELSE f[first(s)] + g[s \ {first(s)}]
        /\ h[s] = IF s = {} THEN 0 ELSE f[first(s)] + h[s \ {first(s)}]
    BY DEF round, addsUp
  <2>2. CASE s = {}
    BY <2>1, <2>2
  <2>3. CASE s # {}
    <3>1. s \ {first(s)} \in SUBSET s /\ s \ {first(s)} # s
      BY <2>3, FirstOfSet
    <3>2. g[s \ {first(s)}] = h[s \ {first(s)}]
      BY <1>1, <3>1
    <3> QED
      BY <2>1, <3>2
  <2> QED
    BY <2>2, <2>3
<1>2. S \in Claim
  <2> HIDE DEF Claim
  <2> QED
    BY <1>1, SubsetInduction
<1> QED
  BY <1>2

(* What adds up the subsets of S.                                          *)
recursion(f, S) == CHOOSE g : addsUp(f, SUBSET S, g)

(* MapThenSumSet is the value at S of that function.                       *)
LEMMA SumByRecursion ==
  ASSUME NEW f, NEW S, IsFiniteSet(S)
  PROVE  /\ sumOver(f, S) = recursion(f, S)[S]
         /\ addsUp(f, SUBSET S, recursion(f, S))
<1>1. sumOver(f, S) = recursion(f, S)[S]
  BY DEF sumOver, MapThenSumSet, MapThenFoldSet, recursion, addsUp, round, first
<1>2. \E g : addsUp(f, SUBSET S, g)
  BY RecursionDefined DEF addsUp
<1> QED
  BY <1>1, <1>2 DEF recursion

(* The sum over a set is that of its first element and of the rest.        *)
THEOREM SumUnfolds ==
  ASSUME NEW f, NEW S, IsFiniteSet(S)
  PROVE  sumOver(f, S) = IF S = {} THEN 0
                         ELSE f[first(S)] + sumOver(f, S \ {first(S)})
<1>1. PICK rest : rest = S \ {first(S)}
  OBVIOUS
<1>2. IsFiniteSet(rest) /\ rest \in SUBSET S
  BY <1>1, FS_RemoveElement
<1>3. PICK large : large = recursion(f, S)
  OBVIOUS
<1>4. PICK small : small = recursion(f, rest)
  OBVIOUS
<1>5. sumOver(f, S) = large[S] /\ addsUp(f, SUBSET S, large)
  BY <1>3, SumByRecursion
<1>6. sumOver(f, rest) = small[rest] /\ addsUp(f, SUBSET rest, small)
  BY <1>2, <1>4, SumByRecursion
<1>7. small[rest] = large[rest]
  BY <1>2, <1>5, <1>6, RecursionUnique
<1>8. large[S] = IF S = {} THEN 0 ELSE f[first(S)] + large[rest]
  BY <1>1, <1>5 DEF addsUp, round
<1> QED
  BY <1>1, <1>5, <1>6, <1>7, <1>8

(* Nothing adds up to zero.                                                *)
THEOREM SumEmpty == \A f : sumOver(f, {}) = 0
  BY SumUnfolds, FS_EmptySet

(* A sum of integers is an integer.                                        *)
THEOREM SumInt ==
  ASSUME NEW f, NEW S, IsFiniteSet(S), \A x \in S : f[x] \in Int
  PROVE  sumOver(f, S) \in Int
<1> DEFINE Claim == {s \in SUBSET S : sumOver(f, s) \in Int}
<1>1. ASSUME NEW s \in SUBSET S, \A u \in SUBSET s : u # s => u \in Claim
      PROVE  s \in Claim
  <2>1. IsFiniteSet(s)
    BY FS_Subset
  <2>2. CASE s = {}
    BY <2>2, SumEmpty
  <2>3. CASE s # {}
    <3>1. s \ {first(s)} \in SUBSET s /\ s \ {first(s)} # s
      BY <2>3, FirstOfSet
    <3>2. sumOver(f, s \ {first(s)}) \in Int /\ f[first(s)] \in Int
      BY <1>1, <2>3, <3>1, FirstOfSet
    <3> QED
      BY <2>1, <2>3, <3>2, SumUnfolds
  <2> QED
    BY <2>2, <2>3
<1>2. S \in Claim
  <2> HIDE DEF Claim
  <2> QED
    BY <1>1, SubsetInduction
<1> QED
  BY <1>2

(* Only the summands of the set matter.                                    *)
THEOREM SumSame ==
  ASSUME NEW f, NEW g, NEW S, IsFiniteSet(S), \A x \in S : f[x] = g[x]
  PROVE  sumOver(f, S) = sumOver(g, S)
<1> DEFINE Claim == {s \in SUBSET S : sumOver(f, s) = sumOver(g, s)}
<1>1. ASSUME NEW s \in SUBSET S, \A u \in SUBSET s : u # s => u \in Claim
      PROVE  s \in Claim
  <2>1. IsFiniteSet(s)
    BY FS_Subset
  <2>2. CASE s = {}
    BY <2>2, SumEmpty
  <2>3. CASE s # {}
    <3>1. s \ {first(s)} \in SUBSET s /\ s \ {first(s)} # s
      BY <2>3, FirstOfSet
    <3>2. sumOver(f, s \ {first(s)}) = sumOver(g, s \ {first(s)}) /\ f[first(s)] = g[first(s)]
      BY <1>1, <2>3, <3>1, FirstOfSet
    <3> QED
      BY <2>1, <2>3, <3>2, SumUnfolds
  <2> QED
    BY <2>2, <2>3
<1>2. S \in Claim
  <2> HIDE DEF Claim
  <2> QED
    BY <1>1, SubsetInduction
<1> QED
  BY <1>2

(* Any element may be taken out first.                                     *)
THEOREM SumRemove ==
  ASSUME NEW f, NEW S, IsFiniteSet(S), \A x \in S : f[x] \in Int, NEW a \in S
  PROVE  sumOver(f, S) = sumOver(f, S \ {a}) + f[a]
<1> DEFINE Claim == {s \in SUBSET S : \A x \in s : sumOver(f, s) = sumOver(f, s \ {x}) + f[x]}
<1>1. ASSUME NEW s \in SUBSET S, \A u \in SUBSET s : u # s => u \in Claim, NEW x \in s
      PROVE  sumOver(f, s) = sumOver(f, s \ {x}) + f[x]
  <2> DEFINE p == first(s)
             rest == (s \ {x}) \ {p}
  <2>1. IsFiniteSet(s) /\ IsFiniteSet(s \ {x}) /\ IsFiniteSet(s \ {p}) /\ IsFiniteSet(rest)
    BY FS_Subset
  <2>2. p \in s
    BY FirstOfSet
  <2>3. sumOver(f, s) = f[p] + sumOver(f, s \ {p})
    BY <2>1, SumUnfolds
  <2>4. \A u \in SUBSET s : sumOver(f, u) \in Int
    <3> SUFFICES ASSUME NEW u \in SUBSET s PROVE sumOver(f, u) \in Int
      OBVIOUS
    <3>1. IsFiniteSet(u) /\ \A y \in u : f[y] \in Int
      BY <2>1, FS_Subset
    <3> QED
      BY <3>1, SumInt
  <2>5. f[p] \in Int /\ f[x] \in Int /\ sumOver(f, s \ {p}) \in Int /\ sumOver(f, s \ {x}) \in Int /\ sumOver(f, rest) \in Int
    BY <2>2, <2>4
  <2>6. CASE x = p
    BY <2>3, <2>5, <2>6
  <2>7. CASE x # p
    <3>1. s \ {p} \in Claim /\ s \ {x} \in Claim
      BY <1>1, <2>2
    <3>2. sumOver(f, s \ {p}) = sumOver(f, (s \ {p}) \ {x}) + f[x]
      BY <2>7, <3>1
    <3>3. sumOver(f, s \ {x}) = sumOver(f, rest) + f[p]
      BY <2>2, <2>7, <3>1
    <3>4. (s \ {p}) \ {x} = rest
      OBVIOUS
    <3> DEFINE whole == sumOver(f, s)
               noP   == sumOver(f, s \ {p})
               noX   == sumOver(f, s \ {x})
               none  == sumOver(f, rest)
    <3>5. whole = f[p] + noP /\ noP = none + f[x] /\ noX = none + f[p]
      BY <2>3, <3>2, <3>3, <3>4
    <3>6. f[p] \in Int /\ f[x] \in Int /\ none \in Int
      BY <2>5
    <3>7. whole = noX + f[x]
      <4> HIDE DEF p, rest, whole, noP, noX, none
      <4> QED
        BY <3>5, <3>6
    <3> QED
      BY <3>7
  <2> QED
    BY <2>6, <2>7
<1>2. S \in Claim
  <2>1. ASSUME NEW s \in SUBSET S, \A u \in SUBSET s : u # s => u \in Claim
        PROVE  s \in Claim
    BY <1>1, <2>1
  <2> HIDE DEF Claim
  <2> QED
    BY <2>1, SubsetInduction
<1> QED
  BY <1>2

(* A new element adds its summand.                                         *)
THEOREM SumAdd ==
  ASSUME NEW f, NEW S, IsFiniteSet(S), NEW a, a \notin S,
         \A x \in S \cup {a} : f[x] \in Int
  PROVE  sumOver(f, S \cup {a}) = sumOver(f, S) + f[a]
<1>1. IsFiniteSet(S \cup {a}) /\ (S \cup {a}) \ {a} = S
  BY FS_AddElement
<1> QED
  BY <1>1, SumRemove

(* One summand changes.                                                    *)
THEOREM SumUpdate ==
  ASSUME NEW f, NEW g, NEW S, IsFiniteSet(S), NEW a \in S,
         \A x \in S : f[x] \in Int /\ g[x] \in Int,
         \A x \in S \ {a} : f[x] = g[x]
  PROVE  sumOver(g, S) = sumOver(f, S) + (g[a] - f[a])
<1>1. IsFiniteSet(S \ {a}) /\ \A x \in S \ {a} : f[x] \in Int
  BY FS_Subset
<1>2. sumOver(f, S) = sumOver(f, S \ {a}) + f[a]
  BY SumRemove
<1>3. sumOver(g, S) = sumOver(g, S \ {a}) + g[a]
  BY SumRemove
<1>4. sumOver(f, S \ {a}) = sumOver(g, S \ {a}) /\ sumOver(f, S \ {a}) \in Int
  BY <1>1, SumSame, SumInt
<1> QED
  BY <1>2, <1>3, <1>4

(* Zeros add up to zero.                                                   *)
THEOREM SumOfZeros ==
  ASSUME NEW f, NEW S, IsFiniteSet(S), \A x \in S : f[x] = 0
  PROVE  sumOver(f, S) = 0
<1> DEFINE Claim == {s \in SUBSET S : sumOver(f, s) = 0}
<1>1. ASSUME NEW s \in SUBSET S, \A u \in SUBSET s : u # s => u \in Claim
      PROVE  s \in Claim
  <2>1. IsFiniteSet(s)
    BY FS_Subset
  <2>2. CASE s = {}
    BY <2>2, SumEmpty
  <2>3. CASE s # {}
    <3>1. s \ {first(s)} \in SUBSET s /\ s \ {first(s)} # s
      BY <2>3, FirstOfSet
    <3>2. sumOver(f, s \ {first(s)}) = 0 /\ f[first(s)] = 0
      BY <1>1, <2>3, <3>1, FirstOfSet
    <3> QED
      BY <2>1, <2>3, <3>2, SumUnfolds
  <2> QED
    BY <2>2, <2>3
<1>2. S \in Claim
  <2> HIDE DEF Claim
  <2> QED
    BY <1>1, SubsetInduction
<1> QED
  BY <1>2

(* A finite set has finitely many images.                                  *)
THEOREM ImageFinite ==
  ASSUME NEW h, NEW S, IsFiniteSet(S)
  PROVE  IsFiniteSet({h[x] : x \in S})
<1> DEFINE Claim == {s \in SUBSET S : IsFiniteSet({h[x] : x \in s})}
<1>1. ASSUME NEW s \in SUBSET S, \A u \in SUBSET s : u # s => u \in Claim
      PROVE  s \in Claim
  <2>1. CASE s = {}
    <3>1. {h[x] : x \in s} = {}
      BY <2>1
    <3> QED
      BY <3>1, FS_EmptySet
  <2>2. CASE s # {}
    <3>1. PICK a \in s : TRUE
      BY <2>2
    <3>2. s \ {a} \in SUBSET s /\ s \ {a} # s
      BY <3>1
    <3>3. IsFiniteSet({h[x] : x \in s \ {a}})
      BY <1>1, <3>2
    <3>4. {h[x] : x \in s} = {h[x] : x \in s \ {a}} \cup {h[a]}
      BY <3>1
    <3>5. IsFiniteSet({h[x] : x \in s \ {a}} \cup {h[a]})
      BY <3>3, FS_AddElement
    <3> QED
      BY <3>4, <3>5
  <2> QED
    BY <2>1, <2>2
<1>2. S \in Claim
  <2> HIDE DEF Claim
  <2> QED
    BY <1>1, SubsetInduction
<1> QED
  BY <1>2

(* A sum over images that differ is the sum over where they come from.     *)
THEOREM SumOfImage ==
  ASSUME NEW f, NEW g, NEW h, NEW S, IsFiniteSet(S),
         \A x \in S : f[x] = g[h[x]] /\ f[x] \in Int,
         \A x, y \in S : h[x] = h[y] => x = y
  PROVE  sumOver(g, {h[x] : x \in S}) = sumOver(f, S)
<1> DEFINE image(s) == {h[x] : x \in s}
           Claim    == {s \in SUBSET S : sumOver(g, image(s)) = sumOver(f, s)}
<1>1. ASSUME NEW s \in SUBSET S, \A u \in SUBSET s : u # s => u \in Claim
      PROVE  s \in Claim
  <2>1. CASE s = {}
    <3>1. image(s) = {}
      BY <2>1
    <3> QED
      BY <2>1, <3>1, SumEmpty
  <2>2. CASE s # {}
    <3>1. PICK a \in s : TRUE
      BY <2>2
    <3> DEFINE rest == s \ {a}
    <3>2. rest \in SUBSET s /\ rest # s /\ a \notin rest /\ s = rest \cup {a}
      BY <3>1
    <3>3. IsFiniteSet(rest) /\ IsFiniteSet(image(rest))
      BY <3>2, FS_Subset, ImageFinite
    <3>4. image(s) = image(rest) \cup {h[a]} /\ h[a] \notin image(rest)
      BY <3>1
    <3>5. sumOver(g, image(rest)) = sumOver(f, rest)
      BY <1>1, <3>2
    <3>6. sumOver(f, s) = sumOver(f, rest) + f[a]
      <4>1. \A x \in rest \cup {a} : f[x] \in Int
        BY <3>2
      <4> HIDE DEF rest
      <4> QED
        BY <3>2, <3>3, <4>1, SumAdd
    <3>7. sumOver(g, image(s)) = sumOver(g, image(rest)) + g[h[a]]
      <4>1. \A y \in image(rest) \cup {h[a]} : g[y] \in Int
        BY <3>1
      <4> HIDE DEF rest, image
      <4> QED
        BY <3>3, <3>4, <4>1, SumAdd
    <3>8. f[a] = g[h[a]]
      BY <3>1
    <3> HIDE DEF rest, image
    <3> QED
      BY <3>5, <3>6, <3>7, <3>8
  <2> QED
    BY <2>1, <2>2
<1>2. S \in Claim
  <2> HIDE DEF Claim
  <2> QED
    BY <1>1, SubsetInduction
<1> QED
  BY <1>2
================================================================================
