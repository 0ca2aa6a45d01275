--------------------------- MODULE DataInduction ---------------------------
(***************************************************************************)
(* Facts about what the models compute by recursion, for every input: sums *)
(* over finite sets (SumFunctionOnSet of the community modules), the       *)
(* filter of Filtering, folds of sequences, Euclid's algorithm and with it *)
(* the exact fractions of Ratio.  All take their data apart step by step,  *)
(* so every fact is an induction.  The induction theorems of the library   *)
(* take an operator as a parameter, which the provers cannot instantiate;  *)
(* these proofs go by a minimal counterexample instead: were the fact      *)
(* wrong of some subset, or prefix, it would be wrong of one all of whose  *)
(* proper subsets, or prefixes, it is right of.                            *)
(***************************************************************************)
EXTENDS Filtering, Holdings, Ratio, Integers, FiniteSets, Functions, FiniteSetTheorems, SequenceTheorems,
        WellFoundedInduction, TLAPS

\* A set of naturals has a smallest member.
LEMMA SmallestMember ==
  ASSUME NEW T, T \subseteq Nat, T # {}
  PROVE  \E m \in T : \A k \in T : m <= k
  <1> DEFINE R == {ss \in Nat \X Nat : ss[1] < ss[2]}
  <1>1. OpToRel(<, Nat) = R
    BY Zenon DEF OpToRel
  <1>2. IsWellFoundedOn(R, Nat)
    BY <1>1, NatLessThanWellFounded, Zenon
  <1>3. \E m \in T : \A k \in T : ~(<<k, m>> \in R)
    <2> HIDE DEF R
    <2> QED BY <1>2, WFMin
  <1>4. PICK m \in T : \A k \in T : ~(<<k, m>> \in R)
    BY <1>3
  <1>5. ASSUME NEW k \in T PROVE m <= k
    <2>1. k \in Nat /\ m \in Nat /\ ~(k < m)
      BY <1>4
    <2> QED BY <2>1
  <1> QED BY <1>5

\* Of a set of numbers up to n, Max is the largest.
LEMMA LargestMember ==
  ASSUME NEW n \in Nat, NEW T \in SUBSET (1 .. n), T # {}
  PROVE  Max(T) \in T /\ \A k \in T : k <= Max(T)
  <1> DEFINE gaps == {n - k : k \in T}
  <1>1. gaps \subseteq Nat /\ gaps # {}
    <2>1. \A k \in T : n - k \in Nat
      OBVIOUS
    <2> QED BY <2>1
  <1>2. PICK g \in gaps : \A k \in gaps : g <= k
    <2> HIDE DEF gaps
    <2> QED BY <1>1, SmallestMember
  <1>3. PICK m \in T : g = n - m
    OBVIOUS
  <1>4. \A k \in T : m >= k
    <2>1. \A k \in T : n - k \in gaps /\ k \in Nat
      OBVIOUS
    <2> HIDE DEF gaps
    <2> QED BY <1>2, <1>3, <2>1
  <1>5. \E x \in T : \A y \in T : x >= y
    BY <1>4
  <1>6. Max(T) \in T /\ \A y \in T : Max(T) >= y
    BY <1>5 DEF Max
  <1> QED BY <1>6

\* A family of subsets of a finite set has a minimal member.
LEMMA MinimalSubset ==
  ASSUME NEW S, IsFiniteSet(S), NEW T, T \subseteq SUBSET S, T # {}
  PROVE  \E m \in T : \A k \in T : k \subseteq m => k = m
  <1> DEFINE sizes == {Cardinality(t) : t \in T}
  <1>1. \A t \in T : IsFiniteSet(t) /\ Cardinality(t) \in Nat
    BY FS_Subset, FS_CardinalityType
  <1>2. sizes \subseteq Nat /\ sizes # {}
    BY <1>1
  <1>3. PICK n \in sizes : \A k \in sizes : n <= k
    <2> HIDE DEF sizes
    <2> QED BY <1>2, SmallestMember
  <1>4. PICK m \in T : Cardinality(m) = n
    OBVIOUS
  <1>5. ASSUME NEW k \in T, k \subseteq m, k # m PROVE FALSE
    <2>1. Cardinality(k) <= Cardinality(m) /\ Cardinality(k) # Cardinality(m)
      BY <1>1, <1>5, FS_Subset
    <2>2. n <= Cardinality(k)
      BY <1>3
    <2> QED BY <1>1, <1>4, <2>1, <2>2
  <1> QED BY <1>5

\* Of a finite set of naturals too.
LEMMA LargestOfFinite ==
  ASSUME NEW T, T \subseteq Nat, IsFiniteSet(T), T # {}
  PROVE  Max(T) \in T /\ \A k \in T : k <= Max(T)
  <1> DEFINE has(U) == \E x \in U : \A y \in U : x >= y
             bad == {U \in SUBSET T : U # {} /\ ~has(U)}
  <1>1. SUFFICES ASSUME bad # {} PROVE FALSE
    <2>1. bad = {} => has(T)
      OBVIOUS
    <2> QED BY <2>1 DEF Max
  <1>2. PICK m \in bad : \A U \in bad : U \subseteq m => U = m
    <2>1. bad \subseteq SUBSET T
      OBVIOUS
    <2>2. IsFiniteSet(T)
      OBVIOUS
    <2> HIDE DEF bad, has
    <2> QED BY ONLY <1>1, <2>1, <2>2, MinimalSubset
  <1>3. m \subseteq Nat /\ m # {} /\ ~has(m)
    OBVIOUS
  <1>4. PICK p \in m : TRUE
    BY <1>3
  <1> DEFINE u == m \ {p}
  <1>5. u # {}
    <2>1. u = {} => m = {p} /\ p >= p
      BY <1>3, <1>4
    <2> QED BY <1>3, <2>1
  <1>6. has(u)
    <2> HIDE DEF has
    <2> QED BY <1>2, <1>4, <1>5
  <1>7. PICK x \in u : \A y \in u : x >= y
    BY <1>6
  <1>8. x \in Nat /\ p \in Nat /\ x \in m /\ \A y \in m : y = p \/ y \in u
    BY <1>3, <1>4
  <1>9. has(m)
    <2>1. CASE x >= p
      BY <1>7, <1>8, <2>1
    <2>2. CASE p >= x
      <3>1. \A y \in m : p >= y
        BY <1>3, <1>7, <1>8, <2>2
      <3> QED BY <1>4, <3>1
    <2> QED BY <1>8, <2>1, <2>2
  <1> QED BY <1>3, <1>9

-----------------------------------------------------------------------------
Pick(s) == CHOOSE x \in s : TRUE

\* The equation MapThenFoldSet is defined by.
IsSum(h, g, S) ==
    h = [s \in SUBSET S |-> IF s = {} THEN 0 ELSE g[Pick(s)] + h[s \ {Pick(s)}]]

SumOf(g, S) == (CHOOSE h : IsSum(h, g, S))[S]

\* Which is what the community module computes.
LEMMA SumIsSum == \A g, S : SumFunctionOnSet(g, S) = SumOf(g, S)
  BY DEF SumFunctionOnSet, FoldFunctionOnSet, MapThenFoldSet, SumOf, IsSum, Pick

\* The choice an element is taken out by.
LEMMA Picked == \A s : s # {} => Pick(s) \in s
  BY DEF Pick

\* Two functions that satisfy the equation agree where both are defined.
LEMMA SumsAgree ==
  ASSUME NEW S, NEW T, NEW U, IsFiniteSet(U), U \subseteq S, U \subseteq T, NEW g,
         NEW h, NEW k, IsSum(h, g, S), IsSum(k, g, T)
  PROVE  h[U] = k[U]
  <1> DEFINE bad == {s \in SUBSET U : h[s] # k[s]}
  <1>1. SUFFICES ASSUME bad # {} PROVE FALSE
    OBVIOUS
  <1>2. PICK m \in bad : \A s \in bad : s \subseteq m => s = m
    <2>1. bad \subseteq SUBSET U
      OBVIOUS
    <2> HIDE DEF bad
    <2> QED BY <1>1, <2>1, MinimalSubset
  <1>3. m \subseteq U /\ h[m] # k[m]
    OBVIOUS
  <1>4. m # {}
    BY <1>3 DEF IsSum
  <1> DEFINE p == Pick(m)
  <1>5. p \in m
    BY <1>4, Picked
  <1>6. h[m \ {p}] = k[m \ {p}]
    BY <1>2, <1>3, <1>5
  <1>7. h[m] = g[p] + h[m \ {p}] /\ k[m] = g[p] + k[m \ {p}]
    BY <1>3, <1>4 DEF IsSum
  <1> QED BY <1>3, <1>6, <1>7

\* A finite set has a function that satisfies the equation.
LEMMA SumExists ==
  ASSUME NEW S, IsFiniteSet(S), NEW g
  PROVE  \E h : IsSum(h, g, S)
  <1> DEFINE bad == {s \in SUBSET S : ~\E h : IsSum(h, g, s)}
  <1>1. SUFFICES ASSUME bad # {} PROVE FALSE
    OBVIOUS
  <1>2. PICK m \in bad : \A s \in bad : s \subseteq m => s = m
    <2>1. bad \subseteq SUBSET S
      OBVIOUS
    <2> HIDE DEF bad
    <2> QED BY <1>1, <2>1, MinimalSubset
  <1> DEFINE part(s) == CHOOSE h : IsSum(h, g, s)
             whole   == [s \in SUBSET m |->
                            IF s = {} THEN 0 ELSE g[Pick(s)] + part(s \ {Pick(s)})[s \ {Pick(s)}]]
  <1>3. \A s \in SUBSET m : s # m => IsSum(part(s), g, s)
    BY <1>2
  <1>4. ASSUME NEW s \in SUBSET m, s # {} PROVE whole[s \ {Pick(s)}] = part(s \ {Pick(s)})[s \ {Pick(s)}]
    <2> DEFINE u == s \ {Pick(s)}
    <2>1. u \subseteq m /\ u # m
      BY <1>4, Picked
    <2>2. IsSum(part(u), g, u)
      BY <1>3, <2>1
    <2>3. CASE u = {}
      BY <2>2, <2>3 DEF IsSum
    <2>4. CASE u # {}
      <3> DEFINE v == u \ {Pick(u)}
      <3>1. v \subseteq u /\ v # m /\ IsFiniteSet(v)
        BY <2>1, FS_Subset
      <3>2. IsSum(part(v), g, v)
        BY <1>3, <2>1, <3>1
      <3>3. part(u)[v] = part(v)[v]
        <4> HIDE DEF part
        <4> QED BY <2>2, <3>1, <3>2, SumsAgree
      <3>4. part(u)[u] = g[Pick(u)] + part(u)[v]
        BY <2>2, <2>4 DEF IsSum
      <3>5. whole[u] = g[Pick(u)] + part(v)[v]
        BY <2>1, <2>4
      <3> QED BY <3>3, <3>4, <3>5
    <2> QED BY <2>3, <2>4
  <1>5. IsSum(whole, g, m)
    <2> DEFINE right == [s \in SUBSET m |->
                            IF s = {} THEN 0 ELSE g[Pick(s)] + whole[s \ {Pick(s)}]]
    <2>1. ASSUME NEW s \in SUBSET m PROVE whole[s] = right[s]
      <3>1. CASE s = {}
        BY <3>1
      <3>2. CASE s # {}
        <4>1. whole[s] = g[Pick(s)] + part(s \ {Pick(s)})[s \ {Pick(s)}]
          BY <3>2
        <4>2. right[s] = g[Pick(s)] + whole[s \ {Pick(s)}]
          BY <3>2
        <4> QED BY <4>1, <4>2, <3>2, <1>4
      <3> QED BY <3>1, <3>2
    <2>2. whole = right
      <3> HIDE DEF part
      <3> QED BY <2>1
    <2> QED BY <2>2 DEF IsSum
  <1> QED BY <1>2, <1>5

\* The sum is the picked element and the sum of the rest.
LEMMA SumUnfold ==
  ASSUME NEW S, IsFiniteSet(S), NEW g
  PROVE  /\ SumOf(g, {}) = 0
         /\ S # {} => SumOf(g, S) = g[Pick(S)] + SumOf(g, S \ {Pick(S)})
  <1> DEFINE h(s) == CHOOSE k : IsSum(k, g, s)
  <1>1. \A s : IsFiniteSet(s) => IsSum(h(s), g, s)
    BY SumExists
  <1>2. SumOf(g, {}) = 0
    <2>1. IsSum(h({}), g, {})
      BY <1>1, FS_EmptySet
    <2>2. h({})[{}] = 0
      <3> HIDE DEF h
      <3> QED BY <2>1 DEF IsSum
    <2> QED BY <2>2 DEF SumOf
  <1>3. ASSUME S # {} PROVE SumOf(g, S) = g[Pick(S)] + SumOf(g, S \ {Pick(S)})
    <2> DEFINE u == S \ {Pick(S)}
    <2>1. IsFiniteSet(u) /\ u \subseteq S
      BY FS_Subset
    <2>2. IsSum(h(S), g, S) /\ IsSum(h(u), g, u)
      BY <1>1, <2>1
    <2>3. h(S)[S] = g[Pick(S)] + h(S)[u]
      <3> HIDE DEF h
      <3> QED BY <1>3, <2>2 DEF IsSum
    <2>4. h(S)[u] = h(u)[u]
      <3> HIDE DEF h
      <3> QED BY <2>1, <2>2, SumsAgree
    <2> QED BY <2>3, <2>4 DEF SumOf
  <1> QED BY <1>2, <1>3

\* Integers have an integer sum.
LEMMA SumType ==
  ASSUME NEW S, IsFiniteSet(S), NEW g, \A x \in S : g[x] \in Int
  PROVE  SumOf(g, S) \in Int
  <1> DEFINE bad == {s \in SUBSET S : SumOf(g, s) \notin Int}
  <1>1. SUFFICES ASSUME bad # {} PROVE FALSE
    OBVIOUS
  <1>2. PICK m \in bad : \A s \in bad : s \subseteq m => s = m
    <2>1. bad \subseteq SUBSET S
      OBVIOUS
    <2> HIDE DEF bad
    <2> QED BY <1>1, <2>1, MinimalSubset
  <1>3. IsFiniteSet(m) /\ m # {}
    <2>1. IsFiniteSet(m)
      BY FS_Subset
    <2>2. SumOf(g, {}) = 0
      BY SumUnfold
    <2> QED BY <2>1, <2>2
  <1>4. SumOf(g, m) = g[Pick(m)] + SumOf(g, m \ {Pick(m)}) /\ Pick(m) \in m
    BY <1>3, SumUnfold, Picked
  <1>5. SumOf(g, m \ {Pick(m)}) \in Int
    BY <1>2, <1>4
  <1> QED BY <1>2, <1>4, <1>5

\* The order the elements are taken in makes no difference.
LEMMA SumRemove ==
  ASSUME NEW S, IsFiniteSet(S), NEW g, \A x \in S : g[x] \in Int
  PROVE  \A x \in S : SumOf(g, S) = g[x] + SumOf(g, S \ {x})
  <1> DEFINE bad == {s \in SUBSET S : \E x \in s : SumOf(g, s) # g[x] + SumOf(g, s \ {x})}
  <1>1. SUFFICES ASSUME bad # {} PROVE FALSE
    OBVIOUS
  <1>2. PICK m \in bad : \A s \in bad : s \subseteq m => s = m
    <2>1. bad \subseteq SUBSET S
      OBVIOUS
    <2> HIDE DEF bad
    <2> QED BY <1>1, <2>1, MinimalSubset
  <1>3. PICK x \in m : SumOf(g, m) # g[x] + SumOf(g, m \ {x})
    OBVIOUS
  <1> DEFINE p == Pick(m)
  <1>4. p \in m /\ m \subseteq S
    BY <1>3, Picked
  <1>5. SumOf(g, m) = g[p] + SumOf(g, m \ {p})
    BY <1>3, FS_Subset, SumUnfold
  <1>6. p # x
    BY <1>3, <1>5
  <1> DEFINE r == m \ {p, x}
  <1>7. SumOf(g, m \ {p}) = g[x] + SumOf(g, r)
    <2>1. m \ {p} \notin bad
      BY <1>2, <1>4
    <2>2. x \in m \ {p} /\ (m \ {p}) \ {x} = r /\ m \ {p} \in SUBSET S
      BY <1>4, <1>6
    <2> QED BY <2>1, <2>2
  <1>8. SumOf(g, m \ {x}) = g[p] + SumOf(g, r)
    <2>1. m \ {x} \notin bad
      BY <1>2, <1>3
    <2>2. p \in m \ {x} /\ (m \ {x}) \ {p} = r /\ m \ {x} \in SUBSET S
      BY <1>4, <1>6
    <2> QED BY <2>1, <2>2
  <1>9. g[p] \in Int /\ g[x] \in Int /\ SumOf(g, r) \in Int
    BY <1>4, FS_Subset, SumType
  <1> HIDE DEF bad
  <1> QED BY <1>3, <1>5, <1>7, <1>8, <1>9

\* One more element adds its value.
LEMMA SumAdd ==
  ASSUME NEW S, IsFiniteSet(S), NEW x, x \notin S, NEW g,
         g[x] \in Int, \A y \in S : g[y] \in Int
  PROVE  SumOf(g, S \cup {x}) = SumOf(g, S) + g[x]
  <1>1. IsFiniteSet(S \cup {x}) /\ (S \cup {x}) \ {x} = S
    BY FS_AddElement
  <1>2. SumOf(g, S \cup {x}) = g[x] + SumOf(g, S)
    BY <1>1, SumRemove
  <1> QED BY <1>2, SumType

\* The sum depends on the values on the set alone.
LEMMA SumCong ==
  ASSUME NEW S, IsFiniteSet(S), NEW f, NEW g, \A x \in S : f[x] = g[x]
  PROVE  SumOf(f, S) = SumOf(g, S)
  <1> DEFINE bad == {s \in SUBSET S : SumOf(f, s) # SumOf(g, s)}
  <1>1. SUFFICES ASSUME bad # {} PROVE FALSE
    OBVIOUS
  <1>2. PICK m \in bad : \A s \in bad : s \subseteq m => s = m
    <2>1. bad \subseteq SUBSET S
      OBVIOUS
    <2> HIDE DEF bad
    <2> QED BY <1>1, <2>1, MinimalSubset
  <1>3. IsFiniteSet(m) /\ m # {}
    BY FS_Subset, SumUnfold
  <1>4. /\ SumOf(f, m) = f[Pick(m)] + SumOf(f, m \ {Pick(m)})
        /\ SumOf(g, m) = g[Pick(m)] + SumOf(g, m \ {Pick(m)})
        /\ Pick(m) \in m
    BY <1>3, SumUnfold, Picked
  <1>5. SumOf(f, m \ {Pick(m)}) = SumOf(g, m \ {Pick(m)})
    BY <1>2, <1>4
  <1> QED BY <1>2, <1>4, <1>5

\* The sums of disjoint sets add up.
LEMMA SumUnion ==
  ASSUME NEW S, NEW T, IsFiniteSet(S), IsFiniteSet(T), S \cap T = {}, NEW g,
         \A x \in S \cup T : g[x] \in Int
  PROVE  SumOf(g, S \cup T) = SumOf(g, S) + SumOf(g, T)
  <1> DEFINE bad == {s \in SUBSET T : SumOf(g, S \cup s) # SumOf(g, S) + SumOf(g, s)}
  <1>1. SUFFICES ASSUME bad # {} PROVE FALSE
    OBVIOUS
  <1>2. PICK m \in bad : \A s \in bad : s \subseteq m => s = m
    <2>1. bad \subseteq SUBSET T
      OBVIOUS
    <2> HIDE DEF bad
    <2> QED BY <1>1, <2>1, MinimalSubset
  <1>3. SumOf(g, S) \in Int
    BY SumType
  <1>4. m # {}
    <2>1. SumOf(g, {}) = 0 /\ S \cup {} = S
      BY SumUnfold
    <2>2. SumOf(g, S \cup {}) = SumOf(g, S) + SumOf(g, {})
      BY <1>3, <2>1
    <2> QED BY <2>2
  <1>5. PICK x \in m : TRUE
    BY <1>4
  <1> DEFINE u == m \ {x}
  <1>6. /\ IsFiniteSet(u) /\ IsFiniteSet(S \cup u) /\ x \notin S \cup u
        /\ (S \cup u) \cup {x} = S \cup m /\ u \cup {x} = m /\ u \in SUBSET T
    BY <1>5, FS_Subset, FS_Union
  <1>7. SumOf(g, S \cup u) = SumOf(g, S) + SumOf(g, u)
    BY <1>2, <1>6
  <1>8. SumOf(g, S \cup m) = SumOf(g, S \cup u) + g[x] /\ SumOf(g, m) = SumOf(g, u) + g[x]
    BY <1>6, SumAdd
  <1>9. SumOf(g, u) \in Int /\ g[x] \in Int
    BY <1>6, SumType
  <1> QED BY <1>2, <1>3, <1>7, <1>8, <1>9

-----------------------------------------------------------------------------
\* The sum over a set: of integers it is an integer, nothing adds nothing,
\* and it depends on the values on the set alone.
THEOREM SumOnSet ==
  ASSUME NEW S, IsFiniteSet(S), NEW f, \A x \in S : f[x] \in Int
  PROVE  /\ SumFunctionOnSet(f, S) \in Int
         /\ SumFunctionOnSet(f, {}) = 0
         /\ \A g : (\A x \in S : f[x] = g[x]) => SumFunctionOnSet(f, S) = SumFunctionOnSet(g, S)
  <1>1. SumOf(f, S) \in Int /\ SumOf(f, {}) = 0
    BY SumType, SumUnfold
  <1>2. ASSUME NEW g, \A x \in S : f[x] = g[x] PROVE SumOf(f, S) = SumOf(g, S)
    BY <1>2, SumCong
  <1> QED BY <1>1, <1>2, SumIsSum

\* Disjoint sets, rows of a table and rows of a session for instance, add up.
THEOREM SumSplit ==
  ASSUME NEW S, NEW T, IsFiniteSet(S), IsFiniteSet(T), S \cap T = {}, NEW f,
         \A x \in S \cup T : f[x] \in Int
  PROVE  SumFunctionOnSet(f, S \cup T) = SumFunctionOnSet(f, S) + SumFunctionOnSet(f, T)
  BY SumUnion, SumIsSum

\* One element more.
THEOREM SumWith ==
  ASSUME NEW S, IsFiniteSet(S), NEW x, x \notin S, NEW f,
         f[x] \in Int, \A y \in S : f[y] \in Int
  PROVE  SumFunctionOnSet(f, S \cup {x}) = SumFunctionOnSet(f, S) + f[x]
  BY SumAdd, SumIsSum

\* Each value turned into its negative turns the sum.
THEOREM SumNegated ==
  ASSUME NEW S, IsFiniteSet(S), NEW f, NEW g, \A x \in S : f[x] \in Int /\ g[x] = -f[x]
  PROVE  SumFunctionOnSet(g, S) = -SumFunctionOnSet(f, S)
  <1> DEFINE bad == {s \in SUBSET S : SumFunctionOnSet(g, s) # -SumFunctionOnSet(f, s)}
  <1>1. SUFFICES ASSUME bad # {} PROVE FALSE
    OBVIOUS
  <1>2. PICK m \in bad : \A s \in bad : s \subseteq m => s = m
    <2>1. bad \subseteq SUBSET S
      OBVIOUS
    <2> HIDE DEF bad
    <2> QED BY <1>1, <2>1, MinimalSubset
  <1>3. IsFiniteSet(m) /\ \A x \in S : g[x] \in Int
    BY FS_Subset
  <1>4. m # {}
    <2>1. SumFunctionOnSet(f, {}) = 0 /\ SumFunctionOnSet(g, {}) = 0
      BY <1>3, SumOnSet
    <2> QED BY <2>1
  <1>5. PICK x \in m : TRUE
    BY <1>4
  <1> DEFINE u == m \ {x}
  <1>6. IsFiniteSet(u) /\ u \cup {x} = m /\ u \subseteq m /\ u # m /\ u \subseteq S /\ x \notin u
    BY <1>3, <1>5, FS_Subset
  <1>7. SumFunctionOnSet(g, u) = -SumFunctionOnSet(f, u)
    BY <1>2, <1>6
  <1>8. /\ SumFunctionOnSet(f, m) = SumFunctionOnSet(f, u) + f[x]
        /\ SumFunctionOnSet(g, m) = SumFunctionOnSet(g, u) + g[x]
    <2> HIDE DEF u
    <2> QED BY <1>3, <1>5, <1>6, SumWith
  <1>9. SumFunctionOnSet(f, u) \in Int /\ SumFunctionOnSet(g, u) \in Int
    <2> HIDE DEF u
    <2> QED BY <1>3, <1>6, SumOnSet
  <1>10. f[x] \in Int /\ g[x] = -f[x]
    BY <1>5
  <1> HIDE DEF u
  <1>11. SumFunctionOnSet(g, m) = -SumFunctionOnSet(f, m)
    BY <1>6, <1>7, <1>8, <1>9, <1>10
  <1> QED BY <1>2, <1>11

\* Each value multiplied multiplies the sum.
THEOREM SumScaled ==
  ASSUME NEW S, IsFiniteSet(S), NEW f, NEW g, NEW k \in Int, \A x \in S : f[x] \in Int /\ g[x] = k * f[x]
  PROVE  SumFunctionOnSet(g, S) = k * SumFunctionOnSet(f, S)
  <1> DEFINE bad == {s \in SUBSET S : SumFunctionOnSet(g, s) # k * SumFunctionOnSet(f, s)}
  <1>1. SUFFICES ASSUME bad # {} PROVE FALSE
    OBVIOUS
  <1>2. PICK m \in bad : \A s \in bad : s \subseteq m => s = m
    <2>1. bad \subseteq SUBSET S
      OBVIOUS
    <2> HIDE DEF bad
    <2> QED BY <1>1, <2>1, MinimalSubset
  <1>3. IsFiniteSet(m) /\ m \subseteq S /\ \A x \in S : f[x] \in Int /\ g[x] \in Int
    BY FS_Subset
  <1>4. m # {}
    <2>1. SumFunctionOnSet(f, {}) = 0 /\ SumFunctionOnSet(g, {}) = 0
      BY <1>3, SumOnSet
    <2>2. k * 0 = 0
      OBVIOUS
    <2> QED BY <2>1, <2>2
  <1>5. PICK x \in m : TRUE
    BY <1>4
  <1> DEFINE u == m \ {x}
  <1>6. IsFiniteSet(u) /\ u \cup {x} = m /\ u \subseteq m /\ u # m /\ u \subseteq S /\ x \notin u /\ x \in S
    BY <1>3, <1>5, FS_Subset
  <1>7. SumFunctionOnSet(g, u) = k * SumFunctionOnSet(f, u)
    BY <1>2, <1>6
  <1> HIDE DEF u
  <1>8. /\ SumFunctionOnSet(f, u \cup {x}) = SumFunctionOnSet(f, u) + f[x]
        /\ SumFunctionOnSet(g, u \cup {x}) = SumFunctionOnSet(g, u) + g[x]
    BY <1>3, <1>6, SumWith
  <1>9. SumFunctionOnSet(f, u) \in Int
    BY <1>3, <1>6, SumOnSet
  <1>10. f[x] \in Int /\ g[x] = k * f[x]
    BY <1>6
  <1>11. \A a, b \in Int : k * (a + b) = k * a + k * b
    OBVIOUS
  <1> QED BY <1>2, <1>6, <1>7, <1>8, <1>9, <1>10, <1>11, ZenonT(40)

\* g sums f over each class of S.
Classes(S, f, g, class, B) ==
    /\ IsFiniteSet(S) /\ B = {class[x] : x \in S}
    /\ \A x \in S : f[x] \in Int
    /\ \A b \in B : g[b] = SumFunctionOnSet(f, {x \in S : class[x] = b})

\* A set that is split by class: the sums of the classes are the sum of the set.
THEOREM SumByClass ==
  ASSUME NEW S, NEW f, NEW g, NEW class, NEW B, Classes(S, f, g, class, B)
  PROVE  IsFiniteSet(B) /\ SumFunctionOnSet(g, B) = SumFunctionOnSet(f, S)
  <1> USE DEF Classes
  <1> DEFINE of(C) == {x \in S : class[x] \in C}
             one(b) == {x \in S : class[x] = b}
             bad == {C \in SUBSET B : SumFunctionOnSet(g, C) # SumFunctionOnSet(f, of(C))}
  <1>0. IsFiniteSet(B)
    <2> DEFINE h == [x \in S |-> class[x]]
    <2>1. h \in Surjection(S, B)
      BY DEF Surjection
    <2> HIDE DEF h
    <2> QED BY <2>1, FS_Surjection
  <1>1. SUFFICES ASSUME bad # {} PROVE FALSE
    <2>1. of(B) = S
      OBVIOUS
    <2> QED BY <1>0, <2>1
  <1>2. PICK m \in bad : \A C \in bad : C \subseteq m => C = m
    <2>1. bad \subseteq SUBSET B
      OBVIOUS
    <2> HIDE DEF bad
    <2> QED BY <1>0, <1>1, <2>1, MinimalSubset
  <1>3. \A b \in B : g[b] = SumFunctionOnSet(f, one(b)) /\ IsFiniteSet(one(b)) /\ one(b) \subseteq S
    BY FS_Subset
  <1>4. \A T \in SUBSET S : IsFiniteSet(T) /\ SumFunctionOnSet(f, T) \in Int
    <2> SUFFICES ASSUME NEW T \in SUBSET S PROVE IsFiniteSet(T) /\ SumFunctionOnSet(f, T) \in Int
      OBVIOUS
    <2>1. IsFiniteSet(T) /\ \A x \in T : f[x] \in Int
      BY FS_Subset
    <2> QED BY <2>1, SumOnSet
  <1>5. \A b \in B : g[b] \in Int
    <2> HIDE DEF one
    <2> QED BY <1>3, <1>4
  <1>6. m \in SUBSET B /\ IsFiniteSet(m)
    BY <1>0, FS_Subset
  <1>7. m # {}
    <2>1. SumFunctionOnSet(g, {}) = 0 /\ SumFunctionOnSet(f, {}) = 0
      BY <1>0, <1>5, SumOnSet
    <2>2. of({}) = {}
      OBVIOUS
    <2> QED BY <2>1, <2>2
  <1>8. PICK b \in m : TRUE
    BY <1>7
  <1> DEFINE u == m \ {b}
  <1>9. IsFiniteSet(u) /\ u \cup {b} = m /\ u \in SUBSET B /\ b \notin u /\ b \in B /\ u \subseteq m /\ u # m
    BY <1>6, <1>8, FS_Subset
  <1>10. SumFunctionOnSet(g, u) = SumFunctionOnSet(f, of(u))
    BY <1>2, <1>9
  <1> HIDE DEF u
  <1>11. SumFunctionOnSet(g, u \cup {b}) = SumFunctionOnSet(g, u) + g[b]
    <2>1. g[b] \in Int /\ \A c \in u : g[c] \in Int
      BY <1>5, <1>9
    <2>2. IsFiniteSet(u) /\ b \notin u
      BY <1>9
    <2> HIDE DEF bad, of, one
    <2> QED BY ONLY <2>1, <2>2, SumWith
  <1>12. of(m) = of(u) \cup one(b) /\ of(u) \cap one(b) = {} /\ of(u) \in SUBSET S /\ one(b) \in SUBSET S
    BY <1>9
  <1>13. SumFunctionOnSet(f, of(u) \cup one(b)) = SumFunctionOnSet(f, of(u)) + SumFunctionOnSet(f, one(b))
    <2> DEFINE X == of(u)
               Y == one(b)
    <2>1. X \cap Y = {} /\ IsFiniteSet(X) /\ IsFiniteSet(Y) /\ \A x \in X \cup Y : f[x] \in Int
      BY <1>4, <1>12
    <2> HIDE DEF X, Y
    <2>2. SumFunctionOnSet(f, X \cup Y) = SumFunctionOnSet(f, X) + SumFunctionOnSet(f, Y)
      BY <2>1, SumSplit
    <2> QED BY <2>2 DEF X, Y
  <1>14. SumFunctionOnSet(g, m) = SumFunctionOnSet(f, of(m))
    <2> HIDE DEF of, one
    <2> QED BY <1>3, <1>9, <1>10, <1>11, <1>12, <1>13
  <1> QED BY <1>2, <1>14

\* A sum of naturals is a natural.
THEOREM SumOfNaturals ==
  ASSUME NEW S, IsFiniteSet(S), NEW f, \A x \in S : f[x] \in Nat
  PROVE  SumFunctionOnSet(f, S) \in Nat
  <1> DEFINE bad == {s \in SUBSET S : SumFunctionOnSet(f, s) \notin Nat}
  <1>1. SUFFICES ASSUME bad # {} PROVE FALSE
    OBVIOUS
  <1>2. PICK m \in bad : \A s \in bad : s \subseteq m => s = m
    <2>1. bad \subseteq SUBSET S
      OBVIOUS
    <2> HIDE DEF bad
    <2> QED BY <1>1, <2>1, MinimalSubset
  <1>3. IsFiniteSet(m) /\ \A x \in S : f[x] \in Int
    BY FS_Subset
  <1>4. m # {}
    <2>1. SumFunctionOnSet(f, {}) = 0
      BY <1>3, SumOnSet
    <2> QED BY <2>1
  <1>5. PICK x \in m : TRUE
    BY <1>4
  <1> DEFINE u == m \ {x}
  <1>6. IsFiniteSet(u) /\ u \cup {x} = m /\ u \subseteq m /\ u # m /\ u \subseteq S /\ x \notin u
    BY <1>3, <1>5, FS_Subset
  <1>7. SumFunctionOnSet(f, u) \in Nat
    BY <1>2, <1>6
  <1>8. SumFunctionOnSet(f, m) = SumFunctionOnSet(f, u) + f[x]
    <2> HIDE DEF u
    <2> QED BY <1>3, <1>5, <1>6, SumWith
  <1> HIDE DEF u
  <1>9. f[x] \in Nat
    BY <1>5
  <1>10. SumFunctionOnSet(f, m) \in Nat
    BY <1>6, <1>7, <1>8, <1>9
  <1> QED BY <1>2, <1>10

\* The elements of a set may be renamed, one for one: the entries of a sequence
\* by the rows they stand for.
Renaming(h, f, S, g, T) ==
    /\ \A x, y \in S : h[x] = h[y] => x = y
    /\ \A x \in S : f[x] \in Int /\ g[h[x]] = f[x] /\ h[x] \in T
    /\ \A y \in T : \E x \in S : h[x] = y

THEOREM SumOverImage ==
  ASSUME NEW S, IsFiniteSet(S), NEW f, NEW g, NEW h, NEW U, Renaming(h, f, S, g, U)
  PROVE  IsFiniteSet(U) /\ SumFunctionOnSet(f, S) = SumFunctionOnSet(g, U)
  <1> DEFINE T(s) == {h[x] : x \in s}
             right(s) == IsFiniteSet(T(s)) /\ SumFunctionOnSet(f, s) = SumFunctionOnSet(g, T(s))
             bad == {s \in SUBSET S : ~right(s)}
  <1> USE DEF Renaming
  <1>1. SUFFICES ASSUME bad # {} PROVE FALSE
    <2>1. U = T(S)
      OBVIOUS
    <2>2. bad = {} => right(S)
      OBVIOUS
    <2> HIDE DEF bad, T
    <2> QED BY <2>1, <2>2
  <1>2. PICK m \in bad : \A s \in bad : s \subseteq m => s = m
    <2>1. bad \subseteq SUBSET S
      OBVIOUS
    <2> HIDE DEF bad
    <2> QED BY <1>1, <2>1, MinimalSubset
  <1>3. IsFiniteSet(m) /\ m \subseteq S
    BY FS_Subset
  <1>4. m # {}
    <2>1. IsFiniteSet({}) /\ T({}) = {}
      BY FS_EmptySet
    <2>2. SumFunctionOnSet(f, {}) = 0 /\ SumFunctionOnSet(g, {}) = 0
      BY <2>1, SumOnSet
    <2>3. right({})
      BY <2>1, <2>2
    <2> HIDE DEF right
    <2> QED BY <2>3
  <1>5. PICK x \in m : TRUE
    BY <1>4
  <1> DEFINE u == m \ {x}
  <1>6. IsFiniteSet(u) /\ u \cup {x} = m /\ u \subseteq m /\ u # m /\ u \subseteq S /\ x \notin u
    BY <1>3, <1>5, FS_Subset
  <1>7. right(u)
    <2> HIDE DEF u, right
    <2> QED BY <1>2, <1>6
  <1>8. h[x] \notin T(u) /\ T(m) = T(u) \cup {h[x]} /\ \A y \in T(u) : g[y] \in Int
    BY <1>3, <1>5
  <1>9. g[h[x]] = f[x] /\ f[x] \in Int
    BY <1>3, <1>5
  <1>10. IsFiniteSet(T(m))
    <2>1. IsFiniteSet(T(u) \cup {h[x]})
      BY <1>7, FS_AddElement
    <2> HIDE DEF T, u
    <2> QED BY <1>8, <2>1
  <1>11. SumFunctionOnSet(g, T(m)) = SumFunctionOnSet(g, T(u)) + g[h[x]]
    <2>1. IsFiniteSet(T(u))
      BY <1>7
    <2>2. SumFunctionOnSet(g, T(u) \cup {h[x]}) = SumFunctionOnSet(g, T(u)) + g[h[x]]
      <3> DEFINE X == T(u)
                 y == h[x]
      <3>1. IsFiniteSet(X) /\ y \notin X /\ g[y] \in Int /\ \A z \in X : g[z] \in Int
        BY <1>8, <1>9, <2>1
      <3> HIDE DEF X, y, Renaming
      <3>2. SumFunctionOnSet(g, X \cup {y}) = SumFunctionOnSet(g, X) + g[y]
        BY <3>1, SumWith
      <3> QED BY <3>2 DEF X, y
    <2> HIDE DEF T
    <2> QED BY <1>8, <2>2
  <1>12. SumFunctionOnSet(f, m) = SumFunctionOnSet(f, u) + f[x]
    <2>1. \A y \in u : f[y] \in Int
      BY <1>6
    <2> HIDE DEF u
    <2> QED BY <1>6, <1>9, <2>1, SumWith
  <1>13. right(m)
    <2>1. SumFunctionOnSet(f, u) = SumFunctionOnSet(g, T(u))
      BY <1>7
    <2> HIDE DEF T, u
    <2> QED BY <1>9, <1>10, <1>11, <1>12, <2>1
  <1> HIDE DEF right
  <1> QED BY <1>2, <1>13

-----------------------------------------------------------------------------
(***************************************************************************)
(* Recursion over the subsets of a finite set, from which c takes an       *)
(* element at a time: the folds of the community modules.                  *)
(***************************************************************************)
IsFold(h, S, c, F, base) ==
    h = [u \in SUBSET S |-> IF u = {} THEN base ELSE F[c[u]][h[u \ {c[u]}]]]

LEMMA FoldsAgree ==
  ASSUME NEW S, NEW T, NEW U, IsFiniteSet(U), U \subseteq S, U \subseteq T, NEW c, NEW F, NEW base,
         \A u \in SUBSET U : u # {} => c[u] \in u,
         NEW h, NEW k, IsFold(h, S, c, F, base), IsFold(k, T, c, F, base)
  PROVE  h[U] = k[U]
  <1> DEFINE bad == {u \in SUBSET U : h[u] # k[u]}
  <1>1. SUFFICES ASSUME bad # {} PROVE FALSE
    OBVIOUS
  <1>2. PICK m \in bad : \A u \in bad : u \subseteq m => u = m
    <2>1. bad \subseteq SUBSET U
      OBVIOUS
    <2> HIDE DEF bad
    <2> QED BY <1>1, <2>1, MinimalSubset
  <1>3. m \subseteq U /\ m \in SUBSET S /\ m \in SUBSET T
    OBVIOUS
  <1>4. m # {}
    <2>1. {} \in SUBSET S /\ {} \in SUBSET T
      OBVIOUS
    <2>2. h[{}] = base /\ k[{}] = base
      BY <2>1 DEF IsFold
    <2> QED BY <2>2
  <1> DEFINE v == m \ {c[m]}
  <1>5. v \subseteq m /\ v # m
    BY <1>3, <1>4
  <1>6. h[v] = k[v]
    BY <1>2, <1>3, <1>5
  <1>7. h[m] = F[c[m]][h[v]] /\ k[m] = F[c[m]][k[v]]
    BY <1>3, <1>4, ZenonT(40) DEF IsFold
  <1>8. h[m] # k[m]
    OBVIOUS
  <1> QED BY <1>6, <1>7, <1>8

\* c takes an element out of every subset of S.
Takes(c, S) == \A u \in SUBSET S : u # {} => c[u] \in u

LEMMA FoldExists ==
  \A S, c, V : IsFiniteSet(S) /\ Takes(c, S) =>
     \A base \in V : \A F \in [S -> [V -> V]] : \E h \in [SUBSET S -> V] : IsFold(h, S, c, F, base)
  <1> SUFFICES
        ASSUME NEW S, NEW c, NEW V, IsFiniteSet(S), Takes(c, S), NEW base \in V, NEW F \in [S -> [V -> V]]
        PROVE  \E h \in [SUBSET S -> V] : IsFold(h, S, c, F, base)
    OBVIOUS
  <1>0. \A u \in SUBSET S : u # {} => c[u] \in u
    BY DEF Takes
  <1> DEFINE ok(h, s) == h \in [SUBSET s -> V] /\ IsFold(h, s, c, F, base)
             bad == {s \in SUBSET S : ~\E h : ok(h, s)}
  <1>1. SUFFICES ASSUME bad # {} PROVE FALSE
    OBVIOUS
  <1>2. PICK m \in bad : \A s \in bad : s \subseteq m => s = m
    <2>1. bad \subseteq SUBSET S
      OBVIOUS
    <2> HIDE DEF bad
    <2> QED BY <1>1, <2>1, MinimalSubset
  <1> DEFINE part(s) == CHOOSE h : ok(h, s)
             rest(s) == s \ {c[s]}
             whole   == [s \in SUBSET m |-> IF s = {} THEN base ELSE F[c[s]][part(rest(s))[rest(s)]]]
  <1>3. m \in SUBSET S /\ \A s \in SUBSET m : s # m => ok(part(s), s)
    BY <1>2
  <1>4. \A s \in SUBSET m : s # {} => c[s] \in S /\ rest(s) \subseteq m /\ rest(s) # m
    BY <1>0, <1>3
  <1>5. whole \in [SUBSET m -> V]
    <2> SUFFICES ASSUME NEW s \in SUBSET m, s # {} PROVE F[c[s]][part(rest(s))[rest(s)]] \in V
      OBVIOUS
    <2>1. ok(part(rest(s)), rest(s)) /\ c[s] \in S
      BY <1>3, <1>4
    <2>2. part(rest(s))[rest(s)] \in V
      <3> HIDE DEF part, rest
      <3> QED BY <2>1
    <2> HIDE DEF part, rest
    <2> QED BY <2>1, <2>2
  <1>6. ASSUME NEW s \in SUBSET m, s # {} PROVE whole[rest(s)] = part(rest(s))[rest(s)]
    <2> DEFINE u == rest(s)
    <2>1. u \subseteq m /\ u # m
      BY <1>4, <1>6
    <2>2. ok(part(u), u)
      BY <1>3, <2>1
    <2>3. CASE u = {}
      <3>1. part(u)[u] = base
        <4> HIDE DEF part, u
        <4> QED BY <2>2, <2>3 DEF IsFold
      <3> QED BY <2>3, <3>1
    <2>4. CASE u # {}
      <3> DEFINE v == rest(u)
      <3>1. v \subseteq u /\ v # m /\ v \subseteq m /\ IsFiniteSet(v) /\ v \subseteq S
        BY <1>3, <2>1, FS_Subset
      <3>2. ok(part(v), v)
        BY <1>3, <3>1
      <3>3. part(u)[v] = part(v)[v]
        <4> HIDE DEF part, u, v
        <4>1. \A w \in SUBSET v : w # {} => c[w] \in w
          BY <1>0, <3>1
        <4> QED BY <2>2, <3>1, <3>2, <4>1, FoldsAgree
      <3>4. part(u)[u] = F[c[u]][part(u)[v]]
        <4> HIDE DEF part, u
        <4> QED BY <2>2, <2>4 DEF IsFold
      <3>5. whole[u] = F[c[u]][part(v)[v]]
        BY <2>1, <2>4
      <3> HIDE DEF whole, part, u, v
      <3>6. whole[u] = part(u)[u]
        BY <3>3, <3>4, <3>5
      <3> QED BY <3>6 DEF u
    <2> QED BY <2>3, <2>4
  <1>7. IsFold(whole, m, c, F, base)
    <2> DEFINE right == [s \in SUBSET m |-> IF s = {} THEN base ELSE F[c[s]][whole[s \ {c[s]}]]]
    <2>1. ASSUME NEW s \in SUBSET m PROVE whole[s] = right[s]
      <3>1. CASE s = {}
        BY <3>1
      <3>2. CASE s # {}
        <4>1. whole[s] = F[c[s]][part(rest(s))[rest(s)]]
          BY <3>2
        <4>2. right[s] = F[c[s]][whole[rest(s)]]
          BY <3>2
        <4>3. whole[rest(s)] = part(rest(s))[rest(s)]
          BY <1>6, <3>2
        <4> HIDE DEF whole, right, part, rest
        <4> QED BY <4>1, <4>2, <4>3
      <3> QED BY <3>1, <3>2
    <2>2. whole = right
      <3> HIDE DEF part
      <3> QED BY <2>1
    <2> QED BY <2>2 DEF IsFold
  <1>8. ok(whole, m)
    BY <1>5, <1>7
  <1> HIDE DEF ok, whole
  <1> QED BY <1>2, <1>8

-----------------------------------------------------------------------------
(***************************************************************************)
(* Recursion over the prefixes of a sequence.                              *)
(***************************************************************************)
\* h starts from base, and every value comes from the last one by F.
Recursion(h, N, base, F) == h[0] = base /\ \A n \in 1 .. N : h[n] = F[n][h[n - 1]]

\* A step function from every value to the next defines a function.
LEMMA RecursionExists ==
  \A N \in Nat : \A V : \A base \in V : \A F \in [1 .. N -> [V -> V]] :
      \E h \in [0 .. N -> V] : Recursion(h, N, base, F)
  <1> SUFFICES
        ASSUME NEW N \in Nat, NEW V, NEW base \in V, NEW F \in [1 .. N -> [V -> V]]
        PROVE  \E h \in [0 .. N -> V] : Recursion(h, N, base, F)
    OBVIOUS
  <1> DEFINE good(k) == \E h \in [0 .. k -> V] : Recursion(h, k, base, F)
             bad == {k \in 0 .. N : ~good(k)}
  <1>1. CASE bad = {}
    <2>1. N \in 0 .. N
      OBVIOUS
    <2>2. good(N)
      <3> HIDE DEF good
      <3> QED BY <1>1, <2>1
    <2> QED BY <2>2
  <1>2. CASE bad # {}
    <2>1. PICK m \in bad : \A k \in bad : m <= k
      <3>1. bad \subseteq Nat
        OBVIOUS
      <3> HIDE DEF bad
      <3> QED BY <1>2, <3>1, SmallestMember
    <2>2. m \in 0 .. N /\ ~good(m)
      <3> HIDE DEF good
      <3> QED BY <2>1
    <2>3. good(0)
      <3> DEFINE h == [n \in 0 .. 0 |-> base]
      <3>1. h \in [0 .. 0 -> V] /\ Recursion(h, 0, base, F)
        BY DEF Recursion
      <3> QED BY <3>1
    <2>4. m # 0
      <3> HIDE DEF good
      <3> QED BY <2>2, <2>3
    <2> DEFINE l == m - 1
    <2>5. l \in 0 .. N /\ l \in 0 .. m /\ m \in 1 .. N /\ l + 1 = m
      BY <2>2, <2>4
    <2>6. good(l)
      <3>1. l \notin bad
        <4> HIDE DEF bad
        <4> QED BY <2>1, <2>5, <2>2
      <3> HIDE DEF good, l
      <3> QED BY <2>5, <3>1
    <2>7. PICK h \in [0 .. l -> V] : h[0] = base /\ \A n \in 1 .. l : h[n] = F[n][h[n - 1]]
      BY <2>6 DEF Recursion
    <2> DEFINE g == [n \in 0 .. m |-> IF n = m THEN F[m][h[l]] ELSE h[n]]
    <2> HIDE DEF l
    <2>8. F[m][h[l]] \in V
      <3>1. h[l] \in V
        BY <2>5, <2>7
      <3>2. F[m] \in [V -> V]
        BY <2>5
      <3> QED BY <3>1, <3>2
    <2>9. g \in [0 .. m -> V]
      BY <2>5, <2>7, <2>8
    <2>10. g[0] = base
      BY <2>5, <2>7
    <2>11. ASSUME NEW n \in 1 .. m PROVE g[n] = F[n][g[n - 1]]
      <3>1. CASE n = m
        <4>1. n - 1 = l /\ l # m /\ m \in 0 .. m
          BY <2>5, <3>1
        <4>2. g[l] = h[l] /\ g[m] = F[m][h[l]]
          BY <2>5, <4>1
        <4> QED BY <3>1, <4>1, <4>2
      <3>2. CASE n # m
        <4>1. n \in 1 .. l /\ n \in 0 .. m /\ n - 1 \in 0 .. m /\ n - 1 # m
          BY <2>5, <3>2
        <4>2. g[n] = h[n] /\ g[n - 1] = h[n - 1]
          BY <3>2, <4>1
        <4>3. h[n] = F[n][h[n - 1]]
          BY <2>7, <4>1
        <4> QED BY <4>2, <4>3
      <3> QED BY <3>1, <3>2
    <2>12. good(m)
      <3> HIDE DEF g
      <3> QED BY <2>9, <2>10, <2>11 DEF Recursion
    <2> HIDE DEF good
    <2> QED BY <2>2, <2>12
  <1> QED BY <1>1, <1>2

LEMMA AppendedSet ==
  ASSUME NEW S, NEW s \in Seq(S), NEW x \in S
  PROVE  ToSet(Append(s, x)) = ToSet(s) \cup {x}
  <1> DEFINE t == Append(s, x)
  <1>1. /\ Len(s) \in Nat /\ DOMAIN s = 1 .. Len(s) /\ DOMAIN t = 1 .. Len(s) + 1
        /\ t[Len(s) + 1] = x /\ \A i \in 1 .. Len(s) : t[i] = s[i]
    BY AppendProperties
  <1>2. 1 .. Len(s) + 1 = (1 .. Len(s)) \cup {Len(s) + 1}
    BY <1>1
  <1> HIDE DEF t
  <1> QED BY <1>1, <1>2 DEF ToSet, t

\* A sequence as the set of its elements.
LEMMA ElementsOf ==
  ASSUME NEW S, NEW s \in Seq(S)
  PROVE  ToSet(s) \subseteq S /\ \A T : ToSet(s) \subseteq T => s \in Seq(T)
  <1>1. Len(s) \in Nat /\ s \in [1 .. Len(s) -> S] /\ ToSet(s) = {s[i] : i \in 1 .. Len(s)}
    BY DEF ToSet
  <1> QED BY <1>1

LEMMA HeadAndTail ==
  ASSUME NEW S, NEW s \in Seq(S), s # << >>
  PROVE  /\ Head(s) \in S /\ Tail(s) \in Seq(S)
         /\ ToSet(s) = {Head(s)} \cup ToSet(Tail(s))
  <1> DEFINE t == Tail(s)
             n == Len(s)
  <1>1. /\ Head(s) \in S /\ t \in Seq(S) /\ n \in Nat \ {0} /\ DOMAIN s = 1 .. n
        /\ DOMAIN t = 1 .. n - 1 /\ Head(s) = s[1] /\ \A i \in 1 .. n - 1 : t[i] = s[i + 1]
    BY HeadTailProperties
  <1> HIDE DEF t, n
  <1>2. ASSUME NEW i \in 1 .. n PROVE s[i] = s[1] \/ \E j \in 1 .. n - 1 : t[j] = s[i]
    <2>1. CASE i = 1
      BY <2>1
    <2>2. CASE i # 1
      <3>1. i - 1 \in 1 .. n - 1 /\ (i - 1) + 1 = i
        BY <1>1, <2>2
      <3> QED BY <1>1, <3>1
    <2> QED BY <2>1, <2>2
  <1>3. \A j \in 1 .. n - 1 : j + 1 \in 1 .. n
    BY <1>1
  <1>4. 1 \in 1 .. n
    BY <1>1
  <1>5. ToSet(s) = {s[i] : i \in 1 .. n} /\ ToSet(t) = {t[j] : j \in 1 .. n - 1}
    BY <1>1 DEF ToSet
  <1>6. {s[i] : i \in 1 .. n} = {s[1]} \cup {t[j] : j \in 1 .. n - 1}
    <2>1. \A j \in 1 .. n - 1 : t[j] = s[j + 1] /\ j + 1 \in 1 .. n
      BY <1>1, <1>3
    <2> QED BY <1>2, <1>4, <2>1
  <1> QED BY <1>1, <1>5, <1>6 DEF t

\* The filter takes the sequence entry by entry.
LEMMA KeepUnfold ==
  ASSUME NEW S, NEW s \in Seq(S), NEW A
  PROVE  \E kept :
            /\ Keep(s, A) = kept[Len(s)]
            /\ kept[0] = << >>
            /\ \A n \in 1 .. Len(s) :
                  kept[n] = IF s[n] \in A THEN Append(kept[n - 1], s[n]) ELSE kept[n - 1]
  <1> DEFINE N == Len(s)
             V == Seq(S \cap A)
             F == [n \in 1 .. N |-> [v \in V |-> IF s[n] \in A THEN Append(v, s[n]) ELSE v]]
             Q(h) == h = [n \in 0 .. N |-> IF n = 0 THEN << >>
                                          ELSE IF s[n] \in A THEN Append(h[n - 1], s[n]) ELSE h[n - 1]]
             kept == CHOOSE h : Q(h)
  <1>1. N \in Nat /\ \A n \in 1 .. N : s[n] \in S
    OBVIOUS
  <1>2. Keep(s, A) = kept[N]
    BY DEF Keep
  <1>3. \E h : Q(h)
    <2>1. << >> \in V /\ F \in [1 .. N -> [V -> V]]
      <3>1. ASSUME NEW n \in 1 .. N, NEW v \in V PROVE (IF s[n] \in A THEN Append(v, s[n]) ELSE v) \in V
        BY <1>1
      <3> QED BY <3>1
    <2>2. PICK h \in [0 .. N -> V] : h[0] = << >> /\ \A n \in 1 .. N : h[n] = F[n][h[n - 1]]
      <3>1. N \in Nat
        BY <1>1
      <3> HIDE DEF F, V, N
      <3>2. \E h \in [0 .. N -> V] : Recursion(h, N, << >>, F)
        BY <2>1, <3>1, RecursionExists
      <3> QED BY <3>2 DEF Recursion
    <2>3. ASSUME NEW n \in 0 .. N
          PROVE  h[n] = IF n = 0 THEN << >>
                        ELSE IF s[n] \in A THEN Append(h[n - 1], s[n]) ELSE h[n - 1]
      <3>1. CASE n = 0
        BY <2>2, <3>1
      <3>2. CASE n # 0
        <4>1. n \in 1 .. N /\ n - 1 \in 0 .. N
          BY <1>1, <3>2
        <4>2. h[n - 1] \in V /\ h[n] = F[n][h[n - 1]]
          BY <2>2, <4>1
        <4> QED BY <3>2, <4>1, <4>2
      <3> QED BY <3>1, <3>2
    <2>4. Q(h)
      <3> HIDE DEF V, N
      <3> QED BY <2>2, <2>3
    <2> QED BY <2>4
  <1>4. Q(kept)
    <2> HIDE DEF Q
    <2> QED BY <1>3
  <1>5. /\ kept[0] = << >>
        /\ \A n \in 1 .. N : kept[n] = IF s[n] \in A THEN Append(kept[n - 1], s[n]) ELSE kept[n - 1]
    <2>1. kept = [n \in 0 .. N |-> IF n = 0 THEN << >>
                                    ELSE IF s[n] \in A THEN Append(kept[n - 1], s[n])
                                    ELSE kept[n - 1]]
      <3> HIDE DEF kept
      <3> QED BY <1>4
    <2>2. \A n \in 1 .. N : n \in 0 .. N /\ n # 0
      BY <1>1
    <2>3. 0 \in 0 .. N
      BY <1>1
    <2> HIDE DEF kept, N
    <2>4. kept[0] = << >>
      BY <2>1, <2>3
    <2>5. ASSUME NEW n \in 1 .. N
          PROVE  kept[n] = IF s[n] \in A THEN Append(kept[n - 1], s[n]) ELSE kept[n - 1]
      BY <2>1, <2>2
    <2> QED BY <2>4, <2>5
  <1> HIDE DEF kept, Q
  <1> QED BY <1>2, <1>5

\* The filter: a sequence of the members of A that are in s, and of no others.
THEOREM KeepMembers ==
  ASSUME NEW S, NEW s \in Seq(S), NEW A
  PROVE  Keep(s, A) \in Seq(S \cap A) /\ ToSet(Keep(s, A)) = ToSet(s) \cap A
  <1> DEFINE N == Len(s)
             V == Seq(S \cap A)
  <1>1. N \in Nat /\ \A n \in 1 .. N : s[n] \in S
    OBVIOUS
  <1>0. PICK kept :
           /\ Keep(s, A) = kept[N]
           /\ kept[0] = << >>
           /\ \A n \in 1 .. N :
                 kept[n] = IF s[n] \in A THEN Append(kept[n - 1], s[n]) ELSE kept[n - 1]
    BY KeepUnfold
  <1>2. Keep(s, A) = kept[N]
    BY <1>0
  <1>5. /\ kept[0] = << >>
        /\ \A n \in 1 .. N : kept[n] = IF s[n] \in A THEN Append(kept[n - 1], s[n]) ELSE kept[n - 1]
    BY <1>0
  <1> DEFINE pre(n) == {s[i] : i \in 1 .. n}
             bad == {n \in 0 .. N : ~(kept[n] \in V /\ ToSet(kept[n]) = pre(n) \cap A)}
  <1>6. bad = {}
    <2> SUFFICES ASSUME bad # {} PROVE FALSE
      OBVIOUS
    <2>1. PICK m \in bad : \A k \in bad : m <= k
      <3>1. bad \subseteq Nat
        BY <1>1
      <3> HIDE DEF bad
      <3> QED BY <3>1, SmallestMember
    <2>2. m # 0
      <3>1. ToSet(<< >>) = {} /\ << >> \in V /\ pre(0) = {}
        BY DEF ToSet
      <3> QED BY <1>5, <3>1
    <2> DEFINE l == m - 1
    <2>3. m \in 1 .. N /\ l \in 0 .. N /\ l \notin bad
      <3>1. m \in 0 .. N
        OBVIOUS
      <3> HIDE DEF bad
      <3> QED BY <1>1, <2>1, <2>2, <3>1
    <2>4. kept[l] \in V /\ ToSet(kept[l]) = pre(l) \cap A
      BY <2>3
    <2>5. pre(m) = pre(l) \cup {s[m]}
      <3>1. 1 .. m = (1 .. l) \cup {m}
        BY <2>3
      <3> QED BY <3>1
    <2>6. CASE s[m] \in A
      <3>1. kept[m] = Append(kept[l], s[m])
        BY <1>5, <2>3, <2>6
      <3>2. kept[m] \in V
        BY <1>1, <2>3, <2>4, <2>6, <3>1
      <3>3. ToSet(kept[m]) = ToSet(kept[l]) \cup {s[m]}
        <4> HIDE DEF V, l
        <4>1. kept[l] \in Seq(S \cap A) /\ s[m] \in S \cap A
          BY <1>1, <2>3, <2>4, <2>6 DEF V
        <4> QED BY <3>1, <4>1, AppendedSet
      <3> QED BY <2>1, <2>4, <2>5, <2>6, <3>2, <3>3
    <2>7. CASE s[m] \notin A
      BY <1>5, <2>1, <2>3, <2>4, <2>5, <2>7
    <2> QED BY <2>6, <2>7
  <1>7. kept[N] \in V /\ ToSet(kept[N]) = pre(N) \cap A
    <2>1. N \in 0 .. N
      BY <1>1
    <2>2. N \notin bad
      BY <1>6
    <2> HIDE DEF V, N, pre
    <2> QED BY <2>1, <2>2
  <1>8. ToSet(s) = pre(N)
    BY DEF ToSet
  <1> QED BY <1>2, <1>7, <1>8

\* The entries of v, the places of s they come from, in the order of s, and
\* all the places where s has a member of A.
Places(v, s, A, h) ==
    /\ h \in [1 .. Len(v) -> 1 .. Len(s)]
    /\ \A k \in 1 .. Len(v) : v[k] = s[h[k]]
    /\ \A j, k \in 1 .. Len(v) : j < k => h[j] < h[k]
    /\ {h[k] : k \in 1 .. Len(v)} = {p \in 1 .. Len(s) : s[p] \in A}

\* The filter keeps the order, and every member of A as often as it occurs.
THEOREM KeepPlaces ==
  ASSUME NEW S, NEW s \in Seq(S), NEW A
  PROVE  \E h : Places(Keep(s, A), s, A, h)
  <1> DEFINE N == Len(s)
             V == Seq(S \cap A)
             places(v, n, h) ==
                /\ h \in [1 .. Len(v) -> 1 .. n]
                /\ \A k \in 1 .. Len(v) : v[k] = s[h[k]]
                /\ \A j, k \in 1 .. Len(v) : j < k => h[j] < h[k]
                /\ {h[k] : k \in 1 .. Len(v)} = {p \in 1 .. n : s[p] \in A}
  <1>1. N \in Nat /\ \A n \in 1 .. N : s[n] \in S
    OBVIOUS
  <1>2. PICK kept :
           /\ Keep(s, A) = kept[N]
           /\ kept[0] = << >>
           /\ \A n \in 1 .. N :
                 kept[n] = IF s[n] \in A THEN Append(kept[n - 1], s[n]) ELSE kept[n - 1]
    BY KeepUnfold
  <1> DEFINE bad == {n \in 0 .. N : ~(kept[n] \in V /\ \E h : places(kept[n], n, h))}
  <1>3. bad = {}
    <2> SUFFICES ASSUME bad # {} PROVE FALSE
      OBVIOUS
    <2>1. PICK m \in bad : \A k \in bad : m <= k
      <3>1. bad \subseteq Nat
        BY <1>1
      <3> HIDE DEF bad
      <3> QED BY <3>1, SmallestMember
    <2>2. m # 0
      <3>1. << >> \in V /\ places(<< >>, 0, << >>)
        OBVIOUS
      <3> HIDE DEF places, V
      <3> QED BY <1>2, <3>1
    <2> DEFINE l == m - 1
    <2>3. m \in 1 .. N /\ l \in 0 .. N /\ l \notin bad
      <3>1. m \in 0 .. N
        OBVIOUS
      <3> HIDE DEF bad
      <3> QED BY <1>1, <2>1, <2>2, <3>1
    <2>4. PICK h : kept[l] \in V /\ places(kept[l], l, h)
      <3> HIDE DEF places
      <3> QED BY <2>3
    <2>5. CASE s[m] \in A
      <3> DEFINE v == Append(kept[l], s[m])
                 L == Len(kept[l])
                 g == [k \in 1 .. L + 1 |-> IF k <= L THEN h[k] ELSE m]
      <3>1. kept[m] = v /\ s[m] \in S \cap A
        BY <1>1, <1>2, <2>3, <2>5
      <3>2. v \in V /\ Len(v) = L + 1 /\ v[L + 1] = s[m] /\ \A k \in 1 .. L : v[k] = kept[l][k]
        BY <2>4, <3>1, AppendProperties
      <3>3. L \in Nat
        BY <2>4
      <3>4. /\ \A k \in 1 .. L : g[k] = h[k] /\ h[k] \in 1 .. l /\ v[k] = s[h[k]]
            /\ g[L + 1] = m
        BY <2>4, <3>2, <3>3
      <3> HIDE DEF g, v, L
      <3>5. g \in [1 .. L + 1 -> 1 .. m]
        <4>1. ASSUME NEW k \in 1 .. L + 1 PROVE g[k] \in 1 .. m
          <5>1. m \in Nat /\ 1 .. l \subseteq 1 .. m /\ m \in 1 .. m
            BY <2>3
          <5>2. k \in 1 .. L \/ k = L + 1
            BY <3>3
          <5> HIDE DEF l
          <5> QED BY <3>4, <5>1, <5>2
        <4>2. g = [k \in 1 .. L + 1 |-> g[k]]
          BY DEF g
        <4> QED BY <4>1, <4>2
      <3>6. \A k \in 1 .. L + 1 : v[k] = s[g[k]]
        BY <3>2, <3>3, <3>4
      <3>7. ASSUME NEW j \in 1 .. L + 1, NEW k \in 1 .. L + 1, j < k PROVE g[j] < g[k]
        <4>1. j \in 1 .. L
          BY <3>3, <3>7
        <4>2. CASE k \in 1 .. L
          BY <2>4, <3>4, <3>7, <4>1, <4>2 DEF L
        <4>3. CASE k = L + 1
          BY <2>3, <3>4, <4>1, <4>3
        <4> QED BY <3>3, <4>2, <4>3
      <3>8. {g[k] : k \in 1 .. L + 1} = {p \in 1 .. m : s[p] \in A}
        <4>1. 1 .. L + 1 = (1 .. L) \cup {L + 1} /\ 1 .. m = (1 .. l) \cup {m}
          BY <2>3, <3>3
        <4>2. {g[k] : k \in 1 .. L + 1} = {h[k] : k \in 1 .. L} \cup {m}
          <5> DEFINE J == 1 .. L
                     K == 1 .. L + 1
                     n == L + 1
          <5>1. K = J \cup {n} /\ g[n] = m /\ \A k \in J : g[k] = h[k]
            BY <3>4, <4>1
          <5> HIDE DEF J, K, n
          <5>2. {g[k] : k \in K} = {h[k] : k \in J} \cup {m}
            BY <5>1
          <5> QED BY <5>2 DEF J, K
        <4>3. {h[k] : k \in 1 .. L} = {p \in 1 .. l : s[p] \in A}
          BY <2>4 DEF L
        <4> QED BY <2>5, <4>1, <4>2, <4>3
      <3>9. places(kept[m], m, g)
        BY <3>1, <3>2, <3>5, <3>6, <3>7, <3>8
      <3> HIDE DEF places, V
      <3> QED BY <2>1, <3>1, <3>2, <3>9
    <2>6. CASE s[m] \notin A
      <3>1. kept[m] = kept[l] /\ kept[l] \in V
        BY <1>2, <2>3, <2>4, <2>6
      <3>2. 1 .. m = (1 .. l) \cup {m}
        BY <2>3
      <3>3. places(kept[l], m, h)
        BY <2>4, <2>6, <3>2
      <3> HIDE DEF places, V
      <3> QED BY <2>1, <3>1, <3>3
    <2> QED BY <2>5, <2>6
  <1>4. \E h : places(kept[N], N, h)
    <2>1. N \in 0 .. N
      BY <1>1
    <2>2. N \notin bad
      BY <1>3
    <2> HIDE DEF places, V, N
    <2> QED BY <2>1, <2>2
  <1>5. PICK h : places(kept[N], N, h)
    <2> HIDE DEF places, N
    <2> QED BY <1>4
  <1>6. Places(kept[N], s, A, h)
    BY <1>5 DEF Places
  <1> HIDE DEF N
  <1> QED BY <1>2, <1>6
-----------------------------------------------------------------------------
(***************************************************************************)
(* The order rows are read in.                                             *)
(***************************************************************************)
\* Rows that can be ordered.
Dated(t, ids) == ids \subseteq Int /\ \A i \in ids : t[i].at \in Int

\* The repository's order is a strict total order, by time first.
LEMMA PrecedesOrder ==
  ASSUME NEW t, NEW ids, Dated(t, ids)
  PROVE  \A i, j, k \in ids :
            /\ ~(Precedes(t, i, j) /\ Precedes(t, j, i))
            /\ ~Precedes(t, i, i)
            /\ i # j => Precedes(t, i, j) \/ Precedes(t, j, i)
            /\ Precedes(t, i, j) /\ Precedes(t, j, k) => Precedes(t, i, k)
            /\ Precedes(t, i, j) => t[i].at <= t[j].at
  <1>1. \A x, y : Earlier(x, y) <=> x.at < y.at \/ (x.at = y.at /\ SideRank(x) < SideRank(y))
    BY DEF Earlier
  <1>2. \A x : SideRank(x) \in Nat
    BY DEF SideRank
  <1>3. \A i \in ids : i \in Int /\ t[i].at \in Int /\ SideRank(t[i]) \in Nat
    BY <1>2 DEF Dated
  <1> QED BY <1>1, <1>3 DEF Precedes

\* The rows up to row i.
UpTo(t, ids, i) == {j \in ids : j = i \/ Precedes(t, j, i)}

LEMMA RankFacts ==
  ASSUME NEW t, NEW ids, IsFiniteSet(ids), Dated(t, ids)
  PROVE  LET rank(i) == Cardinality(UpTo(t, ids, i))
         IN  /\ \A i \in ids : rank(i) \in 1 .. Cardinality(ids)
             /\ \A i, j \in ids : Precedes(t, i, j) => rank(i) < rank(j)
             /\ \A p \in 1 .. Cardinality(ids) : \E i \in ids : rank(i) = p
  <1> DEFINE rank(i) == Cardinality(UpTo(t, ids, i))
             n       == Cardinality(ids)
  <1>1. n \in Nat
    BY FS_CardinalityType
  <1>2. \A i \in ids : UpTo(t, ids, i) \in SUBSET ids /\ i \in UpTo(t, ids, i)
    BY DEF UpTo
  <1>3. \A i \in ids : IsFiniteSet(UpTo(t, ids, i)) /\ rank(i) \in Nat /\ rank(i) <= n
    BY <1>1, <1>2, FS_Subset, FS_CardinalityType
  <1>4. ASSUME NEW i \in ids PROVE rank(i) \in 1 .. n
    <2>1. rank(i) # 0
      BY <1>2, <1>3, FS_EmptySet
    <2> QED BY <1>1, <1>3, <2>1
  <1>5. ASSUME NEW i \in ids, NEW j \in ids, Precedes(t, i, j) PROVE rank(i) < rank(j)
    <2>1. UpTo(t, ids, i) \in SUBSET UpTo(t, ids, j) /\ j \notin UpTo(t, ids, i)
      BY <1>1, <1>5, PrecedesOrder DEF UpTo
    <2>2. rank(i) <= rank(j) /\ rank(i) # rank(j)
      BY <1>2, <1>3, <2>1, FS_Subset
    <2> HIDE DEF rank
    <2> QED BY <1>3, <2>2
  <1>6. ASSUME NEW p \in 1 .. n PROVE \E i \in ids : rank(i) = p
    <2> DEFINE f == [i \in ids |-> rank(i)]
    <2>1. \A i, j \in ids : f[i] = f[j] => i = j
      <3>1. \A i, j \in ids : i # j => rank(i) < rank(j) \/ rank(j) < rank(i)
        BY <1>1, <1>5, PrecedesOrder
      <3>2. \A i \in ids : f[i] = rank(i) /\ rank(i) \in Nat
        BY <1>3
      <3> HIDE DEF f, rank
      <3> QED BY <3>1, <3>2
    <2>2. f \in [ids -> 1 .. n]
      <3> HIDE DEF rank
      <3> QED BY <1>4
    <2>3. f \in Injection(ids, 1 .. n)
      <3> HIDE DEF f, n
      <3> QED BY <2>1, <2>2 DEF Injection, IsInjective
    <2>4. IsFiniteSet(1 .. n) /\ Cardinality(1 .. n) = n
      BY <1>1, FS_Interval
    <2>5. f \in Surjection(ids, 1 .. n)
      <3> HIDE DEF f
      <3>1. Cardinality(ids) = Cardinality(1 .. n)
        BY <2>4
      <3> QED BY <2>3, <2>4, <3>1, FS_Injection
    <2>6. \E i \in ids : f[i] = p
      <3> HIDE DEF f, n
      <3> QED BY <2>5 DEF Surjection
    <2> HIDE DEF rank
    <2> QED BY <2>6
  <1> QED BY <1>4, <1>5, <1>6

\* The rows in order: each of them once, none before one that precedes it.
LEMMA OrderedPlaces ==
  ASSUME NEW t, NEW ids, IsFiniteSet(ids), Dated(t, ids)
  PROVE  LET n == Cardinality(ids)
             c == InOrder(t, ids)
         IN  /\ n \in Nat /\ DOMAIN c = 1 .. n /\ c = [p \in 1 .. n |-> c[p]]
             /\ \E h \in [1 .. n -> ids] :
                   /\ \A p \in 1 .. n : c[p] = t[h[p]]
                   /\ \A p, q \in 1 .. n : p < q => Precedes(t, h[p], h[q])
                   /\ {h[p] : p \in 1 .. n} = ids
  <1> DEFINE rank(i) == Cardinality(UpTo(t, ids, i))
             n       == Cardinality(ids)
             c       == InOrder(t, ids)
             h       == [p \in 1 .. n |-> CHOOSE i \in ids : rank(i) = p]
  <1>1. n \in Nat
    BY FS_CardinalityType
  <1>2. /\ \A i \in ids : rank(i) \in 1 .. n
        /\ \A i, j \in ids : Precedes(t, i, j) => rank(i) < rank(j)
        /\ \A p \in 1 .. n : \E i \in ids : rank(i) = p
    BY RankFacts
  <1>3. ASSUME NEW p \in 1 .. n PROVE h[p] \in ids /\ rank(h[p]) = p
    <2> HIDE DEF rank
    <2> QED BY <1>2
  <1>4. c = [p \in 1 .. n |-> t[h[p]]]
    BY DEF InOrder, UpTo
  <1>5. ASSUME NEW p \in 1 .. n, NEW q \in 1 .. n, p < q PROVE Precedes(t, h[p], h[q])
    <2>1. h[p] \in ids /\ h[q] \in ids /\ rank(h[p]) = p /\ rank(h[q]) = q
      BY <1>3
    <2>2. \A i, j \in ids : ~(rank(j) < rank(i)) /\ i # j => Precedes(t, i, j)
      BY <1>1, <1>2, PrecedesOrder
    <2> HIDE DEF rank, h
    <2> QED BY <1>5, <2>1, <2>2
  <1>6. ASSUME NEW i \in ids PROVE \E p \in 1 .. n : h[p] = i
    <2>1. rank(i) \in 1 .. n
      BY <1>2
    <2>2. h[rank(i)] \in ids /\ rank(h[rank(i)]) = rank(i)
      BY <1>3, <2>1
    <2>3. \A k, j \in ids : rank(k) = rank(j) => k = j
      <3>1. \A k, j \in ids : k # j => rank(k) < rank(j) \/ rank(j) < rank(k)
        BY <1>1, <1>2, PrecedesOrder
      <3>2. \A k \in ids : rank(k) \in Nat
        BY <1>1, <1>2
      <3> HIDE DEF rank
      <3> QED BY <3>1, <3>2
    <2> HIDE DEF rank, h
    <2> QED BY <2>1, <2>2, <2>3
  <1> HIDE DEF h, rank, c, n
  <1>7. h \in [1 .. n -> ids]
    <2>1. h = [p \in 1 .. n |-> h[p]]
      BY DEF h
    <2> QED BY <1>3, <2>1
  <1>8. DOMAIN c = 1 .. n /\ c = [p \in 1 .. n |-> c[p]] /\ \A p \in 1 .. n : c[p] = t[h[p]]
    BY <1>4
  <1>9. {h[p] : p \in 1 .. n} = ids
    BY <1>3, <1>6
  <1> QED BY <1>1, <1>5, <1>7, <1>8, <1>9 DEF c, n

-----------------------------------------------------------------------------
(***************************************************************************)
(* FoldLeft.  The community module defines it on the sets of places of a   *)
(* sequence, from which the largest is taken first; its operator argument  *)
(* stands here as a function G of a value and an entry.                    *)
(***************************************************************************)
IsSeqFold(h, d, G, base) ==
    h = [w \in SUBSET DOMAIN d |->
            IF w = {} THEN base ELSE G[<<h[w \ {Max(w)}], d[Max(w)]>>]]

\* Both agree on {}, and on a set whenever they do without the element taken.
AgreeByStep(h, k, S, c) ==
    /\ h[{}] = k[{}]
    /\ \A w \in SUBSET S : w # {} => c[w] \in w
    /\ \A w \in SUBSET S : w # {} /\ h[w \ {c[w]}] = k[w \ {c[w]}] => h[w] = k[w]

LEMMA SameFold ==
  ASSUME NEW S, IsFiniteSet(S), NEW c, NEW h, NEW k, AgreeByStep(h, k, S, c)
  PROVE  h[S] = k[S]
  <1> USE DEF AgreeByStep
  <1> DEFINE bad == {w \in SUBSET S : h[w] # k[w]}
  <1>1. SUFFICES ASSUME bad # {} PROVE FALSE
    OBVIOUS
  <1>2. PICK m \in bad : \A w \in bad : w \subseteq m => w = m
    <2>1. bad \subseteq SUBSET S
      OBVIOUS
    <2> HIDE DEF bad
    <2> QED BY <1>1, <2>1, MinimalSubset
  <1>3. m \in SUBSET S /\ h[m] # k[m] /\ m # {}
    OBVIOUS
  <1> DEFINE v == m \ {c[m]}
  <1>4. v \in SUBSET S /\ v \subseteq m /\ v # m
    BY <1>3
  <1>5. h[v] = k[v]
    BY <1>2, <1>4
  <1> QED BY <1>3, <1>5

LEMMA LargestPlace ==
  ASSUME NEW X, NEW d \in Seq(X)
  PROVE  /\ IsFiniteSet(DOMAIN d)
         /\ \A w \in SUBSET DOMAIN d : w # {} => Max(w) \in w
  <1>1. DOMAIN d = 1 .. Len(d) /\ Len(d) \in Nat
    OBVIOUS
  <1>2. IsFiniteSet(1 .. Len(d))
    BY <1>1, FS_Interval
  <1> QED BY <1>1, <1>2, LargestMember

\* The largest place taken out of the places of a sequence is its last one.
LEMMA LastPlace ==
  ASSUME NEW X, NEW s \in Seq(X), NEW x \in X
  PROVE  LET t == Append(s, x)
         IN  /\ t \in Seq(X) /\ DOMAIN t # {} /\ DOMAIN t \ {Max(DOMAIN t)} = DOMAIN s
             /\ t[Max(DOMAIN t)] = x /\ \A p \in DOMAIN s : t[p] = s[p]
             /\ DOMAIN s \in SUBSET DOMAIN t
  <1> DEFINE t == Append(s, x)
             n == Len(s) + 1
  <1>1. /\ t \in Seq(X) /\ DOMAIN t = 1 .. n /\ DOMAIN s = 1 .. Len(s) /\ Len(s) \in Nat
        /\ n \in Nat /\ n \in 1 .. n /\ t[n] = x /\ \A p \in DOMAIN s : t[p] = s[p]
    OBVIOUS
  <1> DEFINE dom == DOMAIN t
  <1> HIDE DEF t
  <1>2. Max(dom) \in dom /\ \A k \in dom : k <= Max(dom)
    <2>1. dom \in SUBSET (1 .. n) /\ dom # {}
      BY <1>1
    <2> HIDE DEF dom, n
    <2> QED BY <1>1, <2>1, LargestMember
  <1>3. Max(dom) = n
    <2>1. Max(dom) \in 1 .. n /\ n <= Max(dom)
      BY <1>1, <1>2
    <2> HIDE DEF dom
    <2> QED BY <1>1, <2>1
  <1>4. dom \ {n} = DOMAIN s /\ dom # {} /\ DOMAIN s \subseteq dom
    BY <1>1
  <1> HIDE DEF dom, n
  <1> QED BY <1>1, <1>3, <1>4 DEF t, dom

\* A fold step between values of V defines a function on all sequences.
FoldsBy(f, G, base, X, V) ==
    /\ f \in [Seq(X) -> V]
    /\ f[<< >>] = base
    /\ \A s \in Seq(X), x \in X : f[Append(s, x)] = G[<<f[s], x>>]
    /\ \A s \in Seq(X) : \E h \in [SUBSET DOMAIN s -> V] :
          IsSeqFold(h, s, G, base) /\ h[DOMAIN s] = f[s]

THEOREM SequenceFold ==
  \A V, X : \A base \in V : \A G \in [V \X X -> V] : \E f : FoldsBy(f, G, base, X, V)
  <1> SUFFICES ASSUME NEW V, NEW X, NEW base \in V, NEW G \in [V \X X -> V]
               PROVE  \E f : FoldsBy(f, G, base, X, V)
    OBVIOUS
  <1> DEFINE ok(h, s) == h \in [SUBSET DOMAIN s -> V] /\ IsSeqFold(h, s, G, base)
             the(s) == CHOOSE h : ok(h, s)
             f == [s \in Seq(X) |-> the(s)[DOMAIN s]]
  <1>1. ASSUME NEW s \in Seq(X) PROVE ok(the(s), s)
    <2> DEFINE S == DOMAIN s
               F == [p \in S |-> [v \in V |-> G[<<v, s[p]>>]]]
               c == [w \in SUBSET S |-> Max(w)]
    <2>1. IsFiniteSet(S) /\ \A w \in SUBSET S : w # {} => c[w] \in w /\ c[w] = Max(w)
      BY LargestPlace
    <2>2. F \in [S -> [V -> V]]
      <3>1. ASSUME NEW p \in S, NEW v \in V PROVE G[<<v, s[p]>>] \in V
        BY ElementOfSeq
      <3> QED BY <3>1
    <2>3. PICK h \in [SUBSET S -> V] : IsFold(h, S, c, F, base)
      <3> HIDE DEF c, F, S
      <3>1. Takes(c, S)
        BY <2>1 DEF Takes
      <3> HIDE DEF ok, the, f
      <3> QED BY <2>1, <2>2, <3>1, FoldExists
    <2>4. ASSUME NEW w \in SUBSET S
          PROVE  h[w] = IF w = {} THEN base ELSE G[<<h[w \ {Max(w)}], s[Max(w)]>>]
      <3>1. CASE w = {}
        BY <2>3, <3>1 DEF IsFold
      <3>2. CASE w # {}
        <4>1. h[w] = F[c[w]][h[w \ {c[w]}]] /\ h[w \ {c[w]}] \in V
          <5> HIDE DEF F, c, S
          <5> QED BY <2>3, <3>2 DEF IsFold
        <4>2. c[w] \in S /\ c[w] = Max(w)
          BY <2>1, <3>2
        <4>3. F[c[w]][h[w \ {c[w]}]] = G[<<h[w \ {c[w]}], s[c[w]]>>]
          <5> HIDE DEF c
          <5> QED BY <4>1, <4>2
        <4> HIDE DEF F, c, S
        <4> QED BY <3>2, <4>1, <4>2, <4>3
      <3> QED BY <3>1, <3>2
    <2>5. IsSeqFold(h, s, G, base)
      <3>1. h = [w \in SUBSET S |-> h[w]]
        OBVIOUS
      <3> QED BY <2>4, <3>1 DEF IsSeqFold
    <2> HIDE DEF ok
    <2>6. ok(h, s)
      BY <2>5 DEF ok
    <2> QED BY <2>6
  <1>2. ASSUME NEW s \in Seq(X) PROVE f[s] = the(s)[DOMAIN s] /\ the(s)[DOMAIN s] \in V
    <2> HIDE DEF the
    <2> QED BY <1>1
  <1>3. f \in [Seq(X) -> V]
    <2> HIDE DEF the
    <2> QED BY <1>2
  <1>4. f[<< >>] = base
    <2>1. << >> \in Seq(X) /\ DOMAIN << >> = {}
      OBVIOUS
    <2>2. ok(the(<< >>), << >>)
      BY <1>1, <2>1
    <2> HIDE DEF the
    <2> QED BY <1>2, <2>1, <2>2 DEF IsSeqFold
  <1>5. ASSUME NEW s \in Seq(X), NEW x \in X PROVE f[Append(s, x)] = G[<<f[s], x>>]
    <2> DEFINE t == Append(s, x)
               h == the(t)
               k == the(s)
               S == DOMAIN s
               T == DOMAIN t
               c == [w \in SUBSET S |-> Max(w)]
    <2>1. /\ t \in Seq(X) /\ T # {} /\ T \ {Max(T)} = S
          /\ t[Max(T)] = x /\ \A p \in S : t[p] = s[p]
          /\ S \in SUBSET T
      BY LastPlace
    <2>2. ok(h, t) /\ ok(k, s)
      BY <1>1, <2>1
    <2>3. IsFiniteSet(S) /\ \A w \in SUBSET S : w # {} => Max(w) \in w /\ c[w] = Max(w)
      BY LargestPlace
    <2> HIDE DEF t, h, k, c
    <2>4. h[{}] = k[{}]
      BY <2>2 DEF IsSeqFold
    <2>5. ASSUME NEW w \in SUBSET S, w # {}, h[w \ {c[w]}] = k[w \ {c[w]}] PROVE h[w] = k[w]
      <3>1. h[w] = G[<<h[w \ {Max(w)}], t[Max(w)]>>] /\ k[w] = G[<<k[w \ {Max(w)}], s[Max(w)]>>]
        BY <2>1, <2>2, <2>5 DEF IsSeqFold
      <3>2. t[Max(w)] = s[Max(w)] /\ c[w] = Max(w)
        BY <2>1, <2>3, <2>5
      <3> QED BY <2>5, <3>1, <3>2
    <2>6. h[S] = k[S]
      <3>1. AgreeByStep(h, k, S, c)
        BY <2>3, <2>4, <2>5 DEF AgreeByStep
      <3> HIDE DEF S, ok
      <3> QED BY <2>3, <3>1, SameFold
    <2>7. h[T] = G[<<h[T \ {Max(T)}], t[Max(T)]>>]
      BY <2>1, <2>2 DEF IsSeqFold
    <2>8. f[t] = h[T] /\ f[s] = k[S]
      BY <1>2, <2>1 DEF h, k
    <2> HIDE DEF f, T, S
    <2> QED BY <2>1, <2>6, <2>7, <2>8 DEF t
  <1>6. ASSUME NEW s \in Seq(X)
        PROVE  \E h \in [SUBSET DOMAIN s -> V] : IsSeqFold(h, s, G, base) /\ h[DOMAIN s] = f[s]
    <2>1. ok(the(s), s) /\ f[s] = the(s)[DOMAIN s]
      BY <1>1, <1>2
    <2> HIDE DEF the, f
    <2> QED BY <2>1
  <1> HIDE DEF f
  <1>7. FoldsBy(f, G, base, X, V)
    BY <1>3, <1>4, <1>5, <1>6 DEF FoldsBy
  <1> QED BY <1>7

\* Every prefix is the one before it and one more entry.
LEMMA EveryPrefix ==
  ASSUME NEW X, NEW s \in Seq(X)
  PROVE  /\ SubSeq(s, 1, 0) = << >> /\ SubSeq(s, 1, Len(s)) = s
         /\ \A m \in 0 .. Len(s) : SubSeq(s, 1, m) \in Seq(X)
         /\ \A m \in 1 .. Len(s) : SubSeq(s, 1, m) = Append(SubSeq(s, 1, m - 1), s[m])
  <1>0. Len(s) \in Nat
    OBVIOUS
  <1>1. SubSeq(s, 1, 0) = << >> /\ SubSeq(s, 1, Len(s)) = s
    OBVIOUS
  <1>2. ASSUME NEW m \in 0 .. Len(s)
        PROVE  /\ SubSeq(s, 1, m) \in Seq(X) /\ Len(SubSeq(s, 1, m)) = m
               /\ \A p \in 1 .. m : SubSeq(s, 1, m)[p] = s[p]
    <2>1. m \in Nat /\ m <= Len(s)
      BY <1>0
    <2>2. \A p \in 1 .. m : s[p] \in X
      BY <2>1, ElementOfSeq
    <2> QED BY <2>1, <2>2, SubSeqProperties
  <1>3. ASSUME NEW m \in 1 .. Len(s) PROVE SubSeq(s, 1, m) = Append(SubSeq(s, 1, m - 1), s[m])
    <2> DEFINE u == SubSeq(s, 1, m)
               v == SubSeq(s, 1, m - 1)
               w == Append(v, s[m])
    <2>1. m \in 0 .. Len(s) /\ m - 1 \in 0 .. Len(s) /\ m \in Nat /\ m >= 1 /\ s[m] \in X
      BY <1>0, ElementOfSeq
    <2>2. /\ u \in Seq(X) /\ Len(u) = m /\ \A p \in 1 .. m : u[p] = s[p]
          /\ v \in Seq(X) /\ Len(v) = m - 1 /\ \A p \in 1 .. m - 1 : v[p] = s[p]
      BY <1>2, <2>1
    <2> HIDE DEF u, v
    <2>3. w \in Seq(X) /\ Len(w) = m /\ \A p \in 1 .. m - 1 : w[p] = v[p]
      BY <2>1, <2>2
    <2>4. w[m] = s[m]
      BY <2>1, <2>2
    <2> HIDE DEF w
    <2>5. \A p \in 1 .. m : u[p] = w[p]
      BY <2>1, <2>2, <2>3, <2>4
    <2>6. u = w
      BY <2>2, <2>3, <2>5, SeqEqual
    <2> QED BY <2>6 DEF u, v, w
  <1> QED BY <1>1, <1>2, <1>3

-----------------------------------------------------------------------------
(***************************************************************************)
(* The quantity walk.                                                      *)
(***************************************************************************)
\* The equation it is defined by.
IsWalk(h, d) ==
    h = [w \in SUBSET DOMAIN d |->
            IF w = {} THEN 0 ELSE WalkStep(h[w \ {Max(w)}], d[Max(w)])]

LEMMA WalkIsWalk == \A d : Walk(d) = (CHOOSE h : IsWalk(h, d))[DOMAIN d]
  BY DEF Walk, FoldLeft, MapThenFoldSet, IsWalk

THEOREM WalkUnfold ==
  ASSUME NEW X, \A x \in X : x.qty \in Int
  PROVE  /\ Walk(<< >>) = 0
         /\ \A s \in Seq(X) : Walk(s) \in Int
         /\ \A s \in Seq(X), x \in X : Walk(Append(s, x)) = WalkStep(Walk(s), x)
  <1> DEFINE G == [p \in Int \X X |-> WalkStep(p[1], p[2])]
  <1>1. \A q \in Int, x \in X : WalkStep(q, x) \in Int /\ G[<<q, x>>] = WalkStep(q, x)
    BY DEF WalkStep
  <1>2. G \in [Int \X X -> Int]
    BY <1>1
  <1> HIDE DEF G
  <1>3. PICK f : FoldsBy(f, G, 0, X, Int)
    <2>1. 0 \in Int
      OBVIOUS
    <2> QED BY <1>2, <2>1, SequenceFold
  <1>4. ASSUME NEW s \in Seq(X) PROVE Walk(s) = f[s]
    <2> DEFINE S == DOMAIN s
               c == [w \in SUBSET S |-> Max(w)]
               k == CHOOSE h : IsWalk(h, s)
    <2>1. IsFiniteSet(S) /\ \A w \in SUBSET S : w # {} => Max(w) \in w /\ c[w] = Max(w)
      BY LargestPlace
    <2>2. PICK h \in [SUBSET S -> Int] : IsSeqFold(h, s, G, 0) /\ h[S] = f[s]
      BY <1>3 DEF FoldsBy
    <2>3. \A p \in S : s[p] \in X
      BY ElementOfSeq
    <2>4. ASSUME NEW w \in SUBSET S
          PROVE  h[w] = IF w = {} THEN 0 ELSE WalkStep(h[w \ {Max(w)}], s[Max(w)])
      <3>1. h[w] = IF w = {} THEN 0 ELSE G[<<h[w \ {Max(w)}], s[Max(w)]>>]
        BY <2>2 DEF IsSeqFold
      <3>2. w # {} => h[w \ {Max(w)}] \in Int /\ s[Max(w)] \in X
        BY <2>1, <2>3
      <3> QED BY <1>1, <3>1, <3>2
    <2>5. IsWalk(h, s)
      <3>1. h = [w \in SUBSET S |-> h[w]]
        OBVIOUS
      <3> QED BY <2>4, <3>1 DEF IsWalk
    <2> HIDE DEF k
    <2>6. IsWalk(k, s)
      BY <2>5 DEF k
    <2>7. AgreeByStep(h, k, S, c)
      BY <2>1, <2>5, <2>6, ZenonT(40) DEF AgreeByStep, IsWalk
    <2>8. h[S] = k[S]
      <3> HIDE DEF S, c
      <3> QED BY <2>1, <2>7, SameFold
    <2> QED BY <2>2, <2>8, WalkIsWalk DEF k
  <1>5. << >> \in Seq(X) /\ \A s \in Seq(X), x \in X : Append(s, x) \in Seq(X)
    OBVIOUS
  <1>6. /\ f[<< >>] = 0
        /\ \A s \in Seq(X) : f[s] \in Int
        /\ \A s \in Seq(X), x \in X : f[Append(s, x)] = WalkStep(f[s], x)
    BY <1>1, <1>3 DEF FoldsBy
  <1> QED BY <1>4, <1>5, <1>6

-----------------------------------------------------------------------------
(***************************************************************************)
(* The walk over rows of which no day ends below zero: from the end of     *)
(* every day to every entry, and to the end of the walk.                   *)
(***************************************************************************)
\* Rows the walk can take.
Walkable(X) == \A x \in X : x.type \in {"BUY", "SELL"} /\ x.qty \in Nat /\ x.at \in Int

\* What each entry adds, and what some of them add together.
Signs(d) == [p \in DOMAIN d |-> Signed(d[p])]

Added(d, D) == SumFunctionOnSet(Signs(d), D)

LEMMA TradeFacts ==
  ASSUME NEW X, Walkable(X), NEW x \in X
  PROVE  /\ Signed(x) \in Int /\ x.at \in Int /\ x.qty \in Nat
         /\ x.type = "BUY" \/ x.type = "SELL"
         /\ x.type = "BUY" => Signed(x) = x.qty /\ SideRank(x) = 0
         /\ x.type = "SELL" => Signed(x) = -x.qty /\ SideRank(x) = 1
  BY DEF Walkable, Signed, SideRank

LEMMA SignsOf ==
  ASSUME NEW X, Walkable(X), NEW s, \A i \in DOMAIN s : s[i] \in X
  PROVE  \A i \in DOMAIN s : Signs(s)[i] = Signed(s[i]) /\ Signs(s)[i] \in Int
  BY TradeFacts DEF Signs

LEMMA AddedType ==
  ASSUME NEW X, Walkable(X), NEW s, \A i \in DOMAIN s : s[i] \in X, NEW D, D \subseteq DOMAIN s, IsFiniteSet(D)
  PROVE  Added(s, D) \in Int
  <1>1. \A i \in D : Signs(s)[i] \in Int
    BY SignsOf
  <1> QED BY <1>1, SumOnSet DEF Added

\* Sums of one side only.
LEMMA AddedSign ==
  ASSUME NEW X, Walkable(X), NEW s, \A i \in DOMAIN s : s[i] \in X, NEW D \in SUBSET DOMAIN s, IsFiniteSet(D)
  PROVE  /\ (\A i \in D : s[i].type = "BUY") => Added(s, D) >= 0
         /\ (\A i \in D : s[i].type = "SELL") => Added(s, D) <= 0
  <1>1. \A i \in D : Signs(s)[i] = Signed(s[i]) /\ s[i] \in X
    BY SignsOf
  <1>2. ASSUME \A i \in D : s[i].type = "BUY" PROVE Added(s, D) >= 0
    <2>1. \A i \in D : Signs(s)[i] \in Nat
      BY <1>1, <1>2, TradeFacts
    <2>2. SumFunctionOnSet(Signs(s), D) \in Nat
      BY <2>1, SumOfNaturals
    <2> QED BY <2>2 DEF Added
  <1>3. ASSUME \A i \in D : s[i].type = "SELL" PROVE Added(s, D) <= 0
    <2> DEFINE f == [i \in DOMAIN s |-> s[i].qty]
               g == Signs(s)
    <2>1. \A i \in D : f[i] \in Nat /\ f[i] \in Int /\ g[i] = -f[i]
      <3>1. \A i \in D : f[i] = s[i].qty
        BY DEF f
      <3>2. \A i \in D : s[i].qty \in Nat /\ g[i] = -s[i].qty
        BY <1>1, <1>3, TradeFacts
      <3> HIDE DEF f, g
      <3> QED BY <3>1, <3>2
    <2> HIDE DEF f, g
    <2>2. SumFunctionOnSet(f, D) \in Nat /\ SumFunctionOnSet(g, D) = -SumFunctionOnSet(f, D)
      BY <2>1, SumOfNaturals, SumNegated
    <2> QED BY <2>2 DEF Added, g
  <1> QED BY <1>2, <1>3

\* Rows in the repository's order, ties among the rows of a day aside.
TimeOrdered(d) ==
    \A p, q \in DOMAIN d : p < q => d[p].at <= d[q].at /\ ~Earlier(d[q], d[p])

\* Everything traded by a time.
By(d, time) == {p \in DOMAIN d : d[p].at <= time}

\* Where no day ends below zero, neither does any entry of the walk: on a day
\* the walk takes the BUYs first, so that it sinks, if at all, to the sum the
\* day ends with.
LEMMA DaysThenEntries ==
  ASSUME NEW X, Walkable(X), NEW d \in Seq(X), TimeOrdered(d), \A time \in Int : Added(d, By(d, time)) >= 0
  PROVE  \A q \in DOMAIN d : Added(d, 1 .. q) >= 0
  <1> DEFINE n == Len(d)
  <1>1. n \in Nat /\ DOMAIN d = 1 .. n /\ \A p \in 1 .. n : d[p] \in X
    OBVIOUS
  <1>2. \A p \in 1 .. n : /\ d[p].at \in Int /\ d[p].type \in {"BUY", "SELL"}
                          /\ d[p].type = "BUY" => SideRank(d[p]) = 0
                          /\ d[p].type = "SELL" => SideRank(d[p]) = 1
    BY <1>1, TradeFacts
  <1>3. \A D \in SUBSET (1 .. n) : IsFiniteSet(D) /\ Added(d, D) \in Int
    <2>1. IsFiniteSet(1 .. n)
      BY <1>1, FS_Interval
    <2>2. \A D \in SUBSET (1 .. n) : IsFiniteSet(D)
      BY <2>1, FS_Subset
    <2> HIDE DEF n
    <2> QED BY <1>1, <2>2, AddedType
  <1>4. \A C, D \in SUBSET (1 .. n) : C \cap D = {} => Added(d, C \cup D) = Added(d, C) + Added(d, D)
    <2>1. \A p \in 1 .. n : Signs(d)[p] \in Int
      BY <1>1, SignsOf
    <2> HIDE DEF n
    <2> QED BY <1>3, <2>1, SumSplit DEF Added
  <1>5. \A p, q \in 1 .. n :
           p < q => \/ d[p].at < d[q].at
                    \/ d[p].at = d[q].at /\ SideRank(d[p]) <= SideRank(d[q])
    <2>1. \A p \in 1 .. n : SideRank(d[p]) \in {0, 1}
      BY <1>2
    <2> HIDE DEF n
    <2> QED BY <1>1, <1>2, <2>1 DEF TimeOrdered, Earlier
  <1> HIDE DEF n
  <1>6. ASSUME NEW q \in 1 .. n PROVE Added(d, 1 .. q) >= 0
    <2> DEFINE time   == d[q].at
               before == By(d, time - 1)
               upto   == By(d, time)
               buys   == {p \in 1 .. q : d[p].at = time}
               sells  == {p \in q + 1 .. n : d[p].at = time}
    <2>1. time \in Int /\ time - 1 \in Int /\ q \in Nat
      BY <1>1, <1>2
    <2>2. CASE d[q].type = "BUY"
      <3>1. 1 .. q = before \cup buys /\ before \cap buys = {}
        <4>1. \A p \in 1 .. n : d[p].at <= time - 1 <=> d[p].at < time
          BY <1>2, <2>1
        <4>2. \A p \in 1 .. n : d[p].at < time => p <= q
          BY <1>1, <1>2, <1>5
        <4>3. \A p \in 1 .. q : p \in 1 .. n /\ d[p].at <= time
          BY <1>1, <1>2, <1>5
        <4>4. \A p \in 1 .. n : p <= q => p \in 1 .. q
          BY <1>1
        <4>5. \A p \in 1 .. q : d[p].at < time \/ d[p].at = time
          BY <1>2, <4>3
        <4> QED BY <1>1, <1>2, <4>1, <4>2, <4>3, <4>4, <4>5 DEF By
      <3>2. buys \in SUBSET (1 .. n) /\ before \in SUBSET (1 .. n)
        BY <1>1 DEF By
      <3>3. \A p \in buys : d[p].type = "BUY"
        <4>1. \A p \in buys : p \in 1 .. n /\ (p = q \/ p < q) /\ d[p].at = d[q].at
          BY <1>1
        <4>2. \A p \in buys : p = q \/ SideRank(d[p]) <= SideRank(d[q])
          BY <1>2, <1>5, <4>1
        <4> HIDE DEF buys
        <4> QED BY <1>2, <2>2, <4>1, <4>2
      <3>4. Added(d, before) >= 0
        BY <2>1
      <3> HIDE DEF buys, before, upto, time
      <3>5. Added(d, buys) >= 0
        BY <1>1, <1>3, <3>2, <3>3, AddedSign
      <3>6. Added(d, 1 .. q) = Added(d, before) + Added(d, buys)
        BY <1>4, <3>1, <3>2
      <3> QED BY <1>3, <3>2, <3>4, <3>5, <3>6
    <2>3. CASE d[q].type = "SELL"
      <3>1. upto = (1 .. q) \cup sells /\ (1 .. q) \cap sells = {}
        <4>1. \A p \in 1 .. q : p \in 1 .. n /\ d[p].at <= time
          BY <1>1, <1>2, <1>5
        <4>2. \A p \in q + 1 .. n : p \in 1 .. n /\ p > q /\ p \notin 1 .. q /\ d[p].at >= time
          BY <1>1, <1>2, <1>5
        <4>3. \A p \in 1 .. n : p \in 1 .. q \/ p \in q + 1 .. n
          BY <1>1
        <4>4. \A p \in q + 1 .. n : d[p].at <= time => d[p].at = time
          BY <1>2, <4>2
        <4>5. \A p \in q + 1 .. n : d[p].at = time => d[p].at <= time
          BY <1>2, <4>2
        <4>6. upto = {p \in 1 .. n : d[p].at <= time}
          BY <1>1 DEF By
        <4> HIDE DEF upto, time
        <4> QED BY <4>1, <4>2, <4>3, <4>4, <4>5, <4>6
      <3>2. sells \in SUBSET (1 .. n) /\ 1 .. q \in SUBSET (1 .. n)
        BY <1>1
      <3>3. \A p \in sells : d[p].type = "SELL"
        <4>1. \A p \in sells : p \in 1 .. n /\ q < p /\ d[p].at = d[q].at
          BY <1>1
        <4>2. \A p \in sells : SideRank(d[q]) <= SideRank(d[p])
          BY <1>2, <1>5, <4>1
        <4> HIDE DEF sells
        <4> QED BY <1>2, <2>3, <4>1, <4>2
      <3>4. Added(d, upto) >= 0
        BY <2>1
      <3> HIDE DEF sells, before, upto, time
      <3>5. Added(d, sells) <= 0
        BY <1>1, <1>3, <3>2, <3>3, AddedSign
      <3>6. Added(d, upto) = Added(d, 1 .. q) + Added(d, sells)
        BY <1>4, <3>1, <3>2
      <3> QED BY <1>3, <3>2, <3>4, <3>5, <3>6
    <2> QED BY <1>2, <2>2, <2>3
  <1> QED BY <1>1, <1>6

LEMMA WalkStepType ==
  ASSUME NEW X, Walkable(X), NEW q \in Int, NEW x \in X
  PROVE  /\ WalkStep(q, x) \in Int
         /\ q >= 0 /\ q + Signed(x) >= 0 => WalkStep(q, x) = q + Signed(x)
  BY TradeFacts DEF WalkStep

\* A walk that is never capped ends with the sum of the moves.
LEMMA UncappedWalk ==
  ASSUME NEW X, Walkable(X), NEW d \in Seq(X), \A q \in DOMAIN d : Added(d, 1 .. q) >= 0
  PROVE  Walk(d) = Added(d, DOMAIN d)
  <1> DEFINE h(m) == Walk(SubSeq(d, 1, m))
             n == Len(d)
             good(m) == h(m) = Added(d, 1 .. m) /\ Added(d, 1 .. m) >= 0
             bad == {m \in 0 .. n : ~good(m)}
  <1>1. n \in Nat /\ DOMAIN d = 1 .. n /\ \A p \in 1 .. n : d[p] \in X
    OBVIOUS
  <1>2. /\ h(0) = 0 /\ h(n) = Walk(d)
        /\ \A m \in 1 .. n : h(m) = WalkStep(h(m - 1), d[m])
    <2>1. \A x \in X : x.qty \in Int
      BY TradeFacts
    <2>2. /\ Walk(<< >>) = 0
          /\ \A s \in Seq(X), x \in X : Walk(Append(s, x)) = WalkStep(Walk(s), x)
      BY <2>1, WalkUnfold
    <2>3. /\ SubSeq(d, 1, 0) = << >> /\ SubSeq(d, 1, n) = d
          /\ \A m \in 0 .. n : SubSeq(d, 1, m) \in Seq(X)
          /\ \A m \in 1 .. n : SubSeq(d, 1, m) = Append(SubSeq(d, 1, m - 1), d[m])
      BY EveryPrefix
    <2>4. ASSUME NEW m \in 1 .. n PROVE h(m) = WalkStep(h(m - 1), d[m])
      <3>1. SubSeq(d, 1, m - 1) \in Seq(X) /\ d[m] \in X
        <4>1. m - 1 \in 0 .. n
          BY <1>1
        <4> QED BY <1>1, <2>3, <4>1
      <3> QED BY <2>2, <2>3, <3>1
    <2> QED BY <2>2, <2>3, <2>4
  <1> HIDE DEF h
  <1>3. bad = {}
    <2> SUFFICES ASSUME bad # {} PROVE FALSE
      OBVIOUS
    <2>1. PICK m \in bad : \A k \in bad : m <= k
      <3>1. bad \subseteq Nat
        BY <1>1
      <3> HIDE DEF bad
      <3> QED BY <3>1, SmallestMember
    <2>2. m \in 0 .. n /\ ~good(m)
      <3> HIDE DEF good
      <3> QED BY <2>1
    <2>3. m # 0
      <3>1. 1 .. 0 = {}
        OBVIOUS
      <3>2. h(0) = 0
        BY <1>2
      <3>3. Added(d, {}) = 0
        BY FS_EmptySet, SumOnSet DEF Added
      <3>4. good(0)
        BY <3>1, <3>2, <3>3
      <3> HIDE DEF good
      <3> QED BY <2>2, <3>4
    <2> DEFINE l == m - 1
               prefix == 1 .. m
    <2>4. m \in 1 .. n /\ l \in 0 .. n /\ l \in Nat /\ l < m /\ m \in Nat
      BY <1>1, <2>2, <2>3
    <2>5. good(l)
      <3>1. l \notin bad
        <4> HIDE DEF bad
        <4> QED BY <1>1, <2>1, <2>4
      <3> HIDE DEF good
      <3> QED BY <2>4, <3>1
    <2>6. prefix \in SUBSET (1 .. n) /\ prefix # {} /\ prefix = (1 .. l) \cup {m} /\ m \notin 1 .. l
          /\ prefix \ {m} = 1 .. l
      BY <1>1, <2>4
    <2>8. h(m) = WalkStep(h(l), d[m])
      BY <1>2, <2>4
    <2>9. Added(d, prefix) = Added(d, 1 .. l) + Signed(d[m]) /\ Added(d, 1 .. l) \in Int
      <3>1. \A p \in 1 .. n : Signs(d)[p] = Signed(d[p]) /\ Signs(d)[p] \in Int
        BY <1>1, SignsOf
      <3>2. IsFiniteSet(1 .. l) /\ 1 .. l \subseteq 1 .. n
        <4>1. l \in Int /\ 1 .. l \subseteq 1 .. n
          BY <1>1, <2>4
        <4>2. IsFiniteSet(1 .. l)
          <5>1. \A k \in Int : IsFiniteSet(1 .. k)
            BY FS_Interval
          <5> HIDE DEF l
          <5> QED BY <4>1, <5>1
        <4> QED BY <4>1, <4>2
      <3>3. /\ Signs(d)[m] \in Int /\ \A p \in 1 .. l : Signs(d)[p] \in Int
            /\ Signs(d)[m] = Signed(d[m])
        BY <2>4, <3>1, <3>2
      <3> HIDE DEF l, prefix
      <3>4. SumFunctionOnSet(Signs(d), (1 .. l) \cup {m}) = SumFunctionOnSet(Signs(d), 1 .. l) + Signs(d)[m]
        BY <2>6, <3>2, <3>3, SumWith
      <3>5. SumFunctionOnSet(Signs(d), 1 .. l) \in Int
        BY <3>2, <3>3, SumOnSet
      <3> QED BY <2>6, <3>3, <3>4, <3>5 DEF Added
    <2>10. Added(d, prefix) >= 0
      BY <1>1, <2>4
    <2>11. h(m) = Added(d, prefix)
      <3>1. d[m] \in X /\ h(l) = Added(d, 1 .. l) /\ Added(d, 1 .. l) >= 0
        BY <1>1, <2>4, <2>5
      <3> HIDE DEF l, prefix
      <3> QED BY <2>8, <2>9, <2>10, <3>1, WalkStepType
    <2> QED BY <2>2, <2>10, <2>11
  <1>4. good(n)
    <2>1. n \in 0 .. n
      BY <1>1
    <2> HIDE DEF good, n
    <2> QED BY <1>3, <2>1
  <1> QED BY <1>1, <1>2, <1>4

\* Both together.
THEOREM WalkOfWholeDays ==
  ASSUME NEW X, Walkable(X), NEW d \in Seq(X), TimeOrdered(d), \A time \in Int : Added(d, By(d, time)) >= 0
  PROVE  (\A q \in DOMAIN d : Added(d, 1 .. q) >= 0) /\ Walk(d) = Added(d, DOMAIN d)
  BY DaysThenEntries, UncappedWalk

-----------------------------------------------------------------------------
(***************************************************************************)
(* Folds again: the equation of a fold has one solution, so what a fold    *)
(* computes is what the function of SequenceFold says.                     *)
(***************************************************************************)
Partials(h, d, G, base, X, V) ==
    /\ h = [w \in SUBSET DOMAIN d |-> h[w]] /\ h[{}] = base
    /\ \A w \in SUBSET DOMAIN d : w # {} =>
          /\ h[w \ {Max(w)}] \in V /\ d[Max(w)] \in X
          /\ h[w] = G[<<h[w \ {Max(w)}], d[Max(w)]>>]

LEMMA FoldHas ==
  ASSUME NEW V, NEW X, NEW base, NEW G, NEW f, FoldsBy(f, G, base, X, V), NEW d \in Seq(X)
  PROVE  \E h : Partials(h, d, G, base, X, V) /\ h[DOMAIN d] = f[d]
  <1> DEFINE S == DOMAIN d
  <1>1. PICK h \in [SUBSET S -> V] : IsSeqFold(h, d, G, base) /\ h[S] = f[d]
    BY DEF FoldsBy
  <1>2. \A w \in SUBSET S : w # {} => Max(w) \in w
    BY LargestPlace
  <1>3. \A p \in S : d[p] \in X
    BY ElementOfSeq
  <1>4. \A w \in SUBSET S : h[w] = IF w = {} THEN base ELSE G[<<h[w \ {Max(w)}], d[Max(w)]>>]
    BY <1>1 DEF IsSeqFold
  <1>5. {} \in SUBSET S /\ h[{}] = base
    BY <1>4
  <1>6. ASSUME NEW w \in SUBSET S, w # {}
        PROVE  h[w \ {Max(w)}] \in V /\ d[Max(w)] \in X
    BY <1>1, <1>2, <1>3, <1>6
  <1>7. h = [w \in SUBSET S |-> h[w]]
    BY <1>1
  <1>8. Partials(h, d, G, base, X, V)
    BY <1>4, <1>5, <1>6, <1>7 DEF Partials
  <1> QED BY <1>1, <1>8

Follows(k, d, G, base, V) ==
    /\ k[{}] = base
    /\ \A w \in SUBSET DOMAIN d :
          w # {} /\ k[w \ {Max(w)}] \in V => k[w] = G[<<k[w \ {Max(w)}], d[Max(w)]>>]

LEMMA FoldOnly ==
  ASSUME NEW V, NEW X, NEW base, NEW G, NEW d \in Seq(X), NEW h, Partials(h, d, G, base, X, V),
         NEW k, Follows(k, d, G, base, V)
  PROVE  k[DOMAIN d] = h[DOMAIN d]
  <1> DEFINE S == DOMAIN d
             c == [w \in SUBSET S |-> Max(w)]
  <1>1. IsFiniteSet(S) /\ \A w \in SUBSET S : w # {} => Max(w) \in w /\ c[w] = Max(w)
    BY LargestPlace
  <1>2. ASSUME NEW w \in SUBSET S, w # {}, h[w \ {c[w]}] = k[w \ {c[w]}] PROVE h[w] = k[w]
    BY <1>1, <1>2 DEF Partials, Follows
  <1>3. {} \in SUBSET S /\ h[{}] = k[{}]
    BY DEF Partials, Follows
  <1>4. AgreeByStep(h, k, S, c)
    <2> HIDE DEF S, c
    <2> QED BY <1>1, <1>2, <1>3 DEF AgreeByStep
  <1> HIDE DEF S, c
  <1>5. h[S] = k[S]
    BY <1>1, <1>4, SameFold
  <1> QED BY <1>5 DEF S

-----------------------------------------------------------------------------
(***************************************************************************)
(* Fractions.                                                              *)
(***************************************************************************)
Divides(k, a) == \E m \in Int : a = m * k

LEMMA DividesFacts ==
  /\ \A k \in Int : Divides(k, 0) /\ Divides(k, k)
  /\ \A k, a, b, c, q \in Int :
        Divides(k, a) /\ Divides(k, b) /\ (c = q * a + b \/ c = b - q * a) => Divides(k, c)
  /\ \A k, a \in Nat : a > 0 /\ Divides(k, a) => k <= a
  <1>1. ASSUME NEW k \in Int PROVE Divides(k, 0) /\ Divides(k, k)
    <2>1. 0 = 0 * k /\ k = 1 * k
      OBVIOUS
    <2> QED BY <2>1 DEF Divides
  <1>2. ASSUME NEW k \in Int, NEW a \in Int, NEW b \in Int, NEW q \in Int, Divides(k, a), Divides(k, b)
        PROVE  \A c \in Int : c = q * a + b \/ c = b - q * a => Divides(k, c)
    <2>1. PICK m \in Int : a = m * k
      BY <1>2 DEF Divides
    <2>2. PICK n \in Int : b = n * k
      BY <1>2 DEF Divides
    <2>3. q * a = (q * m) * k /\ q * m \in Int
      BY <2>1
    <2>4. (q * m) * k + n * k = (q * m + n) * k /\ n * k - (q * m) * k = (n - q * m) * k
      <3>1. \A x \in Int : x * k + n * k = (x + n) * k /\ n * k - x * k = (n - x) * k
        OBVIOUS
      <3> QED BY <2>3, <3>1
    <2>5. q * m + n \in Int /\ n - q * m \in Int
      BY <2>3
    <2> QED BY <2>2, <2>3, <2>4, <2>5 DEF Divides
  <1>3. ASSUME NEW k \in Nat, NEW a \in Nat, a > 0, Divides(k, a) PROVE k <= a
    <2>1. PICK m \in Int : a = m * k
      BY <1>3 DEF Divides
    <2>2. m > 0
      <3>1. m <= 0 => m * k <= 0
        OBVIOUS
      <3> QED BY <1>3, <2>1, <3>1
    <2>3. m = (m - 1) + 1 /\ m - 1 \in Nat
      BY <2>2
    <2>4. \A x \in Nat : (x + 1) * k >= k
      OBVIOUS
    <2> QED BY <2>1, <2>3, <2>4
  <1> QED BY <1>1, <1>2, <1>3

LEMMA Division ==
  \A a \in Nat, b \in Nat \ {0} :
     a \div b \in Nat /\ a % b \in 0 .. b - 1 /\ a = (a \div b) * b + (a % b)
  OBVIOUS

\* The equation Gcd is defined by.
IsGcd(f) == f = [p \in Nat \X Nat |-> IF p[2] = 0 THEN p[1] ELSE f[<<p[2], p[1] % p[2]>>]]

LEMMA GcdChosen == Gcd = CHOOSE f : IsGcd(f)
  BY DEF Gcd, IsGcd

Common(a, b) == {k \in 1 .. b : Divides(k, a) /\ Divides(k, b)}

LEMMA CommonStep ==
  ASSUME NEW a \in Nat, NEW b \in Nat \ {0}
  PROVE  IF a % b = 0 THEN Max(Common(a, b)) = b ELSE Common(a, b) = Common(b, a % b)
  <1> DEFINE r == a % b
             q == a \div b
  <1>1. r \in 0 .. b - 1 /\ q \in Nat /\ a = q * b + r /\ r = a - q * b
    BY Division
  <1> HIDE DEF r, q
  <1>2. CASE r = 0
    <2>1. b \in Common(a, b)
      <3>1. Divides(b, b) /\ Divides(b, 0)
        BY DividesFacts
      <3>3. a = q * b /\ q \in Int
        BY <1>1, <1>2
      <3>4. Divides(b, a)
        BY <3>3 DEF Divides
      <3> QED BY <1>1, <1>2, <3>1, <3>4 DEF Common
    <2>2. Common(a, b) \in SUBSET (1 .. b)
      BY DEF Common
    <2>3. Max(Common(a, b)) \in Common(a, b) /\ \A k \in Common(a, b) : k <= Max(Common(a, b))
      BY <2>1, <2>2, LargestMember
    <2>4. Max(Common(a, b)) \in 1 .. b /\ b <= Max(Common(a, b))
      BY <2>1, <2>2, <2>3
    <2> QED BY <1>2, <2>4 DEF r
  <1>3. CASE r # 0
    <2>1. ASSUME NEW k \in Common(a, b) PROVE k \in Common(b, r)
      <3>1. k \in 1 .. b /\ Divides(k, a) /\ Divides(k, b)
        BY DEF Common
      <3>2. Divides(k, r)
        BY <1>1, <3>1, DividesFacts
      <3>3. k <= r
        BY <1>1, <1>3, <3>1, <3>2, DividesFacts
      <3> QED BY <1>1, <3>1, <3>2, <3>3 DEF Common
    <2>2. ASSUME NEW k \in Common(b, r) PROVE k \in Common(a, b)
      <3>1. k \in 1 .. r /\ Divides(k, b) /\ Divides(k, r)
        BY DEF Common
      <3>2. Divides(k, a)
        BY <1>1, <3>1, DividesFacts
      <3> QED BY <1>1, <3>1, <3>2 DEF Common
    <2> QED BY <1>3, <2>1, <2>2 DEF r
  <1> QED BY <1>2, <1>3 DEF r

LEMMA GcdUnfold ==
  \A a, b \in Nat : Gcd[<<a, b>>] = IF b = 0 THEN a ELSE Gcd[<<b, a % b>>]
  <1> DEFINE f == [p \in Nat \X Nat |-> IF p[2] = 0 THEN p[1] ELSE Max(Common(p[1], p[2]))]
             g == [p \in Nat \X Nat |-> IF p[2] = 0 THEN p[1] ELSE f[<<p[2], p[1] % p[2]>>]]
  <1>1. ASSUME NEW a \in Nat, NEW b \in Nat PROVE f[<<a, b>>] = g[<<a, b>>]
    <2>1. CASE b = 0
      BY <2>1
    <2>2. CASE b # 0
      <3>1. a % b \in Nat
        BY <2>2, Division
      <3>2. f[<<a, b>>] = Max(Common(a, b)) /\ g[<<a, b>>] = f[<<b, a % b>>]
        BY <2>2
      <3>3. f[<<b, a % b>>] = IF a % b = 0 THEN b ELSE Max(Common(b, a % b))
        BY <3>1
      <3> HIDE DEF f, g
      <3> QED BY <2>2, <3>2, <3>3, CommonStep
    <2> QED BY <2>1, <2>2
  <1>2. f = g
    <2>1. \A p \in Nat \X Nat : f[p] = g[p]
      <3> SUFFICES ASSUME NEW p \in Nat \X Nat PROVE f[p] = g[p]
        OBVIOUS
      <3>1. p = <<p[1], p[2]>> /\ p[1] \in Nat /\ p[2] \in Nat
        OBVIOUS
      <3> HIDE DEF f, g
      <3> QED BY <1>1, <3>1
    <2> QED BY <2>1
  <1>3. IsGcd(f)
    BY <1>2 DEF IsGcd
  <1>4. IsGcd(Gcd)
    BY <1>3, GcdChosen
  <1> QED BY <1>4 DEF IsGcd

\* Gcd divides both numbers and is positive unless both are 0.
LEMMA GcdDivides ==
  \A b, a \in Nat : /\ Gcd[<<a, b>>] \in Nat
                    /\ Divides(Gcd[<<a, b>>], a) /\ Divides(Gcd[<<a, b>>], b)
                    /\ b > 0 => Gcd[<<a, b>>] > 0
                    /\ a > 0 => Gcd[<<a, b>>] > 0
  <1> DEFINE good(a, b) == /\ Gcd[<<a, b>>] \in Nat
                           /\ Divides(Gcd[<<a, b>>], a) /\ Divides(Gcd[<<a, b>>], b)
                           /\ b > 0 => Gcd[<<a, b>>] > 0
                           /\ a > 0 => Gcd[<<a, b>>] > 0
             bad == {b \in Nat : \E a \in Nat : ~good(a, b)}
  <1> HIDE DEF good
  <1>1. SUFFICES ASSUME bad # {} PROVE FALSE
    <2>1. bad = {} => \A b, a \in Nat : good(a, b)
      OBVIOUS
    <2> QED BY <2>1 DEF good
  <1>2. PICK b \in bad : \A k \in bad : b <= k
    <2>1. bad \subseteq Nat
      OBVIOUS
    <2> HIDE DEF bad
    <2> QED BY <1>1, <2>1, SmallestMember
  <1>3. PICK a \in Nat : ~good(a, b)
    OBVIOUS
  <1>4. b \in Nat
    OBVIOUS
  <1>5. b # 0
    <2>1. good(a, 0)
      <3>1. Gcd[<<a, 0>>] = a
        BY GcdUnfold
      <3> QED BY <3>1, DividesFacts DEF good
    <2> QED BY <1>3, <2>1
  <1> DEFINE r == a % b
             q == a \div b
  <1>6. r \in Nat /\ r < b /\ q \in Nat /\ a = q * b + r
    <2>1. b \in Nat \ {0}
      BY <1>4, <1>5
    <2>2. r \in 0 .. b - 1 /\ q \in Nat /\ a = q * b + r
      BY <2>1, Division
    <2> HIDE DEF bad, r, q
    <2> QED BY <1>4, <2>2
  <1>7. Gcd[<<a, b>>] = Gcd[<<b, r>>]
    BY <1>4, <1>5, GcdUnfold
  <1> HIDE DEF r, q
  <1>8. good(b, r)
    <2>1. r \notin bad
      <3> HIDE DEF bad
      <3> QED BY <1>2, <1>4, <1>6
    <2> QED BY <1>4, <1>6, <2>1
  <1>9. good(a, b)
    <2> DEFINE g == Gcd[<<b, r>>]
    <2>1. g \in Nat /\ Divides(g, b) /\ Divides(g, r) /\ g > 0
      BY <1>4, <1>5, <1>8 DEF good
    <2> HIDE DEF g
    <2>2. Divides(g, a)
      BY <1>4, <1>6, <2>1, DividesFacts
    <2>3. Gcd[<<a, b>>] = g
      BY <1>7 DEF g
    <2> QED BY <1>6, <2>1, <2>2, <2>3 DEF good
  <1> QED BY <1>3, <1>9

\* Division of a multiple.
LEMMA ScaledDivision ==
  ASSUME NEW k \in Nat \ {0}, NEW a \in Nat, NEW b \in Nat \ {0}
  PROVE  (k * a) % (k * b) = k * (a % b)
  <1> DEFINE r == a % b
             q == a \div b
             K == k * b
             R == k * r
  <1>1. r \in 0 .. b - 1 /\ q \in Nat /\ a = q * b + r
    BY Division
  <1> HIDE DEF r, q
  <1>2. K \in Nat /\ K > 0 /\ R \in Nat /\ R < K
    <2>1. PICK e \in Nat \ {0} : b = r + e
      <3>1. b - r \in Nat \ {0} /\ b = r + (b - r)
        BY <1>1
      <3> QED BY <3>1
    <2>2. r \in Nat
      BY <1>1
    <2>3. k * (r + e) = k * r + k * e /\ k * e \in Nat /\ k * e > 0 /\ k * r \in Nat
      BY <2>2
    <2> HIDE DEF R
    <2>4. K = R + k * e /\ R \in Nat
      BY <2>1, <2>3 DEF R
    <2> HIDE DEF K
    <2> QED BY <2>3, <2>4
  <1>3. k * a = q * K + R
    <2>1. k * (q * b + r) = k * (q * b) + k * r /\ k * (q * b) = q * (k * b)
      BY <1>1
    <2> QED BY <1>1, <2>1
  <1> HIDE DEF K, R
  <1>4. (q * K + R) % K = R
    BY <1>1, <1>2
  <1> QED BY <1>3, <1>4 DEF K, R, r

LEMMA GcdScale ==
  \A k \in Nat \ {0} : \A b, a \in Nat : Gcd[<<k * a, k * b>>] = k * Gcd[<<a, b>>]
  <1> SUFFICES ASSUME NEW k \in Nat \ {0}
               PROVE  \A b, a \in Nat : Gcd[<<k * a, k * b>>] = k * Gcd[<<a, b>>]
    OBVIOUS
  <1> DEFINE good(a, b) == Gcd[<<k * a, k * b>>] = k * Gcd[<<a, b>>]
             bad == {b \in Nat : \E a \in Nat : ~good(a, b)}
  <1> HIDE DEF good
  <1>1. SUFFICES ASSUME bad # {} PROVE FALSE
    <2>1. bad = {} => \A b, a \in Nat : good(a, b)
      OBVIOUS
    <2> QED BY <2>1 DEF good
  <1>2. PICK b \in bad : \A l \in bad : b <= l
    <2>1. bad \subseteq Nat
      OBVIOUS
    <2> HIDE DEF bad
    <2> QED BY <1>1, <2>1, SmallestMember
  <1>3. PICK a \in Nat : ~good(a, b)
    OBVIOUS
  <1>4. b \in Nat
    OBVIOUS
  <1>0. \A x \in Nat : k * x \in Nat /\ (x # 0 => k * x # 0)
    OBVIOUS
  <1>5. b # 0
    <2>1. good(a, 0)
      <3>1. k * 0 = 0 /\ k * a \in Nat
        OBVIOUS
      <3>2. Gcd[<<a, 0>>] = a /\ Gcd[<<k * a, 0>>] = k * a
        BY <3>1, GcdUnfold
      <3> QED BY <3>1, <3>2 DEF good
    <2> QED BY <1>3, <2>1
  <1> DEFINE r == a % b
  <1>6. r \in Nat /\ r < b
    <2>1. b \in Nat \ {0}
      BY <1>4, <1>5
    <2> HIDE DEF bad
    <2> QED BY <2>1, Division
  <1>7. Gcd[<<a, b>>] = Gcd[<<b, r>>]
    BY <1>4, <1>5, GcdUnfold
  <1>8. Gcd[<<k * a, k * b>>] = Gcd[<<k * b, k * r>>]
    <2>1. (k * a) % (k * b) = k * r
      BY <1>4, <1>5, ScaledDivision, ZenonT(40)
    <2>2. k * a \in Nat /\ k * b \in Nat /\ k * b # 0
      BY <1>0, <1>4, <1>5
    <2> HIDE DEF r
    <2> QED BY <2>1, <2>2, GcdUnfold
  <1> HIDE DEF r
  <1>9. good(b, r)
    <2>1. r \notin bad
      <3> HIDE DEF bad
      <3> QED BY <1>2, <1>4, <1>6
    <2> QED BY <1>4, <1>6, <2>1
  <1> QED BY <1>3, <1>7, <1>8, <1>9 DEF good

\* A multiple divided.
LEMMA ExactDivision == \A m \in Int, g \in Nat \ {0} : (m * g) \div g = m
  OBVIOUS

Denominators == Nat \ {0}

Magnitude(n) == IF n < 0 THEN -n ELSE n

\* What Over makes of n / d, by the common divisor of both.
LEMMA OverParts ==
  ASSUME NEW n \in Int, NEW d \in Denominators
  PROVE  \E m \in Int, e, g \in Denominators :
            /\ g = Gcd[<<Magnitude(n), d>>]
            /\ n = m * g /\ d = e * g /\ Over(n, d) = <<m, e>>
  <1> DEFINE a == Magnitude(n)
             g == Gcd[<<a, d>>]
  <1>1. a \in Nat /\ d \in Nat /\ d > 0 /\ (n = a \/ n = -a)
    BY DEF Magnitude, Denominators
  <1> HIDE DEF a
  <1>2. g \in Nat /\ g > 0 /\ Divides(g, a) /\ Divides(g, d)
    BY <1>1, GcdDivides
  <1>3. Over(n, d) = <<n \div g, d \div g>>
    <2>1. ~(d < 0) /\ 1 * d = d /\ 1 * n = n
      BY <1>1
    <2> QED BY <2>1 DEF Over, a, Magnitude
  <1> HIDE DEF g
  <1>4. PICK l \in Int : a = l * g
    BY <1>2 DEF Divides
  <1>5. PICK e \in Int : d = e * g
    BY <1>2 DEF Divides
  <1>6. PICK m \in Int : n = m * g
    <2>1. a = l * g /\ -a = (-l) * g /\ -l \in Int
      BY <1>2, <1>4
    <2> QED BY <1>1, <2>1
  <1>7. e > 0
    <2>1. e <= 0 => e * g <= 0
      BY <1>2
    <2> QED BY <1>1, <1>5, <2>1
  <1>8. n \div g = m /\ d \div g = e
    BY <1>2, <1>5, <1>6, ExactDivision
  <1>9. e \in Denominators /\ g \in Denominators
    BY <1>2, <1>7 DEF Denominators
  <1> QED BY <1>3, <1>5, <1>6, <1>8, <1>9 DEF g, a

\* A fraction has the value of the quotient it stands for.
LEMMA OverValue ==
  \A n \in Int, d \in Denominators :
     /\ Over(n, d) \in Int \X Denominators
     /\ Over(n, d)[1] * d = n * Over(n, d)[2]
  <1> SUFFICES ASSUME NEW n \in Int, NEW d \in Denominators
               PROVE  /\ Over(n, d) \in Int \X Denominators
                      /\ Over(n, d)[1] * d = n * Over(n, d)[2]
    OBVIOUS
  <1>1. PICK m \in Int, e \in Denominators, g \in Denominators :
           g = Gcd[<<Magnitude(n), d>>] /\ n = m * g /\ d = e * g /\ Over(n, d) = <<m, e>>
    BY OverParts
  <1>2. m * (e * g) = (m * g) * e
    BY DEF Denominators
  <1> QED BY <1>1, <1>2

\* It does not depend on how the quotient is expanded.
LEMMA OverScale ==
  ASSUME NEW k \in Denominators, NEW n \in Int, NEW d \in Denominators
  PROVE  Over(k * n, k * d) = Over(n, d)
  <1>1. PICK m \in Int, e \in Denominators, g \in Denominators :
           g = Gcd[<<Magnitude(n), d>>] /\ n = m * g /\ d = e * g /\ Over(n, d) = <<m, e>>
    BY OverParts
  <1>2. k * n \in Int /\ k * d \in Denominators /\ k * g \in Denominators
    <2>1. \A x, y \in Nat \ {0} : x * y \in Nat \ {0}
      OBVIOUS
    <2>2. k * n \in Int
      BY DEF Denominators
    <2> QED BY <2>1, <2>2 DEF Denominators
  <1>3. Magnitude(k * n) = k * Magnitude(n) /\ Magnitude(n) \in Nat
    <2>1. n < 0 => k * n < 0 /\ -(k * n) = k * (-n)
      BY DEF Denominators
    <2>2. n >= 0 => k * n >= 0
      BY DEF Denominators
    <2> QED BY <1>2, <2>1, <2>2 DEF Magnitude
  <1>4. Gcd[<<k * Magnitude(n), k * d>>] = k * g
    BY <1>1, <1>3, GcdScale DEF Denominators
  <1>5. PICK p \in Int, q \in Denominators : 
           k * n = p * (k * g) /\ k * d = q * (k * g) /\ Over(k * n, k * d) = <<p, q>>
    <2> DEFINE N == k * n
               D == k * d
    <2>1. N \in Int /\ D \in Denominators /\ Gcd[<<Magnitude(N), D>>] = k * g
      BY <1>2, <1>3, <1>4
    <2> HIDE DEF N, D
    <2>2. \E p \in Int, q, h \in Denominators :
            /\ h = Gcd[<<Magnitude(N), D>>]
            /\ N = p * h /\ D = q * h /\ Over(N, D) = <<p, q>>
      BY <2>1, OverParts
    <2>3. \E p \in Int, q \in Denominators : N = p * (k * g) /\ D = q * (k * g) /\ Over(N, D) = <<p, q>>
      BY <2>1, <2>2
    <2> QED BY <2>3 DEF N, D
  <1> DEFINE h == k * g
  <1>6. k * n = m * h /\ k * d = e * h
    <2>1. k * (m * g) = m * (k * g) /\ k * (e * g) = e * (k * g)
      BY DEF Denominators
    <2> QED BY <1>1, <2>1
  <1>7. h \in Nat \ {0} /\ \A x, y \in Int : x * h = y * h => x = y
    <2>1. h \in Nat \ {0}
      BY <1>2 DEF Denominators
    <2> HIDE DEF h
    <2>2. ASSUME NEW x \in Int, NEW y \in Int, x * h = y * h PROVE x = y
      <3>1. (x * h) \div h = x /\ (y * h) \div h = y
        BY <2>1, ExactDivision
      <3> QED BY <2>2, <3>1
    <2> QED BY <2>1, <2>2
  <1>8. p * h = m * h /\ q * h = e * h /\ e \in Int /\ q \in Int
    BY <1>5, <1>6 DEF Denominators
  <1> HIDE DEF h
  <1>9. p = m /\ q = e
    BY <1>7, <1>8
  <1> QED BY <1>1, <1>5, <1>9

\* Equal quotients are the same fraction, and only they.
LEMMA OverEqual ==
  ASSUME NEW n \in Int, NEW d \in Denominators, NEW m \in Int, NEW e \in Denominators
  PROVE  Over(n, d) = Over(m, e) <=> n * e = m * d
  <1>1. ASSUME n * e = m * d PROVE Over(n, d) = Over(m, e)
    <2>1. Over(e * n, e * d) = Over(n, d) /\ Over(d * m, d * e) = Over(m, e)
      BY OverScale
    <2>2. e * n = d * m /\ e * d = d * e
      BY <1>1 DEF Denominators
    <2> QED BY <2>1, <2>2
  <1>2. ASSUME Over(n, d) = Over(m, e) PROVE n * e = m * d
    <2>1. PICK p \in Int, q \in Denominators : p * d = n * q /\ p * e = m * q
      <3>1. /\ Over(n, d) \in Int \X Denominators
            /\ Over(n, d)[1] * d = n * Over(n, d)[2]
            /\ Over(m, e)[1] * e = m * Over(m, e)[2]
        BY OverValue
      <3>2. Over(n, d)[1] \in Int /\ Over(n, d)[2] \in Denominators
        BY <3>1
      <3> QED BY <1>2, <3>1, <3>2
    <2>2. (n * e) * q = (m * d) * q
      <3>1. (n * e) * q = (n * q) * e /\ (m * d) * q = (m * q) * d /\ (p * d) * e = (p * e) * d
        BY DEF Denominators
      <3> QED BY <2>1, <3>1
    <2> DEFINE X == n * e
               Y == m * d
    <2>3. X \in Int /\ Y \in Int /\ q \in Nat \ {0} /\ X * q = Y * q
      BY <2>2 DEF Denominators
    <2> HIDE DEF X, Y
    <2>4. (X * q) \div q = X /\ (Y * q) \div q = Y
      BY <2>3, ExactDivision
    <2> QED BY <2>3, <2>4 DEF X, Y
  <1> QED BY <1>1, <1>2

\* The fractions: quotients in lowest terms.
Fractions == {x \in Int \X Denominators : Over(x[1], x[2]) = x}

LEMMA ProductOfDenominators == \A d, e \in Denominators : d * e \in Denominators
  <1>1. \A x, y \in Nat \ {0} : x * y \in Nat \ {0}
    OBVIOUS
  <1> QED BY <1>1 DEF Denominators

\* Over makes fractions.
LEMMA OverType == \A n \in Int, d \in Denominators : Over(n, d) \in Fractions
  <1> SUFFICES ASSUME NEW n \in Int, NEW d \in Denominators PROVE Over(n, d) \in Fractions
    OBVIOUS
  <1> DEFINE x == Over(n, d)
  <1>1. x \in Int \X Denominators /\ x[1] * d = n * x[2]
    BY OverValue
  <1>2. x[1] \in Int /\ x[2] \in Denominators
    BY <1>1
  <1>3. Over(x[1], x[2]) = Over(n, d)
    <2> HIDE DEF x
    <2> QED BY <1>1, <1>2, OverEqual
  <1> QED BY <1>1, <1>3 DEF Fractions

LEMMA FractionParts ==
  \A x \in Fractions : x[1] \in Int /\ x[2] \in Denominators /\ x[2] \in Nat /\ x[2] > 0
                     /\ Over(x[1], x[2]) = x
  BY DEF Fractions, Denominators

\* Whole numbers are fractions.
LEMMA WholeIsOver == \A n \in Int : Whole(n) \in Fractions /\ Whole(n) = Over(n, 1)
  <1> SUFFICES ASSUME NEW n \in Int PROVE Whole(n) = Over(n, 1)
    BY OverType DEF Denominators
  <1>1. PICK m \in Int, e \in Denominators, g \in Denominators :
           g = Gcd[<<Magnitude(n), 1>>] /\ n = m * g /\ 1 = e * g /\ Over(n, 1) = <<m, e>>
    BY OverParts DEF Denominators
  <1>2. e = 1 /\ g = 1
    <2>1. g \in Nat /\ e \in Nat /\ g > 0 /\ e > 0
      BY DEF Denominators
    <2>2. g >= 2 => e * g >= 2 * e
      BY <2>1
    <2>3. e >= 2 => e * g >= 2 * g
      BY <2>1
    <2> QED BY <1>1, <2>1, <2>2, <2>3
  <1> QED BY <1>1, <1>2 DEF Whole

(***************************************************************************)
(* The operations on any two quotients, without the lowest terms.          *)
(***************************************************************************)
\* The quotient n / d is p / q.
SameValue(n, d, p, q) == p * d = n * q

LEMMA Representation ==
  \A n \in Int, d \in Denominators :
     \E p \in Int, q \in Denominators : Over(n, d) = <<p, q>> /\ SameValue(n, d, p, q)
  <1> SUFFICES ASSUME NEW n \in Int, NEW d \in Denominators
               PROVE  \E p \in Int, q \in Denominators : Over(n, d) = <<p, q>> /\ SameValue(n, d, p, q)
    OBVIOUS
  <1> DEFINE x == Over(n, d)
  <1>1. x \in Int \X Denominators /\ x[1] * d = n * x[2]
    BY OverValue
  <1>2. x = <<x[1], x[2]>> /\ x[1] \in Int /\ x[2] \in Denominators
    BY <1>1
  <1> HIDE DEF x
  <1>3. x = <<x[1], x[2]>> /\ SameValue(n, d, x[1], x[2])
    BY <1>1, <1>2 DEF SameValue
  <1> QED BY <1>2, <1>3 DEF x

LEMMA SumOfOvers ==
  ASSUME NEW n \in Int, NEW d \in Denominators, NEW m \in Int, NEW e \in Denominators
  PROVE  /\ Plus(Over(n, d), Over(m, e)) = Over(n * e + m * d, d * e)
         /\ Minus(Over(n, d), Over(m, e)) = Over(n * e - m * d, d * e)
         /\ Times(Over(n, d), Over(m, e)) = Over(n * m, d * e)
  <1>1. PICK p \in Int, q \in Denominators : Over(n, d) = <<p, q>> /\ SameValue(n, d, p, q)
    BY Representation
  <1>2. PICK r \in Int, s \in Denominators : Over(m, e) = <<r, s>> /\ SameValue(m, e, r, s)
    BY Representation
  <1>3. /\ Plus(Over(n, d), Over(m, e)) = Over(p * s + r * q, q * s)
        /\ Minus(Over(n, d), Over(m, e)) = Over(p * s - r * q, q * s)
        /\ Times(Over(n, d), Over(m, e)) = Over(p * r, q * s)
    BY <1>1, <1>2 DEF Plus, Minus, Times
  <1>4. d \in Int /\ e \in Int /\ q \in Int /\ s \in Int
    BY DEF Denominators
  <1>5. (p * s) * (d * e) = (n * e) * (q * s)
    <2>1. (p * s) * (d * e) = (p * d) * (s * e) /\ (n * e) * (q * s) = (n * q) * (s * e)
      BY <1>4
    <2> QED BY <1>1, <2>1 DEF SameValue
  <1>6. (r * q) * (d * e) = (m * d) * (q * s)
    <2>1. (r * q) * (d * e) = (r * e) * (q * d) /\ (m * d) * (q * s) = (m * s) * (q * d)
      BY <1>4
    <2> QED BY <1>2, <2>1 DEF SameValue
  <1>7. (p * r) * (d * e) = (n * m) * (q * s)
    <2>1. (p * r) * (d * e) = (p * d) * (r * e) /\ (n * m) * (q * s) = (n * q) * (m * s)
      BY <1>4
    <2> QED BY <1>1, <1>2, <2>1 DEF SameValue
  <1> DEFINE D == d * e
             Q == q * s
             a == p * s
             b == r * q
             A == n * e
             B == m * d
             c == p * r
             C == n * m
  <1>8. /\ D \in Denominators /\ Q \in Denominators /\ D \in Int /\ Q \in Int
        /\ a \in Int /\ b \in Int /\ A \in Int /\ B \in Int /\ c \in Int /\ C \in Int
    BY <1>4, ProductOfDenominators
  <1>9. a * D = A * Q /\ b * D = B * Q /\ c * D = C * Q
    BY <1>5, <1>6, <1>7
  <1> HIDE DEF D, Q, a, b, A, B, c, C
  <1>10. (a + b) * D = (A + B) * Q /\ (a - b) * D = (A - B) * Q
    <2>1. /\ (a + b) * D = a * D + b * D /\ (A + B) * Q = A * Q + B * Q
          /\ (a - b) * D = a * D - b * D /\ (A - B) * Q = A * Q - B * Q
      BY <1>8
    <2> QED BY <1>9, <2>1
  <1>11. a + b \in Int /\ A + B \in Int /\ a - b \in Int /\ A - B \in Int
    BY <1>8
  <1>12. Over(a + b, Q) = Over(A + B, D) /\ Over(a - b, Q) = Over(A - B, D) /\ Over(c, Q) = Over(C, D)
    BY <1>8, <1>9, <1>10, <1>11, OverEqual
  <1> QED BY <1>3, <1>12 DEF D, Q, a, b, A, B, c, C

\* Comparison by cross-multiplication.
LEMMA LessOvers ==
  ASSUME NEW n \in Int, NEW d \in Denominators, NEW m \in Int, NEW e \in Denominators
  PROVE  Less(Over(n, d), Over(m, e)) <=> n * e < m * d
  <1>1. PICK p \in Int, q \in Denominators : Over(n, d) = <<p, q>> /\ SameValue(n, d, p, q)
    BY Representation
  <1>2. PICK r \in Int, s \in Denominators : Over(m, e) = <<r, s>> /\ SameValue(m, e, r, s)
    BY Representation
  <1>3. Less(Over(n, d), Over(m, e)) <=> p * s < r * q
    BY <1>1, <1>2 DEF Less
  <1>4. d \in Int /\ e \in Int /\ q \in Int /\ s \in Int
    BY DEF Denominators
  <1>5. (p * s) * (d * e) = (n * e) * (q * s)
    <2>1. (p * s) * (d * e) = (p * d) * (s * e) /\ (n * e) * (q * s) = (n * q) * (s * e)
      BY <1>4
    <2> QED BY <1>1, <2>1 DEF SameValue
  <1>6. (r * q) * (d * e) = (m * d) * (q * s)
    <2>1. (r * q) * (d * e) = (r * e) * (q * d) /\ (m * d) * (q * s) = (m * s) * (q * d)
      BY <1>4
    <2> QED BY <1>2, <2>1 DEF SameValue
  <1> DEFINE D == d * e
             Q == q * s
             a == p * s
             b == r * q
             A == n * e
             B == m * d
  <1>8. /\ D \in Denominators /\ Q \in Denominators
        /\ a \in Int /\ b \in Int /\ A \in Int /\ B \in Int
    BY <1>4, ProductOfDenominators
  <1>9. a * D = A * Q /\ b * D = B * Q
    BY <1>5, <1>6
  <1> HIDE DEF D, Q, a, b, A, B
  <1>10. a < b <=> A < B
    <2>1. \A x, y \in Int, k \in Nat \ {0} : x < y => x * k < y * k
      <3> SUFFICES ASSUME NEW x \in Int, NEW y \in Int, NEW k \in Nat \ {0}, x < y PROVE x * k < y * k
        OBVIOUS
      <3>1. y - x > 0 /\ (y - x) * k > 0 /\ (y - x) * k = y * k - x * k
        OBVIOUS
      <3> QED BY <3>1
    <2>2. D \in Nat \ {0} /\ Q \in Nat \ {0}
      BY <1>8 DEF Denominators
    <2>3. a < b => a * D < b * D
      BY <1>8, <2>1, <2>2
    <2>4. b < a => b * D < a * D
      BY <1>8, <2>1, <2>2
    <2>5. A < B => A * Q < B * Q
      BY <1>8, <2>1, <2>2
    <2>6. B < A => B * Q < A * Q
      BY <1>8, <2>1, <2>2
    <2>7. a * D \in Int /\ b * D \in Int
      BY <1>8, <2>2
    <2> QED BY <1>8, <1>9, <2>3, <2>4, <2>5, <2>6, <2>7
  <1> QED BY <1>3, <1>10 DEF a, b, A, B

(***************************************************************************)
(* The laws of addition and multiplication.                                *)
(***************************************************************************)
\* The operations on fractions, in terms of their parts.
LEMMA FractionOperations ==
  ASSUME NEW x \in Fractions, NEW y \in Fractions
  PROVE  /\ Plus(x, y) = Over(x[1] * y[2] + y[1] * x[2], x[2] * y[2])
         /\ Minus(x, y) = Over(x[1] * y[2] - y[1] * x[2], x[2] * y[2])
         /\ Times(x, y) = Over(x[1] * y[1], x[2] * y[2])
         /\ x[1] * y[2] + y[1] * x[2] \in Int /\ x[1] * y[2] - y[1] * x[2] \in Int
         /\ x[1] * y[1] \in Int /\ x[2] * y[2] \in Denominators
         /\ Plus(x, y) \in Fractions /\ Minus(x, y) \in Fractions /\ Times(x, y) \in Fractions
  <1>1. /\ x[1] \in Int /\ x[2] \in Denominators /\ x[2] \in Nat
        /\ y[1] \in Int /\ y[2] \in Denominators /\ y[2] \in Nat
    BY FractionParts
  <1> DEFINE D == x[2] * y[2]
             s == x[1] * y[2] + y[1] * x[2]
             m == x[1] * y[2] - y[1] * x[2]
             p == x[1] * y[1]
  <1>2. s \in Int /\ m \in Int /\ p \in Int /\ D \in Denominators
    BY <1>1, ProductOfDenominators
  <1>3. Plus(x, y) = Over(s, D) /\ Minus(x, y) = Over(m, D) /\ Times(x, y) = Over(p, D)
    BY DEF Plus, Minus, Times
  <1> HIDE DEF D, s, m, p
  <1>4. Over(s, D) \in Fractions /\ Over(m, D) \in Fractions /\ Over(p, D) \in Fractions
    BY <1>2, OverType
  <1> QED BY <1>2, <1>3, <1>4 DEF D, s, m, p

LEMMA WholeOperations ==
  \A a, b \in Int : /\ Plus(Whole(a), Whole(b)) = Whole(a + b)
                    /\ Minus(Whole(a), Whole(b)) = Whole(a - b)
                    /\ Times(Whole(a), Whole(b)) = Whole(a * b)
                    /\ Scale(a, Whole(b)) = Whole(a * b)
  <1> SUFFICES ASSUME NEW a \in Int, NEW b \in Int
               PROVE  /\ Plus(Whole(a), Whole(b)) = Whole(a + b)
                      /\ Minus(Whole(a), Whole(b)) = Whole(a - b)
                      /\ Times(Whole(a), Whole(b)) = Whole(a * b)
    BY DEF Scale
  <1>1. /\ Plus(Whole(a), Whole(b)) = Over(a * 1 + b * 1, 1 * 1)
        /\ Minus(Whole(a), Whole(b)) = Over(a * 1 - b * 1, 1 * 1)
        /\ Times(Whole(a), Whole(b)) = Over(a * b, 1 * 1)
    BY DEF Plus, Minus, Times, Whole
  <1>2. a * 1 + b * 1 = a + b /\ a * 1 - b * 1 = a - b /\ 1 * 1 = 1
    OBVIOUS
  <1>3. a + b \in Int /\ a - b \in Int /\ a * b \in Int
    OBVIOUS
  <1> QED BY <1>1, <1>2, <1>3, WholeIsOver

LEMMA PlusLaws ==
  /\ \A x, y \in Fractions : Plus(x, y) \in Fractions /\ Plus(x, y) = Plus(y, x)
  /\ \A x, y, z \in Fractions : Plus(Plus(x, y), z) = Plus(x, Plus(y, z))
  /\ \A x \in Fractions : Plus(x, Zero) = x /\ Plus(Zero, x) = x
  /\ Zero \in Fractions
  <1>1. ASSUME NEW x \in Fractions, NEW y \in Fractions
        PROVE  Plus(x, y) \in Fractions /\ Plus(x, y) = Plus(y, x)
    <2>1. x[1] \in Int /\ x[2] \in Int /\ y[1] \in Int /\ y[2] \in Int
      BY FractionParts
    <2>2. x[1] * y[2] + y[1] * x[2] = y[1] * x[2] + x[1] * y[2] /\ x[2] * y[2] = y[2] * x[2]
      BY <2>1
    <2> QED BY <2>2, FractionOperations DEF Plus
  <1>2. ASSUME NEW x \in Fractions, NEW y \in Fractions, NEW z \in Fractions
        PROVE  Plus(Plus(x, y), z) = Plus(x, Plus(y, z))
    <2>1. /\ x[1] \in Int /\ x[2] \in Int /\ y[1] \in Int /\ y[2] \in Int /\ z[1] \in Int /\ z[2] \in Int
          /\ x[2] \in Denominators /\ z[2] \in Denominators
          /\ x = Over(x[1], x[2]) /\ z = Over(z[1], z[2])
      BY FractionParts
    <2> DEFINE N == x[1] * y[2] + y[1] * x[2]
               D == x[2] * y[2]
               M == y[1] * z[2] + z[1] * y[2]
               E == y[2] * z[2]
    <2>2. /\ Plus(x, y) = Over(N, D) /\ N \in Int /\ D \in Denominators
          /\ Plus(y, z) = Over(M, E) /\ M \in Int /\ E \in Denominators
      BY FractionOperations
    <2>3. N * z[2] + z[1] * D = x[1] * E + M * x[2] /\ D * z[2] = x[2] * E
      BY <2>1
    <2> HIDE DEF N, D, M, E
    <2>4. /\ Plus(Over(N, D), Over(z[1], z[2])) = Over(N * z[2] + z[1] * D, D * z[2])
          /\ Plus(Over(x[1], x[2]), Over(M, E)) = Over(x[1] * E + M * x[2], x[2] * E)
      BY <2>1, <2>2, SumOfOvers
    <2> QED BY <2>1, <2>2, <2>3, <2>4
  <1>3. Zero \in Fractions
    BY WholeIsOver DEF Zero
  <1>4. ASSUME NEW x \in Fractions PROVE Plus(x, Zero) = x
    <2>1. x[1] \in Int /\ x[2] \in Int /\ x = Over(x[1], x[2])
      BY FractionParts
    <2>2. x[1] * 1 + 0 * x[2] = x[1] /\ x[2] * 1 = x[2]
      BY <2>1
    <2> QED BY <2>1, <2>2 DEF Plus, Zero, Whole
  <1> QED BY <1>1, <1>2, <1>3, <1>4

LEMMA TimesLaws ==
  /\ \A x, y \in Fractions : Times(x, y) \in Fractions /\ Times(x, y) = Times(y, x)
  /\ \A x, y, z \in Fractions : Times(x, Plus(y, z)) = Plus(Times(x, y), Times(x, z))
  /\ \A x \in Fractions : Times(x, Zero) = Zero /\ Times(Zero, x) = Zero
  <1>1. ASSUME NEW x \in Fractions, NEW y \in Fractions
        PROVE  Times(x, y) \in Fractions /\ Times(x, y) = Times(y, x)
    <2>1. x[1] \in Int /\ x[2] \in Int /\ y[1] \in Int /\ y[2] \in Int
      BY FractionParts
    <2>2. x[1] * y[1] = y[1] * x[1] /\ x[2] * y[2] = y[2] * x[2]
      BY <2>1
    <2> QED BY <2>2, FractionOperations DEF Times
  <1>2. ASSUME NEW x \in Fractions, NEW y \in Fractions, NEW z \in Fractions
        PROVE  Times(x, Plus(y, z)) = Plus(Times(x, y), Times(x, z))
    <2>1. /\ x[1] \in Int /\ x[2] \in Int /\ y[1] \in Int /\ y[2] \in Int /\ z[1] \in Int /\ z[2] \in Int
          /\ x[2] \in Denominators /\ x = Over(x[1], x[2])
      BY FractionParts
    <2> DEFINE N == y[1] * z[2] + z[1] * y[2]
               D == y[2] * z[2]
               P == x[1] * y[1]
               Q == x[2] * y[2]
               R == x[1] * z[1]
               S == x[2] * z[2]
    <2>2. /\ Plus(y, z) = Over(N, D) /\ N \in Int /\ D \in Denominators
          /\ Times(x, y) = Over(P, Q) /\ P \in Int /\ Q \in Denominators
          /\ Times(x, z) = Over(R, S) /\ R \in Int /\ S \in Denominators
      BY FractionOperations
    <2>3. P * S + R * Q = x[2] * (x[1] * N) /\ Q * S = x[2] * (x[2] * D)
      BY <2>1
    <2>4. x[1] * N \in Int /\ x[2] * D \in Denominators
      <3> HIDE DEF N, D
      <3> QED BY <2>1, <2>2, ProductOfDenominators
    <2> HIDE DEF N, D, P, Q, R, S
    <2>5. /\ Times(Over(x[1], x[2]), Over(N, D)) = Over(x[1] * N, x[2] * D)
          /\ Plus(Over(P, Q), Over(R, S)) = Over(P * S + R * Q, Q * S)
      BY <2>1, <2>2, SumOfOvers
    <2>6. Over(x[2] * (x[1] * N), x[2] * (x[2] * D)) = Over(x[1] * N, x[2] * D)
      BY <2>1, <2>4, OverScale
    <2> QED BY <2>1, <2>2, <2>3, <2>5, <2>6
  <1>3. ASSUME NEW x \in Fractions PROVE Times(x, Zero) = Zero
    <2>1. x[1] \in Int /\ x[2] \in Int /\ x[2] \in Denominators
      BY FractionParts
    <2>2. x[1] * 0 = 0 /\ x[2] * 1 = x[2]
      BY <2>1
    <2>3. Over(0, x[2]) = Over(0, 1)
      <3>1. 0 * 1 = 0 * x[2] /\ 1 \in Denominators /\ 0 \in Int
        BY <2>1 DEF Denominators
      <3> QED BY <2>1, <3>1, OverEqual
    <2>4. Over(0, 1) = Zero
      BY WholeIsOver DEF Zero
    <2> QED BY <2>2, <2>3, <2>4 DEF Times, Zero, Whole
  <1>4. Zero \in Fractions
    BY WholeIsOver DEF Zero
  <1> QED BY <1>1, <1>2, <1>3, <1>4

\* What is added to a difference, and what is moved between its sides.
LEMMA DifferenceLaws ==
  /\ \A c, r, w \in Fractions : Minus(Plus(c, w), r) = Plus(Minus(c, r), w)
  /\ \A c, r, w, s \in Fractions : Minus(Minus(c, s), Plus(r, Minus(w, s))) = Minus(Minus(c, r), w)
  /\ \A x \in Fractions : Minus(x, Zero) = x
  <1>1. ASSUME NEW c \in Fractions, NEW r \in Fractions, NEW w \in Fractions
        PROVE  Minus(Plus(c, w), r) = Plus(Minus(c, r), w)
    <2>1. /\ c[1] \in Int /\ c[2] \in Int /\ r[1] \in Int /\ r[2] \in Int /\ w[1] \in Int /\ w[2] \in Int
          /\ r[2] \in Denominators /\ w[2] \in Denominators
          /\ r = Over(r[1], r[2]) /\ w = Over(w[1], w[2])
      BY FractionParts
    <2> DEFINE N == c[1] * w[2] + w[1] * c[2]
               D == c[2] * w[2]
               M == c[1] * r[2] - r[1] * c[2]
               E == c[2] * r[2]
    <2>2. /\ Plus(c, w) = Over(N, D) /\ N \in Int /\ D \in Denominators
          /\ Minus(c, r) = Over(M, E) /\ M \in Int /\ E \in Denominators
      BY FractionOperations
    <2>3. N * r[2] - r[1] * D = M * w[2] + w[1] * E /\ D * r[2] = E * w[2]
      BY <2>1
    <2> HIDE DEF N, D, M, E
    <2>4. /\ Minus(Over(N, D), Over(r[1], r[2])) = Over(N * r[2] - r[1] * D, D * r[2])
          /\ Plus(Over(M, E), Over(w[1], w[2])) = Over(M * w[2] + w[1] * E, E * w[2])
      BY <2>1, <2>2, SumOfOvers
    <2> QED BY <2>1, <2>2, <2>3, <2>4
  <1>2. ASSUME NEW c \in Fractions, NEW r \in Fractions, NEW w \in Fractions, NEW s \in Fractions
        PROVE  Minus(Minus(c, s), Plus(r, Minus(w, s))) = Minus(Minus(c, r), w)
    <2>1. /\ c[1] \in Int /\ c[2] \in Int /\ r[1] \in Int /\ r[2] \in Int /\ w[1] \in Int /\ w[2] \in Int
          /\ s[1] \in Int /\ s[2] \in Int /\ s[2] \in Denominators
          /\ r[2] \in Denominators /\ w[2] \in Denominators
          /\ r = Over(r[1], r[2]) /\ w = Over(w[1], w[2])
      BY FractionParts
    <2> DEFINE N == c[1] * s[2] - s[1] * c[2]
               D == c[2] * s[2]
               M == w[1] * s[2] - s[1] * w[2]
               E == w[2] * s[2]
               P == r[1] * E + M * r[2]
               Q == r[2] * E
               R == c[1] * r[2] - r[1] * c[2]
               S == c[2] * r[2]
               X == R * w[2] - w[1] * S
               Y == S * w[2]
               k == s[2] * s[2]
    <2>2. /\ Minus(c, s) = Over(N, D) /\ N \in Int /\ D \in Denominators
          /\ Minus(w, s) = Over(M, E) /\ M \in Int /\ E \in Denominators
          /\ Minus(c, r) = Over(R, S) /\ R \in Int /\ S \in Denominators
      BY FractionOperations
    <2>3. N * Q - P * D = k * X /\ D * Q = k * Y
      BY <2>1
    <2>4. P \in Int /\ Q \in Denominators /\ X \in Int /\ Y \in Denominators /\ k \in Denominators
      <3> HIDE DEF M, E, R, S
      <3>1. E \in Int /\ S \in Int
        BY <2>2 DEF Denominators
      <3>2. P \in Int /\ X \in Int
        BY <2>1, <2>2, <3>1
      <3>3. Q \in Denominators /\ Y \in Denominators /\ k \in Denominators
        BY <2>1, <2>2, ProductOfDenominators
      <3> QED BY <3>2, <3>3
    <2>5. Plus(r, Minus(w, s)) = Over(P, Q)
      <3> HIDE DEF M, E
      <3> QED BY <2>1, <2>2, SumOfOvers
    <2>6. Minus(Minus(c, r), w) = Over(X, Y)
      <3> HIDE DEF R, S
      <3> QED BY <2>1, <2>2, SumOfOvers
    <2> HIDE DEF N, D, P, Q, X, Y, k
    <2>7. Minus(Over(N, D), Over(P, Q)) = Over(N * Q - P * D, D * Q)
      BY <2>2, <2>4, SumOfOvers
    <2>8. Over(k * X, k * Y) = Over(X, Y)
      BY <2>4, OverScale
    <2> QED BY <2>2, <2>3, <2>5, <2>6, <2>7, <2>8
  <1>3. ASSUME NEW x \in Fractions PROVE Minus(x, Zero) = x
    <2>1. x[1] \in Int /\ x[2] \in Int /\ x = Over(x[1], x[2])
      BY FractionParts
    <2>2. x[1] * 1 - 0 * x[2] = x[1] /\ x[2] * 1 = x[2]
      BY <2>1
    <2> QED BY <2>1, <2>2 DEF Minus, Zero, Whole
  <1> QED BY <1>1, <1>2, <1>3

-----------------------------------------------------------------------------
(***************************************************************************)
(* Sums of fractions.                                                      *)
(***************************************************************************)
RatioSum(g, S) == FoldFunctionOnSet(Plus, Zero, g, S)

IsTotal(h, g, S) ==
    h = [w \in SUBSET S |-> IF w = {} THEN Zero ELSE Plus(g[Pick(w)], h[w \ {Pick(w)}])]

LEMMA TotalIsTotal == \A g, S : RatioSum(g, S) = (CHOOSE h : IsTotal(h, g, S))[S]
  BY DEF RatioSum, FoldFunctionOnSet, MapThenFoldSet, IsTotal, Pick

Addends(g, S) == IsFiniteSet(S) /\ \A x \in S : g[x] \in Fractions

LEMMA TotalExists ==
  ASSUME NEW g, NEW S, Addends(g, S)
  PROVE  \E h \in [SUBSET S -> Fractions] : IsTotal(h, g, S)
  <1> DEFINE V == Fractions
             F == [x \in S |-> [v \in V |-> Plus(g[x], v)]]
             c == [w \in SUBSET S |-> Pick(w)]
  <1>1. F \in [S -> [V -> V]] /\ Zero \in V
    BY PlusLaws DEF Addends
  <1>2. Takes(c, S) /\ IsFiniteSet(S)
    BY Picked DEF Takes, Addends
  <1>3. PICK h \in [SUBSET S -> V] : IsFold(h, S, c, F, Zero)
    <2> HIDE DEF F, c, V
    <2> QED BY <1>1, <1>2, FoldExists
  <1>4. ASSUME NEW w \in SUBSET S
        PROVE  h[w] = IF w = {} THEN Zero ELSE Plus(g[Pick(w)], h[w \ {Pick(w)}])
    <2>1. CASE w = {}
      BY <1>3, <2>1 DEF IsFold
    <2>2. CASE w # {}
      <3>1. h[w] = F[c[w]][h[w \ {c[w]}]] /\ h[w \ {c[w]}] \in V
        <4> HIDE DEF F, c, V
        <4> QED BY <1>3, <2>2 DEF IsFold
      <3>2. c[w] \in S /\ c[w] = Pick(w)
        BY <2>2, Picked
      <3>3. F[c[w]][h[w \ {c[w]}]] = Plus(g[c[w]], h[w \ {c[w]}])
        <4> HIDE DEF c, V
        <4> QED BY <3>1, <3>2
      <3> HIDE DEF F, c, V
      <3> QED BY <2>2, <3>1, <3>2, <3>3
    <2> QED BY <2>1, <2>2
  <1>5. IsTotal(h, g, S)
    <2>1. h = [w \in SUBSET S |-> h[w]]
      OBVIOUS
    <2> QED BY <1>4, <2>1 DEF IsTotal
  <1> QED BY <1>5

\* The sum is the picked element and the sum of the rest, and a fraction.
LEMMA TotalUnfold ==
  ASSUME NEW g, NEW S, Addends(g, S)
  PROVE  /\ RatioSum(g, {}) = Zero
         /\ \A w \in SUBSET S : RatioSum(g, w) \in Fractions
         /\ \A w \in SUBSET S : w # {} => RatioSum(g, w) = Plus(g[Pick(w)], RatioSum(g, w \ {Pick(w)}))
  <1>1. PICK h \in [SUBSET S -> Fractions] : IsTotal(h, g, S)
    BY TotalExists
  <1>2. ASSUME NEW w \in SUBSET S PROVE RatioSum(g, w) = h[w]
    <2> DEFINE k == CHOOSE j : IsTotal(j, g, w)
               c == [v \in SUBSET w |-> Pick(v)]
    <2>1. Addends(g, w) /\ IsFiniteSet(w)
      BY FS_Subset DEF Addends
    <2>2. \E j : IsTotal(j, g, w)
      BY <2>1, TotalExists
    <2>3. IsTotal(k, g, w)
      BY <2>2
    <2> HIDE DEF k
    <2>4. AgreeByStep(h, k, w, c)
      <3>1. {} \in SUBSET S /\ {} \in SUBSET w
        OBVIOUS
      <3>2. h[{}] = k[{}]
        BY <1>1, <2>3, <3>1 DEF IsTotal
      <3>3. \A v \in SUBSET w : v # {} => c[v] \in v /\ c[v] = Pick(v)
        BY Picked
      <3>4. ASSUME NEW v \in SUBSET w, v # {}, h[v \ {Pick(v)}] = k[v \ {Pick(v)}] PROVE h[v] = k[v]
        BY <1>1, <2>3, <3>4 DEF IsTotal
      <3> HIDE DEF c
      <3> QED BY <3>2, <3>3, <3>4 DEF AgreeByStep
    <2>5. h[w] = k[w]
      <3> HIDE DEF c
      <3> QED BY <2>1, <2>4, SameFold
    <2> QED BY <2>5, TotalIsTotal DEF k
  <1>3. {} \in SUBSET S
    OBVIOUS
  <1>4. h[{}] = Zero /\ \A w \in SUBSET S : w # {} => h[w] = Plus(g[Pick(w)], h[w \ {Pick(w)}])
    BY <1>1, <1>3 DEF IsTotal
  <1>5. \A w \in SUBSET S : w \ {Pick(w)} \in SUBSET S /\ h[w] \in Fractions
    BY <1>1
  <1> QED BY <1>2, <1>3, <1>4, <1>5

LEMMA AddendsOfPart == \A g, S, w : Addends(g, S) /\ w \subseteq S => Addends(g, w)
  BY FS_Subset DEF Addends

\* In whatever order.
LEMMA TotalRemove ==
  ASSUME NEW g, NEW S, Addends(g, S)
  PROVE  \A x \in S : RatioSum(g, S) = Plus(g[x], RatioSum(g, S \ {x}))
  <1> DEFINE bad == {w \in SUBSET S : \E x \in w : RatioSum(g, w) # Plus(g[x], RatioSum(g, w \ {x}))}
  <1>1. SUFFICES ASSUME bad # {} PROVE FALSE
    OBVIOUS
  <1>2. PICK m \in bad : \A w \in bad : w \subseteq m => w = m
    <2>1. bad \subseteq SUBSET S /\ IsFiniteSet(S)
      BY DEF Addends
    <2> HIDE DEF bad
    <2> QED BY <1>1, <2>1, MinimalSubset
  <1>3. PICK x \in m : RatioSum(g, m) # Plus(g[x], RatioSum(g, m \ {x}))
    OBVIOUS
  <1> DEFINE p == Pick(m)
  <1>4. p \in m /\ m \subseteq S /\ m \in SUBSET S
    BY <1>3, Picked
  <1>5. RatioSum(g, m) = Plus(g[p], RatioSum(g, m \ {p}))
    BY <1>3, <1>4, TotalUnfold
  <1> HIDE DEF p
  <1>6. p # x
    BY <1>3, <1>5
  <1> DEFINE r == m \ {p, x}
  <1>7. RatioSum(g, m \ {p}) = Plus(g[x], RatioSum(g, r))
    <2>1. m \ {p} \notin bad
      BY <1>2, <1>4
    <2>2. x \in m \ {p} /\ (m \ {p}) \ {x} = r /\ m \ {p} \in SUBSET S
      BY <1>4, <1>6
    <2> QED BY <2>1, <2>2
  <1>8. RatioSum(g, m \ {x}) = Plus(g[p], RatioSum(g, r))
    <2>1. m \ {x} \notin bad
      BY <1>2, <1>3
    <2>2. p \in m \ {x} /\ (m \ {x}) \ {p} = r /\ m \ {x} \in SUBSET S
      BY <1>4, <1>6
    <2> QED BY <2>1, <2>2
  <1>9. g[p] \in Fractions /\ g[x] \in Fractions /\ RatioSum(g, r) \in Fractions
    <2>1. r \in SUBSET S /\ x \in S /\ p \in S
      BY <1>4
    <2> QED BY <2>1, TotalUnfold DEF Addends
  <1> HIDE DEF bad, r
  <1>10. Plus(g[p], Plus(g[x], RatioSum(g, r))) = Plus(g[x], Plus(g[p], RatioSum(g, r)))
    <2> DEFINE a == g[p]
               b == g[x]
               t == RatioSum(g, r)
    <2> HIDE DEF a, b, t
    <2>1. a \in Fractions /\ b \in Fractions /\ t \in Fractions
      BY <1>9 DEF a, b, t
    <2>2. Plus(Plus(a, b), t) = Plus(a, Plus(b, t)) /\ Plus(Plus(b, a), t) = Plus(b, Plus(a, t))
          /\ Plus(a, b) = Plus(b, a)
      BY <2>1, PlusLaws
    <2> QED BY <2>2 DEF a, b, t
  <1> QED BY <1>3, <1>5, <1>7, <1>8, <1>10

LEMMA TotalAdd ==
  ASSUME NEW g, NEW S, NEW x, x \notin S, Addends(g, S \cup {x})
  PROVE  /\ RatioSum(g, S \cup {x}) = Plus(g[x], RatioSum(g, S))
         /\ RatioSum(g, S) \in Fractions /\ g[x] \in Fractions
  <1> DEFINE T == S \cup {x}
  <1>1. T \ {x} = S /\ x \in T /\ S \in SUBSET T
    OBVIOUS
  <1> HIDE DEF T
  <1>2. Addends(g, T)
    BY DEF T
  <1>3. RatioSum(g, T) = Plus(g[x], RatioSum(g, T \ {x})) /\ RatioSum(g, S) \in Fractions /\ g[x] \in Fractions
    BY <1>1, <1>2, TotalRemove, TotalUnfold DEF Addends
  <1> QED BY <1>1, <1>3 DEF T

\* It depends on the values on the set alone.
LEMMA TotalCong ==
  ASSUME NEW f, NEW g, NEW S, Addends(f, S), \A x \in S : f[x] = g[x]
  PROVE  RatioSum(f, S) = RatioSum(g, S)
  <1> DEFINE bad == {w \in SUBSET S : RatioSum(f, w) # RatioSum(g, w)}
  <1>0. Addends(g, S)
    BY DEF Addends
  <1>1. SUFFICES ASSUME bad # {} PROVE FALSE
    OBVIOUS
  <1>2. PICK m \in bad : \A w \in bad : w \subseteq m => w = m
    <2>1. bad \subseteq SUBSET S /\ IsFiniteSet(S)
      BY DEF Addends
    <2> HIDE DEF bad
    <2> QED BY <1>1, <2>1, MinimalSubset
  <1>3. m \in SUBSET S /\ m # {}
    <2>1. RatioSum(f, {}) = Zero /\ RatioSum(g, {}) = Zero
      BY <1>0, TotalUnfold
    <2> QED BY <2>1
  <1>4. /\ RatioSum(f, m) = Plus(f[Pick(m)], RatioSum(f, m \ {Pick(m)}))
        /\ RatioSum(g, m) = Plus(g[Pick(m)], RatioSum(g, m \ {Pick(m)}))
        /\ Pick(m) \in m
    BY <1>0, <1>3, TotalUnfold, Picked
  <1>5. RatioSum(f, m \ {Pick(m)}) = RatioSum(g, m \ {Pick(m)})
    BY <1>2, <1>4
  <1>6. f[Pick(m)] = g[Pick(m)]
    BY <1>3, <1>4
  <1> QED BY <1>2, <1>4, <1>5, <1>6

\* The sums of disjoint sets add up, and zeros add nothing.
LEMMA TotalUnion ==
  ASSUME NEW g, NEW S, NEW T, S \cap T = {}, Addends(g, S \cup T)
  PROVE  RatioSum(g, S \cup T) = Plus(RatioSum(g, S), RatioSum(g, T))
  <1> DEFINE bad == {w \in SUBSET T : RatioSum(g, S \cup w) # Plus(RatioSum(g, S), RatioSum(g, w))}
  <1>0. Addends(g, S) /\ Addends(g, T) /\ IsFiniteSet(T)
    <2>1. S \subseteq S \cup T /\ T \subseteq S \cup T
      OBVIOUS
    <2>2. Addends(g, S) /\ Addends(g, T)
      BY <2>1, AddendsOfPart
    <2> QED BY <2>2 DEF Addends
  <1>1. SUFFICES ASSUME bad # {} PROVE FALSE
    OBVIOUS
  <1>2. PICK m \in bad : \A w \in bad : w \subseteq m => w = m
    <2>1. bad \subseteq SUBSET T
      OBVIOUS
    <2> HIDE DEF bad
    <2> QED BY <1>0, <1>1, <2>1, MinimalSubset
  <1>3. RatioSum(g, S) \in Fractions
    BY <1>0, TotalUnfold
  <1>4. m # {}
    <2>1. RatioSum(g, {}) = Zero /\ S \cup {} = S
      BY <1>0, TotalUnfold
    <2>2. RatioSum(g, S \cup {}) = Plus(RatioSum(g, S), RatioSum(g, {}))
      BY <1>3, <2>1, PlusLaws
    <2> QED BY <2>2
  <1>5. PICK x \in m : TRUE
    BY <1>4
  <1> DEFINE u == m \ {x}
             W == S \cup u
  <1>6. x \notin W /\ W \cup {x} = S \cup m /\ u \cup {x} = m /\ u \in SUBSET T /\ x \notin u
        /\ W \cup {x} \subseteq S \cup T /\ u \cup {x} \subseteq S \cup T
    BY <1>5
  <1>7. RatioSum(g, W) = Plus(RatioSum(g, S), RatioSum(g, u))
    BY <1>2, <1>6
  <1> HIDE DEF u, W
  <1>8. Addends(g, W \cup {x}) /\ Addends(g, u \cup {x})
    BY <1>6, AddendsOfPart
  <1>9. /\ RatioSum(g, W \cup {x}) = Plus(g[x], RatioSum(g, W))
        /\ RatioSum(g, u \cup {x}) = Plus(g[x], RatioSum(g, u))
        /\ RatioSum(g, u) \in Fractions /\ g[x] \in Fractions
    BY <1>6, <1>8, TotalAdd
  <1>10. Plus(g[x], Plus(RatioSum(g, S), RatioSum(g, u))) = Plus(RatioSum(g, S), Plus(g[x], RatioSum(g, u)))
    <2> DEFINE a == g[x]
               b == RatioSum(g, S)
               t == RatioSum(g, u)
    <2> HIDE DEF a, b, t
    <2>1. a \in Fractions /\ b \in Fractions /\ t \in Fractions
      BY <1>3, <1>9 DEF a, b, t
    <2>2. Plus(Plus(a, b), t) = Plus(a, Plus(b, t)) /\ Plus(Plus(b, a), t) = Plus(b, Plus(a, t))
          /\ Plus(a, b) = Plus(b, a)
      BY <2>1, PlusLaws
    <2> QED BY <2>2 DEF a, b, t
  <1>11. RatioSum(g, S \cup m) = Plus(RatioSum(g, S), RatioSum(g, m))
    BY <1>6, <1>7, <1>9, <1>10
  <1> QED BY <1>2, <1>11

LEMMA TotalOfZeros ==
  ASSUME NEW g, NEW S, IsFiniteSet(S), \A x \in S : g[x] = Zero
  PROVE  RatioSum(g, S) = Zero
  <1> DEFINE bad == {w \in SUBSET S : RatioSum(g, w) # Zero}
  <1>0. Addends(g, S)
    BY PlusLaws DEF Addends
  <1>1. SUFFICES ASSUME bad # {} PROVE FALSE
    OBVIOUS
  <1>2. PICK m \in bad : \A w \in bad : w \subseteq m => w = m
    <2>1. bad \subseteq SUBSET S
      OBVIOUS
    <2> HIDE DEF bad
    <2> QED BY <1>1, <2>1, MinimalSubset
  <1>3. m \in SUBSET S /\ m # {}
    BY <1>0, TotalUnfold
  <1>4. RatioSum(g, m) = Plus(g[Pick(m)], RatioSum(g, m \ {Pick(m)})) /\ Pick(m) \in m
    BY <1>0, <1>3, TotalUnfold, Picked
  <1>5. RatioSum(g, m \ {Pick(m)}) = Zero /\ g[Pick(m)] = Zero
    BY <1>2, <1>3, <1>4
  <1> QED BY <1>2, <1>4, <1>5, PlusLaws

\* A part that holds all that is not zero has the sum of the whole.
THEOREM TotalOfPart ==
  ASSUME NEW g, NEW S, NEW T, T \subseteq S, Addends(g, S), \A x \in S \ T : g[x] = Zero
  PROVE  RatioSum(g, S) = RatioSum(g, T)
  <1> DEFINE R == S \ T
  <1>1. T \cup R = S /\ T \cap R = {}
    OBVIOUS
  <1>2. IsFiniteSet(R) /\ \A x \in R : g[x] = Zero
    BY FS_Subset DEF Addends
  <1> HIDE DEF R
  <1>3. RatioSum(g, R) = Zero
    BY <1>2, TotalOfZeros
  <1>4. RatioSum(g, S) = Plus(RatioSum(g, T), RatioSum(g, R))
    BY <1>1, TotalUnion
  <1>5. RatioSum(g, T) \in Fractions
    BY TotalUnfold
  <1> QED BY <1>3, <1>4, <1>5, PlusLaws

\* Whole numbers add up to the whole number of their sum.
THEOREM TotalOfWholes ==
  ASSUME NEW g, NEW f, NEW S, IsFiniteSet(S), \A x \in S : f[x] \in Int /\ g[x] = Whole(f[x])
  PROVE  RatioSum(g, S) = Whole(SumFunctionOnSet(f, S)) /\ SumFunctionOnSet(f, S) \in Int
  <1> DEFINE bad == {w \in SUBSET S : RatioSum(g, w) # Whole(SumFunctionOnSet(f, w))}
  <1>0. Addends(g, S)
    BY WholeIsOver DEF Addends
  <1>1. SumFunctionOnSet(f, S) \in Int
    BY SumOnSet
  <1>2. SUFFICES ASSUME bad # {} PROVE FALSE
    BY <1>1
  <1>3. PICK m \in bad : \A w \in bad : w \subseteq m => w = m
    <2>1. bad \subseteq SUBSET S
      OBVIOUS
    <2> HIDE DEF bad
    <2> QED BY <1>2, <2>1, MinimalSubset
  <1>4. m \in SUBSET S /\ m # {}
    <2>1. RatioSum(g, {}) = Zero /\ SumFunctionOnSet(f, {}) = 0
      BY <1>0, TotalUnfold, SumOnSet
    <2> QED BY <2>1 DEF Zero
  <1>5. PICK x \in m : TRUE
    BY <1>4
  <1> DEFINE u == m \ {x}
  <1>6. /\ IsFiniteSet(u) /\ u \cup {x} = m /\ x \notin u /\ u \subseteq m /\ u # m /\ u \subseteq S
        /\ f[x] \in Int /\ g[x] = Whole(f[x]) /\ \A y \in u : f[y] \in Int
    BY <1>4, <1>5, FS_Subset
  <1>7. RatioSum(g, u) = Whole(SumFunctionOnSet(f, u))
    BY <1>3, <1>6
  <1> HIDE DEF u
  <1>8. Addends(g, u \cup {x})
    BY <1>0, <1>4, <1>6, AddendsOfPart
  <1>9. RatioSum(g, u \cup {x}) = Plus(g[x], RatioSum(g, u))
    BY <1>6, <1>8, TotalAdd
  <1>10. SumFunctionOnSet(f, u \cup {x}) = SumFunctionOnSet(f, u) + f[x] /\ SumFunctionOnSet(f, u) \in Int
    <2>1. SumFunctionOnSet(f, u) \in Int
      BY <1>6, SumOnSet
    <2>2. SumFunctionOnSet(f, u \cup {x}) = SumFunctionOnSet(f, u) + f[x]
      BY <1>6, SumWith
    <2> QED BY <2>1, <2>2
  <1>11. Plus(Whole(f[x]), Whole(SumFunctionOnSet(f, u))) = Whole(f[x] + SumFunctionOnSet(f, u))
    BY <1>6, <1>10, WholeOperations
  <1>12. f[x] + SumFunctionOnSet(f, u) = SumFunctionOnSet(f, u) + f[x]
    BY <1>6, <1>10
  <1> QED BY <1>3, <1>6, <1>7, <1>9, <1>10, <1>11, <1>12

\* Multiples of a step, and where it starts.
LEMMA Multiples ==
  \A a, b \in Int, s \in Nat \ {0} : a * s \in Int /\ s * a = a * s /\ (a <= b => a * s <= b * s)
  <1> SUFFICES ASSUME NEW a \in Int, NEW b \in Int, NEW s \in Nat \ {0}
               PROVE  a * s \in Int /\ s * a = a * s /\ (a <= b => a * s <= b * s)
    OBVIOUS
  <1>1. a <= b => (b - a) * s >= 0
    OBVIOUS
  <1>2. (b - a) * s = b * s - a * s
    OBVIOUS
  <1> QED BY <1>1, <1>2

LEMMA StartOfStep ==
  \A a \in Int, s \in Nat \ {0} :
     a \div s \in Int /\ s * (a \div s) \in Int /\ s * (a \div s) <= a /\ a < s * (a \div s) + s
  OBVIOUS

LEMMA SumOfFunction == \A f : SumFunction(f) = SumFunctionOnSet(f, DOMAIN f)
  BY DEF SumFunction

LEMMA NaturalSum ==
  ASSUME NEW S, IsFiniteSet(S), NEW f, DOMAIN f = S, \A x \in S : f[x] \in Nat
  PROVE  SumFunction(f) \in Nat
  BY SumOfNaturals, SumOfFunction

\* A fraction compared with a whole number.
LEMMA CompareWhole ==
  ASSUME NEW n \in Int, NEW d \in Denominators, NEW k \in Int
  PROVE  /\ Less(Over(n, d), Whole(k)) <=> n < k * d
         /\ Less(Whole(k), Over(n, d)) <=> k * d < n
  <1>1. Whole(k) = Over(k, 1) /\ 1 \in Denominators /\ n * 1 = n
    BY WholeIsOver DEF Denominators
  <1>2. Less(Over(n, d), Over(k, 1)) <=> n * 1 < k * d
    BY <1>1, LessOvers
  <1>3. Less(Over(k, 1), Over(n, d)) <=> k * d < n * 1
    BY <1>1, LessOvers
  <1> QED BY <1>1, <1>2, <1>3

\* At least: an order on fractions.
AtLeast(x, y) == ~Less(x, y)

LEMMA AtLeastOrder ==
  /\ \A x \in Fractions : AtLeast(x, x)
  /\ \A x, y \in Fractions : AtLeast(x, y) \/ AtLeast(y, x)
  /\ \A x, y \in Fractions : AtLeast(x, y) /\ AtLeast(y, x) => x = y
  /\ \A x, y, z \in Fractions : AtLeast(x, y) /\ AtLeast(y, z) => AtLeast(x, z)
  <1>1. ASSUME NEW x \in Fractions, NEW y \in Fractions
        PROVE  /\ x[1] * y[2] \in Int /\ y[1] * x[2] \in Int
               /\ AtLeast(x, y) <=> y[1] * x[2] <= x[1] * y[2]
    <2>1. x[1] \in Int /\ x[2] \in Nat /\ y[1] \in Int /\ y[2] \in Nat
      BY FractionParts
    <2>2. \A a, b \in Int : a * b \in Int
      OBVIOUS
    <2>3. x[1] * y[2] \in Int /\ y[1] * x[2] \in Int
      BY <2>1, <2>2
    <2> QED BY <2>3 DEF AtLeast, Less
  <1>2. \A x, y \in Fractions : AtLeast(x, y) \/ AtLeast(y, x)
    BY <1>1
  <1>3. \A x \in Fractions : AtLeast(x, x)
    BY <1>2
  <1>4. ASSUME NEW x \in Fractions, NEW y \in Fractions, AtLeast(x, y), AtLeast(y, x) PROVE x = y
    <2>1. x[1] * y[2] = y[1] * x[2]
      BY <1>1, <1>4
    <2>2. x[1] \in Int /\ x[2] \in Denominators /\ y[1] \in Int /\ y[2] \in Denominators
          /\ Over(x[1], x[2]) = x /\ Over(y[1], y[2]) = y
      BY FractionParts
    <2>3. Over(x[1], x[2]) = Over(y[1], y[2])
      BY <2>1, <2>2, OverEqual
    <2> QED BY <2>2, <2>3
  <1>5. ASSUME NEW x \in Fractions, NEW y \in Fractions, NEW z \in Fractions, AtLeast(x, y), AtLeast(y, z)
        PROVE  AtLeast(x, z)
    <2> DEFINE a == x[1]  b == x[2]  c == y[1]  d == y[2]  e == z[1]  f == z[2]
    <2>1. /\ a \in Int /\ c \in Int /\ e \in Int
          /\ b \in Nat /\ b > 0 /\ d \in Nat /\ d > 0 /\ f \in Nat /\ f > 0
      BY FractionParts
    <2>2. c * b <= a * d /\ e * d <= c * f
      BY <1>1, <1>5
    <2> HIDE DEF a, b, c, d, e, f
    <2>3. \A p, q \in Int, k \in Nat : p <= q => p * k <= q * k
      <3> SUFFICES ASSUME NEW p \in Int, NEW q \in Int, NEW k \in Nat, p <= q PROVE p * k <= q * k
        OBVIOUS
      <3>1. q - p >= 0 /\ (q - p) * k >= 0 /\ (q - p) * k = q * k - p * k
        OBVIOUS
      <3> QED BY <3>1
    <2>4. \A p, q \in Int : p * q \in Int /\ p * q = q * p
      OBVIOUS
    <2>5. (c * b) * f <= (a * d) * f /\ (e * d) * b <= (c * f) * b
      BY <2>1, <2>2, <2>3, <2>4
    <2>6. \A p, q, r \in Int : (p * q) * r \in Int /\ (p * q) * r = (p * r) * q
      OBVIOUS
    <2>7. (e * b) * d <= (a * f) * d
      <3>1. (c * b) * f = (c * f) * b /\ (e * d) * b = (e * b) * d /\ (a * d) * f = (a * f) * d
        BY <2>1, <2>6
      <3>2. (c * b) * f \in Int /\ (a * d) * f \in Int /\ (e * d) * b \in Int
        BY <2>1, <2>6
      <3> QED BY <2>5, <3>1, <3>2
    <2>8. \A p, q \in Int, k \in Nat : k > 0 /\ p * k <= q * k => p <= q
      <3> SUFFICES ASSUME NEW p \in Int, NEW q \in Int, NEW k \in Nat, k > 0, p > q PROVE p * k > q * k
        OBVIOUS
      <3>1. p - q > 0 /\ (p - q) * k > 0 /\ (p - q) * k = p * k - q * k
        OBVIOUS
      <3> QED BY <3>1
    <2>9. e * b <= a * f
      <3>1. e * b \in Int /\ a * f \in Int
        BY <2>1, <2>4
      <3> QED BY <2>1, <2>7, <2>8, <3>1
    <2> QED BY <1>1, <2>9 DEF a, b, e, f
  <1> QED BY <1>2, <1>3, <1>4, <1>5

\* One growth after another.
LEMMA GrowthsChain ==
  \A a, b, c \in Denominators : /\ Over(b, a) \in Fractions /\ Over(a, a) = One
                                /\ Times(Over(b, a), Over(c, b)) = Over(c, a)
  <1> SUFFICES ASSUME NEW a \in Denominators, NEW b \in Denominators, NEW c \in Denominators
               PROVE  /\ Over(b, a) \in Fractions /\ Over(a, a) = One
                      /\ Times(Over(b, a), Over(c, b)) = Over(c, a)
    OBVIOUS
  <1>1. a \in Int /\ b \in Int /\ c \in Int /\ 1 \in Int /\ 1 \in Denominators /\ a * 1 = 1 * a
    BY DEF Denominators
  <1>2. Over(b, a) \in Fractions
    BY <1>1, OverType
  <1>3. Over(a, a) = One
    BY <1>1, OverEqual, WholeIsOver DEF One
  <1>4. Times(Over(b, a), Over(c, b)) = Over(b * c, a * b) /\ a * b = b * a
    BY <1>1, SumOfOvers
  <1>5. Over(b * c, b * a) = Over(c, a)
    BY <1>1, OverScale
  <1> QED BY <1>2, <1>3, <1>4, <1>5

LEMMA WholeTotals ==
  ASSUME NEW S, IsFiniteSet(S), NEW f, NEW fun, NEW k \in Int,
         \A x \in S : f[x] \in Int /\ fun[x] = Whole(k * f[x])
  PROVE  RatioSum(fun, S) = Whole(k * SumFunctionOnSet(f, S)) /\ Addends(fun, S)
  <1> DEFINE g == [x \in S |-> k * f[x]]
  <1>1. \A x \in S : g[x] \in Int /\ fun[x] = Whole(g[x]) /\ g[x] = k * f[x]
    OBVIOUS
  <1> HIDE DEF g
  <1>2. RatioSum(fun, S) = Whole(SumFunctionOnSet(g, S))
    BY <1>1, TotalOfWholes
  <1>3. SumFunctionOnSet(g, S) = k * SumFunctionOnSet(f, S)
    BY <1>1, SumScaled
  <1>4. Addends(fun, S)
    BY <1>1, WholeIsOver DEF Addends
  <1> QED BY <1>2, <1>3, <1>4
=============================================================================
