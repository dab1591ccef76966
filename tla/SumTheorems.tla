----------------------------- MODULE SumTheorems -----------------------------
(***************************************************************************)
(* Sums over finite sets: SumFunctionOnSet of Functions, in which the      *)
(* models write every total of amounts.  It is a recursive function found  *)
(* by CHOOSE; what it computes is proved here from its definition, by      *)
(* taking a smallest set on which a claim fails.                           *)
(***************************************************************************)
EXTENDS FiniteSetsExt, FiniteSetTheorems, TLAPS

\* The element a fold takes first, and the function it defines over subsets.
Pick(T) == CHOOSE x \in T : TRUE
Sums(f, S, g) ==
    g = [T \in SUBSET S |-> IF T = {} THEN 0 ELSE f[Pick(T)] + g[T \ {Pick(T)}]]

\* Induction over the subsets of a finite set, without an operator parameter: a
\* set of subsets that is not empty has a smallest member.
LEMMA SubsetInduction ==
    ASSUME NEW S, IsFiniteSet(S), NEW Bad, Bad \subseteq SUBSET S, Bad # {}
    PROVE  \E T \in Bad : \A U \in SUBSET T : U # T => U \notin Bad
<1>1. IsWellFoundedOn(StrictSubsetOrdering(S), SUBSET S)
  BY FS_StrictSubsetOrderingWellFounded, FS_FiniteSubsetsOfFinite
<1>2. PICK T \in Bad : \A U \in Bad : ~(<<U, T>> \in StrictSubsetOrdering(S))
  BY <1>1, WFMin
<1>3. \A U \in SUBSET T : U # T => U \notin Bad
  BY <1>2 DEF StrictSubsetOrdering
<1> QED BY <1>3

\* One unfolding of the recursive function behind a sum.
LEMMA SumsAt ==
    ASSUME NEW f, NEW S, NEW g, Sums(f, S, g), NEW T \in SUBSET S
    PROVE  /\ T = {} => g[T] = 0
           /\ T # {} => /\ g[T] = f[Pick(T)] + g[T \ {Pick(T)}]
                        /\ Pick(T) \in T /\ T \ {Pick(T)} \in SUBSET T /\ T \ {Pick(T)} # T
<1>1. g[T] = IF T = {} THEN 0 ELSE f[Pick(T)] + g[T \ {Pick(T)}]
  <2> DEFINE e(U) == IF U = {} THEN 0 ELSE f[Pick(U)] + g[U \ {Pick(U)}]
  <2>1. g = [U \in SUBSET S |-> e(U)]
    BY DEF Sums
  <2> HIDE DEF e
  <2>2. g[T] = e(T)
    BY <2>1
  <2> QED BY <2>2 DEF e
<1>2. T # {} => Pick(T) \in T
  BY DEF Pick
<1> QED BY <1>1, <1>2

\* Two such functions agree on the sets that both are defined on.
LEMMA SumsUnique ==
    ASSUME NEW f, NEW S, IsFiniteSet(S), NEW g, NEW h, NEW R, Sums(f, S, g), Sums(f, R, h),
           NEW W \in SUBSET S, W \in SUBSET R
    PROVE  g[W] = h[W]
<1> DEFINE Bad == {T \in SUBSET S : T \in SUBSET R /\ g[T] # h[T]}
<1> SUFFICES ASSUME W \in Bad PROVE FALSE
  OBVIOUS
<1>1. PICK T \in Bad : \A U \in SUBSET T : U # T => U \notin Bad
  <2> Bad # {} /\ Bad \subseteq SUBSET S
    OBVIOUS
  <2> HIDE DEF Bad
  <2> QED BY SubsetInduction
<1>2. T # {} /\ g[T] = f[Pick(T)] + g[T \ {Pick(T)}] /\ h[T] = f[Pick(T)] + h[T \ {Pick(T)}]
  BY <1>1, SumsAt
<1>3. g[T \ {Pick(T)}] = h[T \ {Pick(T)}]
  BY <1>1, <1>2, SumsAt
<1> QED BY <1>1, <1>2, <1>3

\* The step from a sum to the sum of the rest, which is another CHOOSE.
LEMMA SumsStep ==
    ASSUME NEW f, NEW V, IsFiniteSet(V), V # {}, NEW p, NEW q,
           Sums(f, V, p), Sums(f, V \ {Pick(V)}, q)
    PROVE  p[V] = f[Pick(V)] + q[V \ {Pick(V)}]
<1>1. p[V] = f[Pick(V)] + p[V \ {Pick(V)}]
  BY SumsAt
<1>2. p[V \ {Pick(V)}] = q[V \ {Pick(V)}]
  <2> DEFINE X == V \ {Pick(V)}
  <2>1. X \in SUBSET V /\ X \in SUBSET X /\ Sums(f, X, q)
    OBVIOUS
  <2> HIDE DEF X
  <2>2. p[X] = q[X]
    BY <2>1, SumsUnique
  <2> QED BY <2>2 DEF X
<1> QED BY <1>1, <1>2

\* The function exists, so the CHOOSE of MapThenFoldSet finds one.
LEMMA SumsExist ==
    ASSUME NEW f, NEW S, IsFiniteSet(S)
    PROVE  \E g : Sums(f, S, g)
<1> DEFINE Bad == {T \in SUBSET S : ~ \E g : Sums(f, T, g)}
<1> SUFFICES ASSUME S \in Bad PROVE FALSE
  OBVIOUS
<1>1. PICK T \in Bad : \A U \in SUBSET T : U # T => U \notin Bad
  <2> Bad # {} /\ Bad \subseteq SUBSET S
    OBVIOUS
  <2> HIDE DEF Bad
  <2> QED BY SubsetInduction
<1> DEFINE part(U) == CHOOSE g : Sums(f, U, g)
           rest(W) == W \ {Pick(W)}
           g == [W \in SUBSET T |-> IF W = {} THEN 0 ELSE f[Pick(W)] + part(rest(W))[rest(W)]]
<1>2. \A U \in SUBSET T : U # T => Sums(f, U, part(U))
  BY <1>1
<1>3. \A U \in SUBSET T : IsFiniteSet(U)
  BY FS_Subset
<1>4. ASSUME NEW W \in SUBSET T, W # {}
      PROVE  part(rest(W))[rest(W)] = g[rest(W)]
  <2> DEFINE V == rest(W)
  <2>1. V \in SUBSET T /\ V # T
    BY <1>4 DEF Pick
  <2>2. Sums(f, V, part(V))
    BY <1>2, <2>1
  <2>3. CASE V = {}
    BY <2>1, <2>2, <2>3, SumsAt
  <2>4. CASE V # {}
    <3>1. rest(V) \in SUBSET V /\ rest(V) # T
      BY <2>1
    <3>2. Sums(f, rest(V), part(rest(V)))
      BY <1>2, <2>1, <3>1
    <3>3. part(V)[V] = f[Pick(V)] + part(rest(V))[rest(V)]
      <4> HIDE DEF part, V
      <4> QED BY <1>3, <2>1, <2>2, <2>4, <3>2, SumsStep
    <3> QED BY <3>3, <2>1, <2>4
  <2> QED BY <2>3, <2>4
<1> HIDE DEF part
<1>5. Sums(f, T, g)
  BY <1>4 DEF Sums
<1> QED BY <1>1, <1>5

\* A sum is the term of the element it picks and the sum of the others.
THEOREM SumFirst ==
    ASSUME NEW f, NEW S, IsFiniteSet(S)
    PROVE  /\ S = {} => SumFunctionOnSet(f, S) = 0
           /\ S # {} => SumFunctionOnSet(f, S) = f[Pick(S)] + SumFunctionOnSet(f, S \ {Pick(S)})
<1> DEFINE part(U) == CHOOSE g : Sums(f, U, g)
           R == S \ {Pick(S)}
<1>1. \A U : SumFunctionOnSet(f, U) = part(U)[U]
  BY DEF SumFunctionOnSet, FoldFunctionOnSet, MapThenFoldSet, Sums, Pick
<1>2. IsFiniteSet(R)
  BY FS_Subset
<1>3. Sums(f, S, part(S)) /\ Sums(f, R, part(R))
  BY <1>2, SumsExist
<1> HIDE DEF part
<1>4. S = {} => part(S)[S] = 0
  BY <1>3, SumsAt
<1>5. S # {} => part(S)[S] = f[Pick(S)] + part(R)[R]
  BY <1>3, SumsStep
<1> QED BY <1>1, <1>4, <1>5

\* A sum of integers is an integer, and any term can be taken out of it.
THEOREM SumRest ==
    ASSUME NEW S, IsFiniteSet(S), NEW f, \A x \in S : f[x] \in Int
    PROVE  /\ SumFunctionOnSet(f, S) \in Int
           /\ \A x \in S : SumFunctionOnSet(f, S) = f[x] + SumFunctionOnSet(f, S \ {x})
<1> DEFINE sum(U) == SumFunctionOnSet(f, U)
           Good(U) == sum(U) \in Int /\ \A x \in U : sum(U) = f[x] + sum(U \ {x})
           Bad == {T \in SUBSET S : ~ Good(T)}
<1> SUFFICES ASSUME S \in Bad PROVE FALSE
  OBVIOUS
<1>1. PICK T \in Bad : \A U \in SUBSET T : U # T => U \notin Bad
  <2> Bad # {} /\ Bad \subseteq SUBSET S
    OBVIOUS
  <2> HIDE DEF Bad
  <2> QED BY SubsetInduction
<1>2. \A U \in SUBSET T : U # T => Good(U)
  BY <1>1
<1>3. /\ T = {} => sum(T) = 0
      /\ T # {} => sum(T) = f[Pick(T)] + sum(T \ {Pick(T)})
  <2> IsFiniteSet(T)
    BY FS_Subset
  <2> QED BY SumFirst
<1> HIDE DEF sum
<1>4. T # {}
  BY <1>1, <1>3
<1> DEFINE p == Pick(T)
<1>5. p \in T /\ f[p] \in Int
  BY <1>4 DEF Pick
<1> HIDE DEF p
<1>6. sum(T) = f[p] + sum(T \ {p})
  BY <1>3, <1>4 DEF p
<1>7. Good(T \ {p})
  BY <1>2, <1>5
<1>8. sum(T) \in Int
  BY <1>5, <1>6, <1>7
<1>9. ASSUME NEW x \in T, x # p
      PROVE  sum(T) = f[x] + sum(T \ {x})
  <2>1. f[x] \in Int /\ Good(T \ {x}) /\ T \ {x} \in SUBSET T
    BY <1>2
  <2>2. sum(T \ {p}) = f[x] + sum((T \ {p}) \ {x})
    BY <1>7, <1>9
  <2>3. sum(T \ {x}) = f[p] + sum((T \ {x}) \ {p})
    BY <1>5, <1>9, <2>1
  <2>4. (T \ {p}) \ {x} = (T \ {x}) \ {p}
    OBVIOUS
  <2>5. Good((T \ {x}) \ {p})
    BY <1>2, <1>5
  <2>6. sum((T \ {x}) \ {p}) \in Int
    BY <2>5
  <2>7. sum((T \ {p}) \ {x}) = sum((T \ {x}) \ {p})
    BY <2>4
  <2>8. sum(T) = f[p] + (f[x] + sum((T \ {x}) \ {p}))
    BY <1>6, <2>2, <2>7
  <2> DEFINE c == sum((T \ {x}) \ {p})
  <2>9. f[p] + (f[x] + c) = f[x] + (f[p] + c)
    <3> HIDE DEF c
    <3>1. c \in Int BY <2>6 DEF c
    <3> QED BY <1>5, <2>1, <3>1
  <2> QED BY <2>3, <2>8, <2>9
<1> QED BY <1>1, <1>6, <1>8, <1>9

\* A sum of integers is an integer.
THEOREM SumType ==
    ASSUME NEW S, IsFiniteSet(S), NEW f, \A x \in S : f[x] \in Int
    PROVE  SumFunctionOnSet(f, S) \in Int
  BY SumRest

\* The sum of nothing is 0.
THEOREM SumEmpty == ASSUME NEW f PROVE SumFunctionOnSet(f, {}) = 0
  BY SumFirst, FS_EmptySet

\* A sum looks at its terms on its set and at nothing else.
THEOREM SumEqual ==
    ASSUME NEW S, IsFiniteSet(S), NEW f, NEW g, \A x \in S : f[x] = g[x]
    PROVE  SumFunctionOnSet(f, S) = SumFunctionOnSet(g, S)
<1> DEFINE Bad == {T \in SUBSET S : SumFunctionOnSet(f, T) # SumFunctionOnSet(g, T)}
<1> SUFFICES ASSUME S \in Bad PROVE FALSE
  OBVIOUS
<1>1. PICK T \in Bad : \A U \in SUBSET T : U # T => U \notin Bad
  <2> Bad # {} /\ Bad \subseteq SUBSET S
    OBVIOUS
  <2> HIDE DEF Bad
  <2> QED BY SubsetInduction
<1>2. IsFiniteSet(T)
  BY FS_Subset
<1>3. T # {}
  BY <1>1, <1>2, SumFirst
<1>4. Pick(T) \in T
  BY <1>3 DEF Pick
<1>5. SumFunctionOnSet(f, T \ {Pick(T)}) = SumFunctionOnSet(g, T \ {Pick(T)})
  BY <1>1, <1>4
<1> QED BY <1>1, <1>2, <1>3, <1>4, <1>5, SumFirst

\* The sum follows its terms: the difference of two sums is the sum of the differences.
THEOREM SumPlus ==
    ASSUME NEW S, IsFiniteSet(S), NEW f, NEW g, NEW h,
           \A x \in S : f[x] \in Int /\ g[x] \in Int /\ h[x] = f[x] + g[x]
    PROVE  SumFunctionOnSet(h, S) = SumFunctionOnSet(f, S) + SumFunctionOnSet(g, S)
<1> DEFINE Bad == {T \in SUBSET S :
                     SumFunctionOnSet(h, T) # SumFunctionOnSet(f, T) + SumFunctionOnSet(g, T)}
<1> SUFFICES ASSUME S \in Bad PROVE FALSE
  OBVIOUS
<1>1. PICK T \in Bad : \A U \in SUBSET T : U # T => U \notin Bad
  <2> Bad # {} /\ Bad \subseteq SUBSET S
    OBVIOUS
  <2> HIDE DEF Bad
  <2> QED BY SubsetInduction
<1>2. IsFiniteSet(T)
  BY FS_Subset
<1>3. T # {}
  <2> SUFFICES ASSUME T = {} PROVE FALSE
    OBVIOUS
  <2>1. /\ SumFunctionOnSet(f, T) = 0 /\ SumFunctionOnSet(g, T) = 0
        /\ SumFunctionOnSet(h, T) = 0
    BY SumEmpty
  <2> QED BY <1>1, <2>1
<1> DEFINE p == Pick(T)
           U == T \ {p}
<1>4. p \in T
  BY <1>3 DEF Pick
<1>5. U \in SUBSET T /\ U # T /\ IsFiniteSet(U)
  BY <1>2, <1>4, FS_Subset
<1>6. SumFunctionOnSet(h, U) = SumFunctionOnSet(f, U) + SumFunctionOnSet(g, U)
  BY <1>1, <1>5
<1>7. SumFunctionOnSet(f, U) \in Int /\ SumFunctionOnSet(g, U) \in Int
  BY <1>5, SumType
<1>8. /\ SumFunctionOnSet(h, T) = h[p] + SumFunctionOnSet(h, U)
      /\ SumFunctionOnSet(f, T) = f[p] + SumFunctionOnSet(f, U)
      /\ SumFunctionOnSet(g, T) = g[p] + SumFunctionOnSet(g, U)
  BY <1>2, <1>3, SumFirst
<1>9. f[p] \in Int /\ g[p] \in Int /\ h[p] = f[p] + g[p]
  BY <1>4
<1> HIDE DEF U, p
<1> QED BY <1>1, <1>6, <1>7, <1>8, <1>9

\* Only one term changes.
THEOREM SumUpdate ==
    ASSUME NEW S, IsFiniteSet(S), NEW f, NEW g, NEW x \in S,
           \A y \in S : f[y] \in Int, \A y \in S : g[y] \in Int, \A y \in S : y # x => g[y] = f[y]
    PROVE  SumFunctionOnSet(g, S) = SumFunctionOnSet(f, S) - f[x] + g[x]
<1>1. IsFiniteSet(S \ {x})
  BY FS_Subset
<1>2. SumFunctionOnSet(f, S) = f[x] + SumFunctionOnSet(f, S \ {x})
  BY SumRest
<1>3. SumFunctionOnSet(g, S) = g[x] + SumFunctionOnSet(g, S \ {x})
  BY SumRest
<1>4. SumFunctionOnSet(g, S \ {x}) = SumFunctionOnSet(f, S \ {x})
  BY <1>1, SumEqual
<1>5. SumFunctionOnSet(f, S \ {x}) \in Int
  BY <1>1, SumType
<1> QED BY <1>2, <1>3, <1>4, <1>5

\* At most two terms change, those of a and b if these are terms at all.
THEOREM SumExchange ==
    ASSUME NEW S, IsFiniteSet(S), NEW f, NEW g, NEW a, NEW b, a # b,
           \A y \in S : f[y] \in Int, \A y \in S : g[y] \in Int,
           \A y \in S : y # a /\ y # b => g[y] = f[y]
    PROVE  SumFunctionOnSet(g, S) = SumFunctionOnSet(f, S)
               + (IF a \in S THEN g[a] - f[a] ELSE 0) + (IF b \in S THEN g[b] - f[b] ELSE 0)
<1> DEFINE h == [y \in S |-> IF y = a THEN g[y] ELSE f[y]]
<1>1. (a \in S => h[a] = g[a]) /\ (b \in S => h[b] = f[b])
  OBVIOUS
<1>h. \A y \in S : h[y] \in Int
  OBVIOUS
<1>a. \A y \in S : y # a => h[y] = f[y]
  OBVIOUS
<1>b. \A y \in S : y # b => g[y] = h[y]
  OBVIOUS
<1>c. (\A y \in S : f[y] \in Int) /\ (\A y \in S : g[y] \in Int) /\ IsFiniteSet(S)
  OBVIOUS
<1> HIDE DEF h
<1>2. SumFunctionOnSet(f, S) \in Int /\ SumFunctionOnSet(h, S) \in Int
  BY <1>h, SumType
<1>3. a \in S => SumFunctionOnSet(h, S) = SumFunctionOnSet(f, S) - f[a] + g[a]
  <2> SUFFICES ASSUME a \in S PROVE SumFunctionOnSet(h, S) = SumFunctionOnSet(f, S) - f[a] + g[a]
    OBVIOUS
  <2>1. SumFunctionOnSet(h, S) = SumFunctionOnSet(f, S) - f[a] + h[a]
    BY ONLY a \in S, <1>h, <1>a, <1>c, SumUpdate
  <2> QED BY <1>1, <2>1
<1>4. a \notin S => SumFunctionOnSet(h, S) = SumFunctionOnSet(f, S)
  BY ONLY <1>a, <1>c, SumEqual
<1>5. b \in S => SumFunctionOnSet(g, S) = SumFunctionOnSet(h, S) - f[b] + g[b]
  <2> SUFFICES ASSUME b \in S PROVE SumFunctionOnSet(g, S) = SumFunctionOnSet(h, S) - f[b] + g[b]
    OBVIOUS
  <2>1. SumFunctionOnSet(g, S) = SumFunctionOnSet(h, S) - h[b] + g[b]
    BY ONLY b \in S, <1>h, <1>b, <1>c, SumUpdate
  <2> QED BY <1>1, <2>1
<1>6. b \notin S => SumFunctionOnSet(g, S) = SumFunctionOnSet(h, S)
  BY ONLY <1>b, <1>c, SumEqual
<1> QED BY <1>2, <1>3, <1>4, <1>5, <1>6

\* A sum of natural numbers is one.
LEMMA SumNatType ==
    ASSUME NEW S, IsFiniteSet(S), NEW f, \A x \in S : f[x] \in Nat
    PROVE  SumFunctionOnSet(f, S) \in Nat
<1> DEFINE Bad == {T \in SUBSET S : SumFunctionOnSet(f, T) \notin Nat}
<1> SUFFICES ASSUME S \in Bad PROVE FALSE
  OBVIOUS
<1>1. PICK T \in Bad : \A U \in SUBSET T : U # T => U \notin Bad
  <2> Bad # {} /\ Bad \subseteq SUBSET S
    OBVIOUS
  <2> HIDE DEF Bad
  <2> QED BY SubsetInduction
<1>2. IsFiniteSet(T)
  BY FS_Subset
<1>3. T # {}
  <2> SUFFICES ASSUME T = {} PROVE FALSE
    OBVIOUS
  <2>1. SumFunctionOnSet(f, T) = 0
    BY SumEmpty
  <2> QED BY <1>1, <2>1
<1>4. Pick(T) \in T
  BY <1>3 DEF Pick
<1>5. SumFunctionOnSet(f, T \ {Pick(T)}) \in Nat
  BY <1>1, <1>4
<1>6. SumFunctionOnSet(f, T) = f[Pick(T)] + SumFunctionOnSet(f, T \ {Pick(T)})
  BY <1>2, <1>3, SumFirst
<1> QED BY <1>1, <1>4, <1>5, <1>6

\* A sum of terms that are never negative is at least each of them.
THEOREM SumNat ==
    ASSUME NEW S, IsFiniteSet(S), NEW f, \A x \in S : f[x] \in Nat
    PROVE  /\ SumFunctionOnSet(f, S) \in Nat
           /\ \A x \in S : f[x] <= SumFunctionOnSet(f, S)
<1>1. ASSUME NEW x \in S
      PROVE  f[x] <= SumFunctionOnSet(f, S)
  <2>1. SumFunctionOnSet(f, S) = f[x] + SumFunctionOnSet(f, S \ {x})
    BY SumRest
  <2>2. SumFunctionOnSet(f, S \ {x}) \in Nat
    BY SumNatType, FS_Subset
  <2> QED BY <2>1, <2>2
<1> QED BY <1>1, SumNatType

\* Terms that vanish do not count.
THEOREM SumSubset ==
    ASSUME NEW S, IsFiniteSet(S), NEW R \in SUBSET S, NEW f,
           \A x \in S : f[x] \in Int, \A x \in S \ R : f[x] = 0
    PROVE  SumFunctionOnSet(f, S) = SumFunctionOnSet(f, R)
<1> DEFINE Bad == {T \in SUBSET S : R \subseteq T /\ SumFunctionOnSet(f, T) # SumFunctionOnSet(f, R)}
<1> SUFFICES ASSUME S \in Bad PROVE FALSE
  OBVIOUS
<1>1. PICK T \in Bad : \A U \in SUBSET T : U # T => U \notin Bad
  <2> Bad # {} /\ Bad \subseteq SUBSET S
    OBVIOUS
  <2> HIDE DEF Bad
  <2> QED BY SubsetInduction
<1>2. PICK x \in T : x \notin R
  <2>1. R \subseteq T /\ SumFunctionOnSet(f, T) # SumFunctionOnSet(f, R)
    OBVIOUS
  <2>2. T # R
    BY <2>1
  <2> QED BY <2>1, <2>2
<1>3. f[x] = 0
  BY <1>2
<1>4. SumFunctionOnSet(f, T \ {x}) = SumFunctionOnSet(f, R)
  BY <1>1, <1>2
<1>5. SumFunctionOnSet(f, T) = f[x] + SumFunctionOnSet(f, T \ {x})
  <2>1. IsFiniteSet(T) /\ \A y \in T : f[y] \in Int
    BY <1>1, FS_Subset
  <2> QED BY ONLY <2>1, x \in T, SumRest
<1>6. SumFunctionOnSet(f, T \ {x}) \in Int
  BY SumType, FS_Subset
<1> QED BY <1>1, <1>3, <1>4, <1>5, <1>6

\* A sum over part of a set is a sum over all of it, in which the rest counts nothing.
THEOREM SumFilter ==
    ASSUME NEW S, IsFiniteSet(S), NEW R \in SUBSET S, NEW f, \A x \in R : f[x] \in Int
    PROVE  SumFunctionOnSet(f, R) = SumFunctionOnSet([x \in S |-> IF x \in R THEN f[x] ELSE 0], S)
<1> DEFINE g == [x \in S |-> IF x \in R THEN f[x] ELSE 0]
<1>1. (\A x \in S : g[x] \in Int) /\ (\A x \in S \ R : g[x] = 0) /\ (\A x \in R : f[x] = g[x])
  OBVIOUS
<1>2. IsFiniteSet(R)
  BY FS_Subset
<1> HIDE DEF g
<1>3. SumFunctionOnSet(g, S) = SumFunctionOnSet(g, R)
  BY <1>1, SumSubset
<1>4. SumFunctionOnSet(f, R) = SumFunctionOnSet(g, R)
  BY <1>1, <1>2, SumEqual
<1> QED BY <1>3, <1>4 DEF g

\* Terms that are 0 sum to 0.
THEOREM SumZero ==
    ASSUME NEW S, IsFiniteSet(S), NEW f, \A x \in S : f[x] = 0
    PROVE  SumFunctionOnSet(f, S) = 0
<1>1. {} \in SUBSET S /\ (\A x \in S : f[x] \in Int) /\ (\A x \in S \ {} : f[x] = 0)
  OBVIOUS
<1>2. SumFunctionOnSet(f, S) = SumFunctionOnSet(f, {})
  BY <1>1, SumSubset
<1> QED BY <1>2, SumEmpty

\* Terms grouped by a key: the sum of the sums of the groups is the sum of the terms.
THEOREM SumPartition ==
    ASSUME NEW R, IsFiniteSet(R), NEW X, IsFiniteSet(X), NEW a, \A r \in R : a[r] \in X,
           NEW l, \A r \in R : l[r] \in Int
    PROVE  SumFunctionOnSet([x \in X |-> SumFunctionOnSet(l, {r \in R : a[r] = x})], X)
               = SumFunctionOnSet(l, R)
<1> DEFINE groups(T) == [x \in X |-> SumFunctionOnSet(l, {r \in T : a[r] = x})]
           Bad == {T \in SUBSET R : SumFunctionOnSet(groups(T), X) # SumFunctionOnSet(l, T)}
<1> SUFFICES ASSUME R \in Bad PROVE FALSE
  OBVIOUS
<1>1. PICK T \in Bad : \A U \in SUBSET T : U # T => U \notin Bad
  <2> Bad # {} /\ Bad \subseteq SUBSET R
    OBVIOUS
  <2> HIDE DEF Bad
  <2> QED BY SubsetInduction
<1>2. SumFunctionOnSet(groups(T), X) # SumFunctionOnSet(l, T)
  OBVIOUS
<1>3. \A U \in SUBSET T : IsFiniteSet(U) /\ \A x \in X : IsFiniteSet({r \in U : a[r] = x})
  BY FS_Subset
<1>4. ASSUME NEW U \in SUBSET T
      PROVE  \A x \in X : groups(U)[x] \in Int
  BY <1>3, SumType
<1>5. T # {}
  <2> SUFFICES ASSUME T = {} PROVE FALSE
    OBVIOUS
  <2>1. SumFunctionOnSet(l, T) = 0
    BY SumEmpty
  <2>2. \A x \in X : groups(T)[x] = 0
    <3>1. \A x \in X : {r \in T : a[r] = x} = {}
      OBVIOUS
    <3> QED BY <3>1, SumEmpty
  <2>3. SumFunctionOnSet(groups(T), X) = 0
    <3> HIDE DEF groups
    <3> QED BY <2>2, SumZero
  <2> QED BY <1>2, <2>1, <2>3
<1>6. PICK p \in T : TRUE
  BY <1>5
<1> DEFINE U == T \ {p}
           g == groups(T)
           h == groups(U)
<1>7. SumFunctionOnSet(h, X) = SumFunctionOnSet(l, U)
  BY <1>1
<1>8. SumFunctionOnSet(l, T) = l[p] + SumFunctionOnSet(l, U)
  BY <1>3, SumRest
<1>9. \A x \in X : x # a[p] => g[x] = h[x]
  <2>1. \A x \in X : x # a[p] => {r \in T : a[r] = x} = {r \in U : a[r] = x}
    OBVIOUS
  <2> QED BY <2>1
<1>10. g[a[p]] = l[p] + h[a[p]]
  <2> DEFINE V == {r \in T : a[r] = a[p]}
  <2>1. V \ {p} = {r \in U : a[r] = a[p]} /\ p \in V /\ IsFiniteSet(V) /\ \A r \in V : l[r] \in Int
    BY <1>3
  <2>2. SumFunctionOnSet(l, V) = l[p] + SumFunctionOnSet(l, V \ {p})
    <3> HIDE DEF V
    <3> QED BY <2>1, SumRest
  <2> QED BY <2>1, <2>2
<1>11. /\ a[p] \in X /\ l[p] \in Int
       /\ \A x \in X : g[x] \in Int /\ h[x] \in Int
  BY <1>4
<1>12. SumFunctionOnSet(h, X) \in Int
  <2> HIDE DEF h
  <2> QED BY <1>11, SumType
<1> HIDE DEF g, h, U
<1>13. SumFunctionOnSet(g, X) = SumFunctionOnSet(h, X) - h[a[p]] + g[a[p]]
  <2> DEFINE k == a[p]
  <2>1. k \in X /\ IsFiniteSet(X)
    BY <1>11
  <2>2. SumFunctionOnSet(g, X) = SumFunctionOnSet(h, X) - h[k] + g[k]
    <3>1. (\A y \in X : h[y] \in Int) /\ (\A y \in X : g[y] \in Int)
      BY <1>11
    <3>2. \A y \in X : y # k => g[y] = h[y]
      BY <1>9
    <3> HIDE DEF k
    <3> QED BY ONLY <2>1, <3>1, <3>2, SumUpdate
  <2> QED BY <2>2 DEF k
<1>14. SumFunctionOnSet(g, X) = SumFunctionOnSet(l, T)
  BY <1>7, <1>8, <1>10, <1>11, <1>12, <1>13
<1> QED BY <1>2, <1>14 DEF g

\* The order of summation does not matter.
THEOREM SumSwap ==
    ASSUME NEW X, IsFiniteSet(X), NEW D, IsFiniteSet(D), NEW m,
           \A d \in D, x \in X : m[d][x] \in Int
    PROVE  SumFunctionOnSet([x \in X |-> SumFunctionOnSet([d \in D |-> m[d][x]], D)], X)
               = SumFunctionOnSet([d \in D |-> SumFunctionOnSet([x \in X |-> m[d][x]], X)], D)
<1> DEFINE column(x) == [d \in D |-> m[d][x]]
           row(d) == [x \in X |-> m[d][x]]
           rows == [d \in D |-> SumFunctionOnSet(row(d), X)]
           columns(T) == [x \in X |-> SumFunctionOnSet(column(x), T)]
           Bad == {T \in SUBSET D : SumFunctionOnSet(columns(T), X) # SumFunctionOnSet(rows, T)}
<1> SUFFICES ASSUME D \in Bad PROVE FALSE
  OBVIOUS
<1>1. PICK T \in Bad : \A U \in SUBSET T : U # T => U \notin Bad
  <2> Bad # {} /\ Bad \subseteq SUBSET D
    OBVIOUS
  <2> HIDE DEF Bad
  <2> QED BY SubsetInduction
<1>2. SumFunctionOnSet(columns(T), X) # SumFunctionOnSet(rows, T)
  OBVIOUS
<1>3. \A x \in X, d \in D : column(x)[d] = m[d][x] /\ row(d)[x] = m[d][x]
  OBVIOUS
<1>4. \A U \in SUBSET T : IsFiniteSet(U)
  BY FS_Subset
<1> HIDE DEF column, row
<1>5. \A U \in SUBSET T : \A x \in X : columns(U)[x] \in Int
  BY <1>3, <1>4, SumType
<1>6. \A d \in D : rows[d] \in Int /\ rows[d] = SumFunctionOnSet(row(d), X)
  BY <1>3, SumType
<1>7. T # {}
  <2> SUFFICES ASSUME T = {} PROVE FALSE
    OBVIOUS
  <2>1. SumFunctionOnSet(rows, T) = 0
    BY SumEmpty
  <2>2. \A x \in X : columns(T)[x] = 0
    BY SumEmpty
  <2>3. SumFunctionOnSet(columns(T), X) = 0
    <3> HIDE DEF columns
    <3> QED BY <2>2, SumZero
  <2> QED BY <1>2, <2>1, <2>3
<1>8. PICK p \in T : TRUE
  BY <1>7
<1> DEFINE U == T \ {p}
           g == columns(T)
           h == columns(U)
           r == row(p)
<1>9. SumFunctionOnSet(h, X) = SumFunctionOnSet(rows, U)
  BY <1>1
<1>10. SumFunctionOnSet(rows, T) = rows[p] + SumFunctionOnSet(rows, U)
  <2> HIDE DEF rows
  <2> QED BY <1>4, <1>6, SumRest
<1>11. \A x \in X : r[x] \in Int /\ h[x] \in Int /\ g[x] = r[x] + h[x]
  <2> SUFFICES ASSUME NEW x \in X PROVE r[x] \in Int /\ h[x] \in Int /\ g[x] = r[x] + h[x]
    OBVIOUS
  <2> DEFINE c == column(x)
  <2>1. \A d \in T : c[d] \in Int /\ c[d] = m[d][x]
    BY <1>3
  <2>2. SumFunctionOnSet(c, T) = c[p] + SumFunctionOnSet(c, U)
    <3> HIDE DEF c
    <3> QED BY <1>4, <2>1, SumRest
  <2> QED BY <1>3, <1>5, <2>1, <2>2
<1>12. rows[p] = SumFunctionOnSet(r, X)
  BY <1>6
<1> HIDE DEF U, g, h, r, rows
<1>13. SumFunctionOnSet(g, X) = SumFunctionOnSet(r, X) + SumFunctionOnSet(h, X)
  BY <1>11, SumPlus
<1> QED BY <1>2, <1>9, <1>10, <1>12, <1>13 DEF g

\* The sum of one term is the term.
THEOREM SumSingle ==
    ASSUME NEW x, NEW f, f[x] \in Int
    PROVE  SumFunctionOnSet(f, {x}) = f[x]
<1>1. IsFiniteSet({x}) /\ {x} # {} /\ \A y \in {x} : f[y] \in Int
  BY FS_Singleton
<1>2. SumFunctionOnSet(f, {x}) = f[x] + SumFunctionOnSet(f, {x} \ {x})
  BY <1>1, SumRest
<1>3. {x} \ {x} = {}
  OBVIOUS
<1> QED BY <1>2, <1>3, SumEmpty

\* The sum over a set is that over two parts of it that do not meet.
THEOREM SumUnion ==
    ASSUME NEW S, IsFiniteSet(S), NEW A \in SUBSET S, NEW f, \A x \in S : f[x] \in Int
    PROVE  SumFunctionOnSet(f, S) = SumFunctionOnSet(f, A) + SumFunctionOnSet(f, S \ A)
<1> DEFINE g == [x \in S |-> IF x \in A THEN f[x] ELSE 0]
           h == [x \in S |-> IF x \in S \ A THEN f[x] ELSE 0]
<1>1. S \ A \in SUBSET S /\ (\A x \in A : f[x] \in Int) /\ (\A x \in S \ A : f[x] \in Int)
  OBVIOUS
<1>2. SumFunctionOnSet(f, A) = SumFunctionOnSet(g, S)
  BY <1>1, SumFilter
<1>3. SumFunctionOnSet(f, S \ A) = SumFunctionOnSet(h, S)
  BY <1>1, SumFilter
<1>4. \A x \in S : g[x] \in Int /\ h[x] \in Int /\ f[x] = g[x] + h[x]
  OBVIOUS
<1> HIDE DEF g, h
<1>5. SumFunctionOnSet(f, S) = SumFunctionOnSet(g, S) + SumFunctionOnSet(h, S)
  BY <1>4, SumPlus
<1> QED BY <1>2, <1>3, <1>5

\* A sum does not depend on how its terms are indexed.
THEOREM SumReindex ==
    ASSUME NEW R, IsFiniteSet(R), NEW X, IsFiniteSet(X), NEW o, \A r \in R : o[r] \in X,
           \A r, q \in R : o[r] = o[q] => r = q, \A x \in X : \E r \in R : o[r] = x,
           NEW f, NEW l, \A r \in R : l[r] = f[o[r]], \A x \in X : f[x] \in Int
    PROVE  SumFunctionOnSet(l, R) = SumFunctionOnSet(f, X)
<1> DEFINE group(x) == {r \in R : o[r] = x}
           g == [x \in X |-> SumFunctionOnSet(l, group(x))]
<1>1. ASSUME NEW x \in X
      PROVE  g[x] = f[x]
  <2>1. PICK r \in R : o[r] = x
    OBVIOUS
  <2>2. group(x) = {r}
    BY <2>1
  <2>3. l[r] = f[x] /\ l[r] \in Int
    BY <2>1
  <2>4. SumFunctionOnSet(l, {r}) = l[r]
    BY <2>3, SumSingle
  <2> QED BY <2>2, <2>3, <2>4
<1>2. \A r \in R : l[r] \in Int
  OBVIOUS
<1>3. SumFunctionOnSet(g, X) = SumFunctionOnSet(l, R)
  BY <1>2, SumPartition
<1> HIDE DEF g
<1>4. SumFunctionOnSet(g, X) = SumFunctionOnSet(f, X)
  BY <1>1, SumEqual
<1> QED BY <1>3, <1>4

\* The sum of the opposites is the opposite of the sum.
THEOREM SumOpposite ==
    ASSUME NEW S, IsFiniteSet(S), NEW f, NEW g, \A x \in S : f[x] \in Int /\ g[x] = -f[x]
    PROVE  SumFunctionOnSet(g, S) = -SumFunctionOnSet(f, S)
<1> DEFINE z == [x \in S |-> 0]
<1>1. \A x \in S : f[x] \in Int /\ g[x] \in Int /\ z[x] = f[x] + g[x]
  OBVIOUS
<1>2. \A x \in S : z[x] = 0
  OBVIOUS
<1> HIDE DEF z
<1>3. SumFunctionOnSet(z, S) = SumFunctionOnSet(f, S) + SumFunctionOnSet(g, S)
  BY <1>1, SumPlus
<1>4. SumFunctionOnSet(z, S) = 0
  BY <1>2, SumZero
<1>5. SumFunctionOnSet(f, S) \in Int /\ SumFunctionOnSet(g, S) \in Int
  BY <1>1, SumType
<1> QED BY <1>3, <1>4, <1>5

\* A finite set of integers that is not empty has a greatest member and a least one.
LEMMA Extremes ==
    ASSUME NEW S \in SUBSET Int, IsFiniteSet(S), S # {}
    PROVE  (\E x \in S : \A y \in S : x >= y) /\ (\E x \in S : \A y \in S : x <= y)
<1> DEFINE Good(T) == (\E x \in T : \A y \in T : x >= y) /\ (\E x \in T : \A y \in T : x <= y)
           Bad == {T \in SUBSET S : T # {} /\ ~Good(T)}
<1>1. SUFFICES ASSUME Bad # {} PROVE FALSE
  <2>1. S \in SUBSET S
    OBVIOUS
  <2>2. S \notin Bad => Good(S)
    BY <2>1
  <2> QED BY <2>2
<1>2. PICK T \in Bad : \A U \in SUBSET T : U # T => U \notin Bad
  <2>1. Bad \subseteq SUBSET S
    OBVIOUS
  <2> HIDE DEF Bad
  <2> QED BY <1>1, <2>1, SubsetInduction
<1>3. PICK a \in T : a \in Int
  OBVIOUS
<1>4. CASE T = {a}
  BY <1>2, <1>3, <1>4
<1>5. CASE T # {a}
  <2> DEFINE U == T \ {a}
  <2>1. U \in SUBSET T /\ U # T /\ U # {} /\ U \in SUBSET S
    BY <1>3, <1>5
  <2>2. Good(U)
    BY <1>2, <2>1
  <2>3. PICK hi \in U : \A y \in U : hi >= y
    BY <2>2
  <2>4. PICK lo \in U : \A y \in U : lo <= y
    BY <2>2
  <2>5. hi \in Int /\ lo \in Int /\ T \subseteq Int /\ \A y \in T : y = a \/ y \in U
    BY <1>2
  <2>6. \E x \in T : \A y \in T : x >= y
    <3>1. CASE hi >= a
      BY <2>3, <2>5, <3>1
    <3>2. CASE ~(hi >= a)
      <4>1. a \in T /\ \A y \in T : a >= y
        BY <1>3, <2>3, <2>5, <3>2
      <4> QED BY <4>1
    <3> QED BY <3>1, <3>2
  <2>7. \E x \in T : \A y \in T : x <= y
    <3>1. CASE lo <= a
      BY <2>4, <2>5, <3>1
    <3>2. CASE ~(lo <= a)
      <4>1. a \in T /\ \A y \in T : a <= y
        BY <1>3, <2>4, <2>5, <3>2
      <4> QED BY <4>1
    <3> QED BY <3>1, <3>2
  <2> QED BY <1>2, <2>6, <2>7
<1> QED BY <1>4, <1>5
=============================================================================
