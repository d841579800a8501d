-------------------------- MODULE SalesOrdersProofs --------------------------
(***************************************************************************)
(* Proofs about SalesOrders, for any orders, quotes, holds, items and      *)
(* quantities.                                                             *)
(*                                                                         *)
(* Promises are sums over reservations and lines, so the proofs rest on    *)
(* laws of SumFunctionOnSet: its recursion has a solution on every finite  *)
(* set, and what a sum does when elements or values change is shown on a   *)
(* smallest counterexample.  The invariant behind the promises is a budget *)
(* per order and item: what is held for an order, open or being consumed   *)
(* by a delivery under way, is at most what its lines still have to ship.  *)
(***************************************************************************)
EXTENDS SalesOrders, FiniteSetTheorems, WellFoundedInduction, TLAPS

-----------------------------------------------------------------------------
(* Finite sums.                                                            *)

\* Every non-empty set of naturals has a least one.
LEMMA LeastNumber ==
  ASSUME NEW T, T \subseteq Nat, T # {}
  PROVE  \E n \in T : \A m \in T : n <= m
<1>1. PICK n \in T : \A m \in T : ~ (<<m, n>> \in OpToRel(<, Nat))
  BY NatLessThanWellFounded, WFMin
<1>2. OpToRel(<, Nat) = {p \in Nat \X Nat : p[1] < p[2]}
  BY Zenon DEF OpToRel
<1>3. ASSUME NEW m \in T, m < n PROVE FALSE
  <2>1. <<m, n>> \in {p \in Nat \X Nat : p[1] < p[2]}
    BY <1>3
  <2> QED
    BY <2>1, <1>1, <1>2
<1> QED
  BY <1>3

\* The element that a sum takes first, and the recursion of SumFunctionOnSet.
Pick(s) == CHOOSE x \in s : TRUE

Sums(f, S, g) == g = [s \in SUBSET S |-> IF s = {} THEN 0 ELSE f[Pick(s)] + g[s \ {Pick(s)}]]

\* SumFunctionOnSet is the value at S of a function that satisfies the recursion.
LEMMA SumIsChosen ==
  ASSUME NEW f, NEW S
  PROVE  SumFunctionOnSet(f, S) = (CHOOSE g : Sums(f, S, g))[S]
BY DEF SumFunctionOnSet, FoldFunctionOnSet, MapThenFoldSet, Sums, Pick

\* A non-empty family of subsets of a finite set has a smallest member.
LEMMA SmallestSubset ==
  ASSUME NEW S, IsFiniteSet(S), NEW C, C \subseteq SUBSET S, C # {}
  PROVE  \E s \in C : IsFiniteSet(s) /\ \A x \in s : s \ {x} \notin C
<1>1. \A s \in C : IsFiniteSet(s) /\ Cardinality(s) \in Nat
  BY FS_Subset, FS_CardinalityType
<1>2. {Cardinality(s) : s \in C} \subseteq Nat /\ {Cardinality(s) : s \in C} # {}
  BY <1>1
<1>3. PICK n \in {Cardinality(s) : s \in C} : \A m \in {Cardinality(s) : s \in C} : n <= m
  BY <1>2, LeastNumber
<1>4. PICK s \in C : n = Cardinality(s)
  BY <1>3
<1>5. ASSUME NEW x \in s, s \ {x} \in C PROVE FALSE
  <2>1. Cardinality(s \ {x}) = Cardinality(s) - 1
    BY <1>1, FS_RemoveElement
  <2>2. Cardinality(s) <= Cardinality(s \ {x})
    BY <1>3, <1>4, <1>5
  <2> QED
    BY <2>1, <2>2, <1>1
<1> QED
  BY <1>1, <1>5

\* What the empty set has, and one element more preserves, every finite set has:
\* a set of subsets takes the place of the predicate.
LEMMA FiniteInduction ==
  ASSUME NEW S, IsFiniteSet(S), NEW C, {} \in C,
         \A s \in SUBSET S : \A x \in S \ s : s \in C => s \cup {x} \in C
  PROVE  S \in C
<1> SUFFICES ASSUME S \notin C PROVE FALSE
  OBVIOUS
<1>1. PICK s \in (SUBSET S) \ C : \A x \in s : s \ {x} \notin (SUBSET S) \ C
  BY SmallestSubset
<1>2. PICK x \in s : TRUE
  OBVIOUS
<1>3. s \ {x} \in SUBSET S /\ x \in S \ (s \ {x}) /\ (s \ {x}) \cup {x} = s
  BY <1>1, <1>2
<1> QED
  BY <1>1, <1>2, <1>3

\* Two solutions of the recursion agree where both are defined.
LEMMA SumsAgree ==
  ASSUME NEW f, NEW S, NEW T, NEW g, NEW h, IsFiniteSet(S), Sums(f, S, g), Sums(f, T, h),
         NEW t \in SUBSET (S \cap T)
  PROVE  g[t] = h[t]
<1> DEFINE C == {s \in SUBSET (S \cap T) : g[s] # h[s]}
<1> SUFFICES ASSUME C # {} PROVE FALSE
  OBVIOUS
<1>1. IsFiniteSet(S \cap T)
  BY FS_Subset
<1>2. PICK s \in C : \A x \in s : s \ {x} \notin C
  <2>1. C \subseteq SUBSET (S \cap T)
    OBVIOUS
  <2> HIDE DEF C
  <2> QED
    BY <1>1, <2>1, SmallestSubset
<1>3. CASE s = {}
  BY <1>2, <1>3 DEF Sums
<1>4. CASE s # {}
  <2>1. Pick(s) \in s
    BY <1>4 DEF Pick
  <2>2. g[s \ {Pick(s)}] = h[s \ {Pick(s)}]
    BY <1>2, <2>1
  <2>3. g[s] = f[Pick(s)] + g[s \ {Pick(s)}] /\ h[s] = f[Pick(s)] + h[s \ {Pick(s)}]
    BY <1>4 DEF Sums
  <2> QED
    BY <2>2, <2>3
<1> QED
  BY <1>3, <1>4

\* A solution of the recursion solves it on every subset.
LEMMA SumsRestrict ==
  ASSUME NEW f, NEW S, NEW g, Sums(f, S, g), NEW t \in SUBSET S
  PROVE  Sums(f, t, [s \in SUBSET t |-> g[s]])
BY DEF Sums

\* The recursion has a solution on every finite set.
LEMMA SumsExist ==
  ASSUME NEW f, NEW S, IsFiniteSet(S)
  PROVE  \E g : Sums(f, S, g)
<1> DEFINE C == {s \in SUBSET S : ~ \E g : Sums(f, s, g)}
<1> SUFFICES ASSUME S \in C PROVE FALSE
  OBVIOUS
<1>1. PICK s \in C : IsFiniteSet(s) /\ \A x \in s : s \ {x} \notin C
  <2>1. C \subseteq SUBSET S /\ C # {}
    OBVIOUS
  <2> HIDE DEF C
  <2> QED
    BY <2>1, SmallestSubset
<1> DEFINE G(t) == CHOOSE g : Sums(f, t, g)
           all == [t \in SUBSET s |-> IF t = {} THEN 0 ELSE IF t = s THEN f[Pick(s)] + G(s \ {Pick(s)})[s \ {Pick(s)}]
                                      ELSE G(t)[t]]
<1>2. \A t \in SUBSET s : t # s => Sums(f, t, G(t))
  <2>1. SUFFICES ASSUME NEW t \in SUBSET s, t # s PROVE \E g : Sums(f, t, g)
    OBVIOUS
  <2>2. PICK x \in s : x \notin t
    BY <2>1
  <2>3. PICK g : Sums(f, s \ {x}, g)
    BY <1>1
  <2>4. Sums(f, t, [u \in SUBSET t |-> g[u]])
    <3>1. t \in SUBSET (s \ {x})
      BY <2>2
    <3> QED
      BY <2>3, <3>1, SumsRestrict
  <2> QED
    BY <2>4
<1> HIDE DEF G
<1>3. Sums(f, s, all)
  <2>1. SUFFICES ASSUME NEW t \in SUBSET s
                 PROVE  all[t] = IF t = {} THEN 0 ELSE f[Pick(t)] + all[t \ {Pick(t)}]
    BY DEF Sums
  <2>2. CASE t = {}
    BY <2>2
  <2>3. CASE t # {}
    <3>1. Pick(t) \in t /\ t \ {Pick(t)} # s /\ t \ {Pick(t)} \in SUBSET s
      BY <2>3 DEF Pick
    <3>2. all[t \ {Pick(t)}] = G(t \ {Pick(t)})[t \ {Pick(t)}]
      <4>1. CASE t \ {Pick(t)} = {}
        <5>1. Sums(f, {}, G({})) /\ {} \in SUBSET s
          BY <1>2, <3>1, <4>1
        <5>2. G({})[{}] = 0
          BY <5>1 DEF Sums
        <5>3. all[{}] = 0
          OBVIOUS
        <5> HIDE DEF all
        <5> QED
          BY <4>1, <5>2, <5>3
      <4>2. CASE t \ {Pick(t)} # {}
        BY <3>1, <4>2
      <4> QED
        BY <4>1, <4>2
    <3>3. CASE t = s
      BY <3>2, <3>3, <2>3
    <3>4. CASE t # s
      <4>1. Sums(f, t, G(t)) /\ Sums(f, t \ {Pick(t)}, G(t \ {Pick(t)}))
        BY <1>2, <3>1, <3>4
      <4>2. G(t)[t] = f[Pick(t)] + G(t)[t \ {Pick(t)}]
        BY <4>1, <2>3 DEF Sums
      <4>3. IsFiniteSet(t) /\ t \ {Pick(t)} \in SUBSET (t \cap (t \ {Pick(t)}))
        BY <1>1, FS_Subset
      <4>4. G(t)[t \ {Pick(t)}] = G(t \ {Pick(t)})[t \ {Pick(t)}]
        BY <4>1, <4>3, SumsAgree
      <4>5. all[t] = G(t)[t]
        BY <2>3, <3>4
      <4> HIDE DEF all
      <4> QED
        BY <2>3, <3>2, <4>2, <4>4, <4>5
    <3> QED
      BY <3>3, <3>4
  <2> QED
    BY <2>2, <2>3
<1> QED
  BY <1>1, <1>3

\* The recursion that SumFunctionOnSet computes.
LEMMA SumDef ==
  ASSUME NEW f, NEW S, IsFiniteSet(S)
  PROVE  SumFunctionOnSet(f, S)
           = IF S = {} THEN 0 ELSE f[Pick(S)] + SumFunctionOnSet(f, S \ {Pick(S)})
<1> DEFINE G(t) == CHOOSE g : Sums(f, t, g)
<1>1. \A t \in SUBSET S : IsFiniteSet(t) /\ Sums(f, t, G(t)) /\ SumFunctionOnSet(f, t) = G(t)[t]
  BY FS_Subset, SumsExist, SumIsChosen
<1> HIDE DEF G
<1>2. CASE S = {}
  BY <1>1, <1>2 DEF Sums
<1>3. CASE S # {}
  <2> DEFINE T == S \ {Pick(S)}
  <2>1. G(S)[S] = f[Pick(S)] + G(S)[T]
    BY <1>1, <1>3 DEF Sums
  <2>2. G(S)[T] = G(T)[T]
    <3>1. Sums(f, S, G(S)) /\ Sums(f, T, G(T)) /\ T \in SUBSET (S \cap T) /\ IsFiniteSet(S)
      BY <1>1
    <3> HIDE DEF T
    <3> QED
      BY <3>1, SumsAgree
  <2>3. SumFunctionOnSet(f, T) = G(T)[T] /\ SumFunctionOnSet(f, S) = G(S)[S]
    BY <1>1
  <2> QED
    BY <1>3, <2>1, <2>2, <2>3
<1> QED
  BY <1>2, <1>3

\* The empty sum is zero.
LEMMA SumEmpty ==
  ASSUME NEW f
  PROVE  SumFunctionOnSet(f, {}) = 0
BY FS_EmptySet, SumDef

\* A finite sum of integers is an integer.
LEMMA SumInt ==
  ASSUME NEW f, NEW S, IsFiniteSet(S), \A x \in S : f[x] \in Int
  PROVE  SumFunctionOnSet(f, S) \in Int
<1> DEFINE C == {s \in SUBSET S : SumFunctionOnSet(f, s) \notin Int}
<1> SUFFICES ASSUME C # {} PROVE FALSE
  OBVIOUS
<1>1. PICK s \in C : IsFiniteSet(s) /\ \A x \in s : s \ {x} \notin C
  <2>1. C \subseteq SUBSET S
    OBVIOUS
  <2> HIDE DEF C
  <2> QED
    BY <2>1, SmallestSubset
<1>2. s # {}
  BY <1>1, SumEmpty
<1>3. Pick(s) \in s
  BY <1>2 DEF Pick
<1>4. SumFunctionOnSet(f, s) = f[Pick(s)] + SumFunctionOnSet(f, s \ {Pick(s)})
  BY <1>1, <1>2, SumDef
<1> QED
  BY <1>1, <1>3, <1>4

\* A sum does not depend on the order in which the elements are taken.
LEMMA SumRemove ==
  ASSUME NEW f, NEW S, IsFiniteSet(S), \A x \in S : f[x] \in Int, NEW e \in S
  PROVE  SumFunctionOnSet(f, S) = f[e] + SumFunctionOnSet(f, S \ {e})
<1> DEFINE Sum(s) == SumFunctionOnSet(f, s)
           C == {s \in SUBSET S : \E x \in s : Sum(s) # f[x] + Sum(s \ {x})}
<1> SUFFICES ASSUME C # {} PROVE FALSE
  OBVIOUS
<1>1. PICK s \in C : IsFiniteSet(s) /\ \A x \in s : s \ {x} \notin C
  <2>1. C \subseteq SUBSET S
    OBVIOUS
  <2> HIDE DEF C
  <2> QED
    BY <2>1, SmallestSubset
<1>2. PICK x \in s : Sum(s) # f[x] + Sum(s \ {x})
  BY <1>1
<1> DEFINE p == Pick(s)
           u == s \ {p}
           v == s \ {x}
           w == s \ {p, x}
<1>3. p \in s
  BY DEF Pick
<1> HIDE DEF p
<1>4. Sum(s) = f[p] + Sum(u)
  BY <1>1, SumDef DEF p
<1>5. p # x
  BY <1>2, <1>4
<1>6. Sum(u) = f[x] + Sum(w) /\ Sum(v) = f[p] + Sum(w)
  <2>1. u \ {x} = w /\ v \ {p} = w /\ x \in u /\ p \in v
    BY <1>2, <1>3, <1>5
  <2>2. u \in SUBSET S /\ v \in SUBSET S /\ u \notin C /\ v \notin C
    BY <1>1, <1>2, <1>3
  <2>3. \A y \in u : Sum(u) = f[y] + Sum(u \ {y})
    BY <2>2
  <2>4. \A y \in v : Sum(v) = f[y] + Sum(v \ {y})
    BY <2>2
  <2> HIDE DEF Sum, u, v, w
  <2> QED
    BY <2>1, <2>3, <2>4
<1>7. f[x] \in Int /\ f[p] \in Int /\ Sum(w) \in Int
  <2>1. IsFiniteSet(w) /\ w \subseteq S
    BY <1>1, FS_Subset
  <2> QED
    BY <1>1, <1>3, <2>1, SumInt
<1> QED
  BY <1>2, <1>4, <1>6, <1>7

\* One more element adds its value.
LEMMA SumAdd ==
  ASSUME NEW f, NEW S, IsFiniteSet(S), NEW e, e \notin S, \A x \in S \cup {e} : f[x] \in Int
  PROVE  SumFunctionOnSet(f, S \cup {e}) = f[e] + SumFunctionOnSet(f, S)
<1>1. IsFiniteSet(S \cup {e}) /\ (S \cup {e}) \ {e} = S
  BY FS_AddElement
<1> QED
  BY <1>1, SumRemove

\* A finite sum of naturals is a natural.
LEMMA SumNat ==
  ASSUME NEW f, NEW S, IsFiniteSet(S), \A x \in S : f[x] \in Nat
  PROVE  SumFunctionOnSet(f, S) \in Nat
<1> DEFINE C == {s \in SUBSET S : SumFunctionOnSet(f, s) \in Nat}
<1>1. {} \in C
  BY SumEmpty
<1>2. ASSUME NEW s \in SUBSET S, NEW x \in S \ s, s \in C PROVE s \cup {x} \in C
  <2>1. IsFiniteSet(s) /\ \A y \in s \cup {x} : f[y] \in Int
    BY FS_Subset
  <2>2. SumFunctionOnSet(f, s \cup {x}) = f[x] + SumFunctionOnSet(f, s)
    BY <2>1, SumAdd
  <2> QED
    BY <1>2, <2>2
<1> HIDE DEF C
<1>3. S \in C
  BY <1>1, <1>2, FiniteInduction
<1> QED
  BY <1>3 DEF C

\* Two functions that agree on a set have the same sum over it.
LEMMA SumAgree ==
  ASSUME NEW f, NEW h, NEW S, IsFiniteSet(S), \A x \in S : f[x] = h[x] /\ f[x] \in Int
  PROVE  SumFunctionOnSet(f, S) = SumFunctionOnSet(h, S)
<1> DEFINE C == {s \in SUBSET S : SumFunctionOnSet(f, s) = SumFunctionOnSet(h, s)}
<1>1. {} \in C
  BY SumEmpty
<1>2. ASSUME NEW s \in SUBSET S, NEW x \in S \ s, s \in C PROVE s \cup {x} \in C
  <2>1. IsFiniteSet(s) /\ \A y \in s \cup {x} : f[y] \in Int /\ h[y] \in Int
    BY FS_Subset
  <2>2. /\ SumFunctionOnSet(f, s \cup {x}) = f[x] + SumFunctionOnSet(f, s)
        /\ SumFunctionOnSet(h, s \cup {x}) = h[x] + SumFunctionOnSet(h, s)
    BY <2>1, SumAdd
  <2> QED
    BY <1>2, <2>2
<1> HIDE DEF C
<1>3. S \in C
  BY <1>1, <1>2, FiniteInduction
<1> QED
  BY <1>3 DEF C

\* The larger function has the larger sum.
LEMMA SumMonotone ==
  ASSUME NEW f, NEW h, NEW S, IsFiniteSet(S),
         \A x \in S : f[x] \in Int /\ h[x] \in Int /\ f[x] <= h[x]
  PROVE  SumFunctionOnSet(f, S) <= SumFunctionOnSet(h, S)
<1> DEFINE C == {s \in SUBSET S : SumFunctionOnSet(f, s) <= SumFunctionOnSet(h, s)}
<1>1. {} \in C
  BY SumEmpty
<1>2. ASSUME NEW s \in SUBSET S, NEW x \in S \ s, s \in C PROVE s \cup {x} \in C
  <2>1. IsFiniteSet(s) /\ \A y \in s \cup {x} : f[y] \in Int /\ h[y] \in Int
    BY FS_Subset
  <2>2. /\ SumFunctionOnSet(f, s \cup {x}) = f[x] + SumFunctionOnSet(f, s)
        /\ SumFunctionOnSet(h, s \cup {x}) = h[x] + SumFunctionOnSet(h, s)
    BY <2>1, SumAdd
  <2>3. SumFunctionOnSet(f, s) \in Int /\ SumFunctionOnSet(h, s) \in Int
    BY <2>1, SumInt
  <2>4. f[x] \in Int /\ h[x] \in Int /\ f[x] <= h[x]
    OBVIOUS
  <2> QED
    BY <1>2, <2>2, <2>3, <2>4
<1> HIDE DEF C
<1>3. S \in C
  BY <1>1, <1>2, FiniteInduction
<1> QED
  BY <1>3 DEF C

\* The sum of sums.
LEMMA SumPlus ==
  ASSUME NEW f, NEW g, NEW h, NEW S, IsFiniteSet(S),
         \A x \in S : g[x] \in Int /\ h[x] \in Int /\ f[x] = g[x] + h[x]
  PROVE  SumFunctionOnSet(f, S) = SumFunctionOnSet(g, S) + SumFunctionOnSet(h, S)
<1> DEFINE C == {s \in SUBSET S : SumFunctionOnSet(f, s) = SumFunctionOnSet(g, s) + SumFunctionOnSet(h, s)}
<1>1. {} \in C
  BY SumEmpty
<1>2. ASSUME NEW s \in SUBSET S, NEW x \in S \ s, s \in C PROVE s \cup {x} \in C
  <2>1. IsFiniteSet(s) /\ \A y \in s \cup {x} : f[y] \in Int /\ g[y] \in Int /\ h[y] \in Int
    BY FS_Subset
  <2>2. /\ SumFunctionOnSet(f, s \cup {x}) = f[x] + SumFunctionOnSet(f, s)
        /\ SumFunctionOnSet(g, s \cup {x}) = g[x] + SumFunctionOnSet(g, s)
        /\ SumFunctionOnSet(h, s \cup {x}) = h[x] + SumFunctionOnSet(h, s)
    BY <2>1, SumAdd
  <2>3. SumFunctionOnSet(g, s) \in Int /\ SumFunctionOnSet(h, s) \in Int
    BY <2>1, SumInt
  <2>4. g[x] \in Int /\ h[x] \in Int /\ f[x] = g[x] + h[x]
    OBVIOUS
  <2> QED
    BY <1>2, <2>2, <2>3, <2>4
<1> HIDE DEF C
<1>3. S \in C
  BY <1>1, <1>2, FiniteInduction
<1> QED
  BY <1>3 DEF C

\* A set in two parts.
LEMMA SumUnion ==
  ASSUME NEW f, NEW S, NEW T, IsFiniteSet(S), IsFiniteSet(T), S \cap T = {},
         \A x \in S \cup T : f[x] \in Int
  PROVE  SumFunctionOnSet(f, S \cup T) = SumFunctionOnSet(f, S) + SumFunctionOnSet(f, T)
<1> DEFINE C == {s \in SUBSET T : SumFunctionOnSet(f, S \cup s) = SumFunctionOnSet(f, S) + SumFunctionOnSet(f, s)}
<1>0. SumFunctionOnSet(f, S) \in Int
  BY SumInt
<1>1. {} \in C
  BY <1>0, SumEmpty
<1>2. ASSUME NEW s \in SUBSET T, NEW x \in T \ s, s \in C PROVE s \cup {x} \in C
  <2>1. IsFiniteSet(s) /\ IsFiniteSet(S \cup s) /\ x \notin S \cup s /\ S \cup (s \cup {x}) = (S \cup s) \cup {x}
    BY FS_Subset, FS_Union
  <2>2. \A y \in (S \cup s) \cup {x} : f[y] \in Int
    OBVIOUS
  <2>3. SumFunctionOnSet(f, (S \cup s) \cup {x}) = f[x] + SumFunctionOnSet(f, S \cup s)
    BY <2>1, <2>2, SumAdd
  <2>4. SumFunctionOnSet(f, s \cup {x}) = f[x] + SumFunctionOnSet(f, s)
    BY <2>1, <2>2, SumAdd
  <2>5. SumFunctionOnSet(f, s) \in Int /\ f[x] \in Int
    BY <2>1, <2>2, SumInt
  <2>6. SumFunctionOnSet(f, S \cup s) = SumFunctionOnSet(f, S) + SumFunctionOnSet(f, s)
    BY <1>2
  <2>7. SumFunctionOnSet(f, S \cup (s \cup {x})) = SumFunctionOnSet(f, S) + SumFunctionOnSet(f, s \cup {x})
    <3>1. SumFunctionOnSet(f, S \cup (s \cup {x})) = SumFunctionOnSet(f, (S \cup s) \cup {x})
      BY <2>1
    <3>2. SumFunctionOnSet(f, S \cup (s \cup {x}))
            = f[x] + (SumFunctionOnSet(f, S) + SumFunctionOnSet(f, s))
      BY <3>1, <2>3, <2>6
    <3> QED
      BY <1>0, <3>2, <2>4, <2>5
  <2> QED
    BY <2>7
<1> HIDE DEF C
<1>3. T \in C
  BY <1>1, <1>2, FiniteInduction
<1> QED
  BY <1>3 DEF C

\* More elements of a function without negative values: a larger sum.
LEMMA SumSubset ==
  ASSUME NEW f, NEW S, IsFiniteSet(S), \A x \in S : f[x] \in Nat, NEW T \in SUBSET S
  PROVE  SumFunctionOnSet(f, T) <= SumFunctionOnSet(f, S)
<1>1. IsFiniteSet(T) /\ IsFiniteSet(S \ T) /\ T \cup (S \ T) = S /\ T \cap (S \ T) = {}
  BY FS_Subset
<1>2. SumFunctionOnSet(f, T) \in Nat /\ SumFunctionOnSet(f, S \ T) \in Nat
  BY <1>1, SumNat
<1>3. SumFunctionOnSet(f, T \cup (S \ T)) = SumFunctionOnSet(f, T) + SumFunctionOnSet(f, S \ T)
  BY <1>1, SumUnion
<1>4. SumFunctionOnSet(f, T \cup (S \ T)) = SumFunctionOnSet(f, S)
  BY <1>1
<1> QED
  BY <1>2, <1>3, <1>4

\* What counts for nothing may be left out.
LEMMA SumWhere ==
  ASSUME NEW f, NEW S, IsFiniteSet(S), \A x \in S : f[x] \in Int,
         NEW T \in SUBSET S, \A x \in S \ T : f[x] = 0
  PROVE  SumFunctionOnSet(f, S) = SumFunctionOnSet(f, T)
<1> DEFINE C == {s \in SUBSET (S \ T) : SumFunctionOnSet(f, s) = 0}
<1>1. {} \in C
  BY SumEmpty
<1>2. ASSUME NEW s \in SUBSET (S \ T), NEW x \in (S \ T) \ s, s \in C PROVE s \cup {x} \in C
  <2>1. IsFiniteSet(s) /\ \A y \in s \cup {x} : f[y] \in Int
    BY FS_Subset
  <2>2. SumFunctionOnSet(f, s \cup {x}) = f[x] + SumFunctionOnSet(f, s)
    BY <2>1, SumAdd
  <2> QED
    BY <1>2, <2>2
<1>3. IsFiniteSet(S \ T) /\ IsFiniteSet(T) /\ T \cup (S \ T) = S /\ T \cap (S \ T) = {}
  BY FS_Subset
<1> HIDE DEF C
<1>4. S \ T \in C
  BY <1>1, <1>2, <1>3, FiniteInduction
<1>5. SumFunctionOnSet(f, T \cup (S \ T)) = SumFunctionOnSet(f, T) + SumFunctionOnSet(f, S \ T)
  BY <1>3, SumUnion
<1>6. SumFunctionOnSet(f, T) \in Int
  BY <1>3, SumInt
<1>7. SumFunctionOnSet(f, T \cup (S \ T)) = SumFunctionOnSet(f, S) /\ SumFunctionOnSet(f, S \ T) = 0
  BY <1>3, <1>4 DEF C
<1> QED
  BY <1>5, <1>6, <1>7

\* Fewer elements and smaller values: a smaller sum.
LEMMA SumShrinks ==
  ASSUME NEW f, NEW h, NEW S, IsFiniteSet(S), \A x \in S : f[x] \in Nat,
         NEW T \in SUBSET S, \A x \in T : h[x] \in Int /\ h[x] <= f[x]
  PROVE  SumFunctionOnSet(h, T) <= SumFunctionOnSet(f, S)
<1>1. IsFiniteSet(T) /\ \A x \in T : f[x] \in Int /\ h[x] \in Int /\ h[x] <= f[x]
  BY FS_Subset
<1>2. SumFunctionOnSet(h, T) <= SumFunctionOnSet(f, T)
  BY <1>1, SumMonotone
<1>3. SumFunctionOnSet(f, T) <= SumFunctionOnSet(f, S)
  BY SumSubset
<1>4. SumFunctionOnSet(h, T) \in Int /\ SumFunctionOnSet(f, T) \in Int /\ SumFunctionOnSet(f, S) \in Int
  BY <1>1, SumInt
<1> QED
  BY <1>2, <1>3, <1>4

\* The same values under other names.
LEMMA SumRenamed ==
  ASSUME NEW f, NEW h, NEW m, NEW S, IsFiniteSet(S), \A x \in S : f[x] \in Int /\ f[x] = h[m[x]],
         \A x, y \in S : m[x] = m[y] => x = y
  PROVE  SumFunctionOnSet(f, S) = SumFunctionOnSet(h, {m[x] : x \in S})
<1> DEFINE I(s) == {m[x] : x \in s}
           C == {s \in SUBSET S : IsFiniteSet(I(s)) /\ SumFunctionOnSet(f, s) = SumFunctionOnSet(h, I(s))}
<1>1. {} \in C
  <2>1. I({}) = {}
    OBVIOUS
  <2> QED
    BY <2>1, SumEmpty, FS_EmptySet
<1>2. ASSUME NEW s \in SUBSET S, NEW x \in S \ s, s \in C PROVE s \cup {x} \in C
  <2>1. IsFiniteSet(s) /\ \A y \in s \cup {x} : f[y] \in Int
    BY FS_Subset
  <2>2. SumFunctionOnSet(f, s \cup {x}) = f[x] + SumFunctionOnSet(f, s)
    BY <2>1, SumAdd
  <2>3. I(s \cup {x}) = I(s) \cup {m[x]} /\ m[x] \notin I(s) /\ \A y \in I(s) \cup {m[x]} : h[y] \in Int
    OBVIOUS
  <2>4. IsFiniteSet(I(s)) /\ SumFunctionOnSet(f, s) = SumFunctionOnSet(h, I(s))
    BY <1>2
  <2> HIDE DEF I
  <2>5. SumFunctionOnSet(h, I(s) \cup {m[x]}) = h[m[x]] + SumFunctionOnSet(h, I(s))
    BY <2>3, <2>4, SumAdd
  <2>6. IsFiniteSet(I(s) \cup {m[x]})
    BY <2>4, FS_AddElement
  <2>7. SumFunctionOnSet(f, s \cup {x}) = SumFunctionOnSet(h, I(s \cup {x}))
    BY <2>2, <2>3, <2>4, <2>5
  <2> QED
    BY <2>3, <2>6, <2>7
<1> HIDE DEF C
<1>3. S \in C
  BY <1>1, <1>2, FiniteInduction
<1> QED
  BY <1>3 DEF C

-----------------------------------------------------------------------------
(* Orders, reservations and quotes.                                        *)

USE SalesAssumption

\* There are finitely many reservations, and finitely many lines of a document.
LEMMA RowsFinite == IsFiniteSet(ResvIds) /\ IsFiniteSet(1..MaxLines)
<1>1. IsFiniteSet(1..MaxLines)
  BY FS_Interval
<1>2. IsFiniteSet(Orders \X (1..MaxLines))
  BY <1>1, FS_Product
<1> QED
  BY <1>1, <1>2, FS_Union DEF ResvIds

\* The lines of an order are finitely many, each of its type.
LEMMA LinesAre ==
  ASSUME NEW lines \in LineRows
  PROVE  /\ IsFiniteSet(DOMAIN lines) /\ DOMAIN lines \subseteq 1..MaxLines
         /\ \A l \in DOMAIN lines : lines[l] \in OrderLines
<1>1. PICK n \in 0..MaxLines : lines \in [1..n -> OrderLines]
  BY DEF LineRows
<1>2. DOMAIN lines = 1..n /\ IsFiniteSet(1..n)
  BY <1>1, FS_Interval
<1> QED
  BY <1>1, <1>2

\* A step that leaves orders, reservations and invoices alone.
LEMMA SameRows ==
  ASSUME LinesShip, Billing, RowsBelong, ReadsHold, Budgeted,
         UNCHANGED <<order, resv, invoiced, delivering, releasing>>
  PROVE  (LinesShip /\ Billing /\ RowsBelong /\ ReadsHold /\ Budgeted)'
<1>1. LinesShip'
  BY DEF LinesShip
<1>2. Billing'
  BY DEF Billing
<1>3. RowsBelong'
  BY DEF RowsBelong
<1>4. ReadsHold'
  BY DEF ReadsHold, Idle, Deliveries, Undelivered
<1>5. Budgeted'
  BY DEF Budgeted, BudgetOf, Held, Open, Idle, Reserved, Due
<1> QED
  BY <1>1, <1>2, <1>3, <1>4, <1>5

\* What a document asks for is a quantity.
LEMMA AskedNat ==
  ASSUME NEW n \in Nat, NEW lines, DOMAIN lines = 1..n, \A l \in 1..n : lines[l].qty \in Nat
  PROVE  Asked(lines) \in Nat
<1>1. IsFiniteSet(1..n)
  BY FS_Interval
<1>2. \A l \in 1..n : [k \in DOMAIN lines |-> lines[k].qty][l] \in Nat
  OBVIOUS
<1> QED
  BY <1>1, <1>2, SumNat DEF Asked

\* There is nothing at first.
LEMMA InitInv == Init => IInv
<1> SUFFICES ASSUME Init PROVE IInv
  OBVIOUS
<1> USE DEF Init
<1>0. <<>> \in LineRows
  <2>1. <<>> \in [1..0 -> OrderLines]
    OBVIOUS
  <2>2. 0 \in 0..MaxLines
    OBVIOUS
  <2> QED
    BY <2>1, <2>2 DEF LineRows
<1>1. Shapes
  BY <1>0 DEF Shapes, OrderRows, ResvRows, QuoteRows, NoOrder, NoResv, NoQuote, OrderStatuses, QuoteStatuses
<1>2. LinesShip
  BY DEF LinesShip, NoOrder
<1>3. Billing
  BY DEF Billing, NoOrder
<1>4. RowsBelong
  BY DEF RowsBelong, NoResv
<1>5. ReadsHold
  BY DEF ReadsHold, Idle
<1>6. Budgeted
  BY DEF Budgeted, BudgetOf, NoOrder, NoResv, Open
<1>7. QuotesNameOrders
  BY DEF QuotesNameOrders, NoOrder, NoQuote
<1> QED
  BY <1>1, <1>2, <1>3, <1>4, <1>5, <1>6, <1>7 DEF IInv

\* The lines of a new document have shipped and reserved nothing.
LEMMA InputsAre ==
  ASSUME NEW in \in LineInputs
  PROVE  /\ Asked(in) \in Nat /\ NewLines(in) \in LineRows
         /\ \A l \in DOMAIN NewLines(in) :
              NewLines(in)[l].reserved = 0 /\ NewLines(in)[l].delivered = 0
<1>1. PICK n \in 1..MaxLines : in \in [1..n -> [item : Items, qty : 1..MaxQty]]
  BY DEF LineInputs
<1>2. Asked(in) \in Nat
  <2>1. n \in Nat /\ DOMAIN in = 1..n /\ \A l \in 1..n : in[l].qty \in Nat
    BY <1>1, SalesAssumption
  <2> QED
    BY <2>1, AskedNat
<1>3. NewLines(in) \in [1..n -> OrderLines]
  BY <1>1 DEF NewLines, OrderLines
<1>4. NewLines(in) \in LineRows
  BY <1>1, <1>3 DEF LineRows
<1> QED
  BY <1>1, <1>2, <1>4 DEF NewLines

\* What the capabilities write into a quote is a row of quotes.
LEMMA QuoteRowsAre ==
  ASSUME NEW x \in QuoteRows
  PROVE  /\ \A st \in QuoteStatuses : [x EXCEPT !.status = st] \in QuoteRows
         /\ [x EXCEPT !.lapsed = TRUE] \in QuoteRows
         /\ [x EXCEPT !.status = "accepted", !.invoice = TRUE] \in QuoteRows
         /\ \A o \in Orders \cup {None} : \A st \in QuoteStatuses : [x EXCEPT !.status = st, !.order = o] \in QuoteRows
         /\ \A in \in LineInputs : [NoQuote EXCEPT !.status = "sent", !.lines = in] \in QuoteRows
BY DEF QuoteRows, QuoteStatuses, NoQuote

\* The tables have their columns.
LEMMA Typed ==
  ASSUME Shapes
  PROVE  /\ quote \in [Quotes -> QuoteRows]
         /\ \A o \in Orders : order[o] \in OrderRows /\ order[o].quote \in Quotes \cup {None}
         /\ order \in [Orders -> OrderRows] /\ resv \in [ResvIds -> ResvRows]
BY DEF Shapes, OrderRows

\* Steps on a quote alone.
LEMMA QuoteSteps ==
  ASSUME IInv, NEW q \in Quotes,
         (\E in \in LineInputs : CreateQuote(q, in)) \/ LapseQuote(q) \/ AcceptQuoteRead(q)
           \/ AcceptQuoteClaim(q) \/ DeclineQuote(q)
  PROVE  IInv'
<1>0. Shapes /\ QuotesNameOrders
  BY DEF IInv
<1>1. UNCHANGED <<order, resv, invoiced, delivering, releasing, onHand>>
  BY DEF CreateQuote, LapseQuote, AcceptQuoteRead, AcceptQuoteClaim, DeclineQuote
<1>2. (LinesShip /\ Billing /\ RowsBelong /\ ReadsHold /\ Budgeted)'
  BY <1>1, SameRows DEF IInv
<1>3. quote \in [Quotes -> QuoteRows] /\ \A o \in Orders : order[o].quote \in Quotes \cup {None}
  BY <1>0, Typed
<1>4. "sent" \in QuoteStatuses /\ "declined" \in QuoteStatuses
  BY DEF QuoteStatuses
<1>5. CASE \E in \in LineInputs : CreateQuote(q, in)
  <2>1. PICK in \in LineInputs : CreateQuote(q, in)
    BY <1>5
  <2>2. Shapes'
    BY <1>0, <1>1, <1>3, <2>1, QuoteRowsAre DEF Shapes, CreateQuote
  <2>3. QuotesNameOrders'
    BY <1>0, <1>3, <2>1 DEF QuotesNameOrders, CreateQuote, NoQuote
  <2> QED
    BY <1>2, <2>2, <2>3 DEF IInv
<1>6. CASE LapseQuote(q)
  <2>2. Shapes'
    BY <1>0, <1>1, <1>3, <1>6, QuoteRowsAre DEF Shapes, LapseQuote
  <2>3. QuotesNameOrders'
    BY <1>0, <1>3, <1>6 DEF QuotesNameOrders, LapseQuote
  <2> QED
    BY <1>2, <2>2, <2>3 DEF IInv
<1>7. CASE AcceptQuoteRead(q)
  <2>2. Shapes'
    BY <1>0, <1>7 DEF Shapes, AcceptQuoteRead
  <2>3. QuotesNameOrders'
    BY <1>0, <1>7 DEF QuotesNameOrders, AcceptQuoteRead
  <2> QED
    BY <1>2, <2>2, <2>3 DEF IInv
<1>8. CASE AcceptQuoteClaim(q)
  <2>1. quote[q].status = "sent" => Asked(quote[q].lines) \in Nat
    BY <1>0, InputsAre DEF QuotesNameOrders
  <2>2. Shapes'
    <3>1. [quote EXCEPT ![q].status = "accepted", ![q].invoice = TRUE]
            = [quote EXCEPT ![q] = [quote[q] EXCEPT !.status = "accepted", !.invoice = TRUE]]
      BY <1>3 DEF QuoteRows
    <3>2. quote' = quote \/ quote' = [quote EXCEPT ![q].status = "accepted", ![q].invoice = TRUE]
      BY <1>8 DEF AcceptQuoteClaim
    <3>3. [quote[q] EXCEPT !.status = "accepted", !.invoice = TRUE] \in QuoteRows
      BY <1>3, QuoteRowsAre
    <3>4. quote' \in [Quotes -> QuoteRows]
      BY <1>3, <3>1, <3>2, <3>3
    <3> QED
      BY <1>0, <1>1, <1>8, <2>1, <3>4 DEF Shapes, AcceptQuoteClaim
  <2>3. QuotesNameOrders'
    <3>1. CASE quote[q].status = "sent"
      <4>1. quote' = [quote EXCEPT ![q].status = "accepted", ![q].invoice = TRUE] /\ order' = order
        BY <1>8, <3>1 DEF AcceptQuoteClaim
      <4>2. \A p \in Quotes : quote[p].lines = quote'[p].lines /\ (p # q => quote'[p] = quote[p])
        BY <1>3, <4>1 DEF QuoteRows
      <4>3. quote'[q].status = "accepted"
        BY <1>3, <4>1 DEF QuoteRows
      <4> QED
        BY <1>0, <1>3, <3>1, <4>1, <4>2, <4>3 DEF QuotesNameOrders
    <3>2. CASE quote[q].status # "sent"
      BY <1>0, <1>8, <3>2 DEF QuotesNameOrders, AcceptQuoteClaim
    <3> QED
      BY <3>1, <3>2
  <2> QED
    BY <1>2, <2>2, <2>3 DEF IInv
<1>9. CASE DeclineQuote(q)
  <2>2. Shapes'
    BY <1>0, <1>1, <1>3, <1>4, <1>9, QuoteRowsAre DEF Shapes, DeclineQuote
  <2>3. QuotesNameOrders'
    BY <1>0, <1>3, <1>9 DEF QuotesNameOrders, DeclineQuote
  <2> QED
    BY <1>2, <2>2, <2>3 DEF IInv
<1> QED
  BY <1>5, <1>6, <1>7, <1>8, <1>9

\* ExpireQuote, the sweep of quotes.
LEMMA ExpireQuoteStep == ASSUME IInv, ExpireQuote PROVE IInv'
<1>0. Shapes /\ QuotesNameOrders
  BY DEF IInv
<1>1. (LinesShip /\ Billing /\ RowsBelong /\ ReadsHold /\ Budgeted)'
  BY SameRows DEF ExpireQuote, IInv
<1>3. quote \in [Quotes -> QuoteRows] /\ \A o \in Orders : order[o].quote \in Quotes \cup {None}
  BY <1>0, Typed
<1>4. "expired" \in QuoteStatuses
  BY DEF QuoteStatuses
<1>5. Shapes'
  BY <1>0, <1>3, <1>4, QuoteRowsAre DEF Shapes, ExpireQuote
<1>6. QuotesNameOrders'
  BY <1>0, <1>3 DEF QuotesNameOrders, ExpireQuote, QuoteRows
<1> QED
  BY <1>1, <1>5, <1>6 DEF IInv

\* Stock arrives and the customer pays.
LEMMA OtherSteps ==
  ASSUME IInv, (\E i \in Items : StockArrives(i)) \/ CustomerPays
  PROVE  IInv'
<1> USE DEF IInv
<1>1. UNCHANGED <<order, resv, quote, invoiced, delivering, releasing, accepting>>
  BY DEF StockArrives, CustomerPays
<1>2. (LinesShip /\ Billing /\ RowsBelong /\ ReadsHold /\ Budgeted)'
  BY <1>1, SameRows
<1>3. Shapes'
  <2>1. CASE \E i \in Items : StockArrives(i)
    BY <2>1 DEF Shapes, StockArrives
  <2>2. CASE CustomerPays
    BY <2>2 DEF Shapes, CustomerPays
  <2> QED
    BY <2>1, <2>2
<1>4. QuotesNameOrders'
  BY <1>1 DEF QuotesNameOrders
<1> QED
  BY <1>2, <1>3, <1>4

\* Orders and their lines.
LEMMA OrderRowsAre ==
  ASSUME NEW lines \in LineRows
  PROVE  /\ [NoOrder EXCEPT !.status = "draft", !.lines = lines] \in OrderRows
         /\ \A q \in Quotes : [NoOrder EXCEPT !.status = "draft", !.lines = lines, !.quote = q] \in OrderRows
         /\ \A x \in OrderRows : [x EXCEPT !.lines = lines] \in OrderRows
         /\ \A x \in OrderRows, st \in OrderStatuses, b \in BOOLEAN :
              [x EXCEPT !.status = st, !.backordered = b, !.lines = lines] \in OrderRows
BY DEF OrderRows, OrderStatuses, NoOrder

\* An order that gets new lines has promised and shipped nothing.
LEMMA NewOrderStep ==
  ASSUME IInv, NEW o \in Orders, order[o].status \in {"none", "draft"},
         NEW row \in OrderRows, row.status = "draft",
         \A l \in DOMAIN row.lines : row.lines[l].reserved = 0 /\ row.lines[l].delivered = 0,
         order' = [order EXCEPT ![o] = row],
         UNCHANGED <<resv, invoiced, delivering, releasing>>
  PROVE  (LinesShip /\ Billing /\ RowsBelong /\ ReadsHold /\ Budgeted)'
<1>0. Shapes /\ LinesShip /\ Billing /\ RowsBelong /\ ReadsHold /\ Budgeted
  BY DEF IInv
<1>1. order' \in [Orders -> OrderRows] /\ order'[o] = row /\ \A p \in Orders \ {o} : order'[p] = order[p]
  BY <1>0, Typed
<1>2. row.lines \in LineRows /\ \A l \in DOMAIN row.lines : row.lines[l] \in OrderLines
  BY LinesAre DEF OrderRows
<1>3. LinesShip'
  BY <1>0, <1>1, <1>2 DEF LinesShip, OrderLines
<1>4. Billing'
  <2>1. \A l \in DOMAIN order[o].lines : order[o].lines[l].delivered = 0
    BY <1>0 DEF LinesShip
  <2> QED
    BY <1>0, <1>1, <2>1 DEF Billing
<1>5. RowsBelong'
  BY <1>0, <1>1 DEF RowsBelong
<1>6. Idle(o)
  BY <1>0 DEF ReadsHold
<1>7. ReadsHold'
  BY <1>0, <1>1, <1>6 DEF ReadsHold, Idle, Deliveries, Undelivered
<1>8. Budgeted'
  <2>1. Open(o) = {} /\ \A p \in Orders : Open(p)' = Open(p) /\ Held(p)' = Held(p)
    BY <1>0 DEF Budgeted, BudgetOf, Open, Held, Idle
  <2>2. \A p \in Orders \ {o} : \A i \in Stocked : Reserved(Held(p), i)' = Reserved(Held(p), i)
    BY <2>1 DEF Reserved
  <2> QED
    BY <1>0, <1>1, <2>1, <2>2 DEF Budgeted, BudgetOf
<1> QED
  BY <1>3, <1>4, <1>5, <1>7, <1>8

\* createSalesOrder.
LEMMA CreateOrderStep ==
  ASSUME IInv, NEW o \in Orders, NEW in \in LineInputs, CreateOrder(o, in)
  PROVE  IInv'
<1>0. Shapes /\ QuotesNameOrders /\ order \in [Orders -> OrderRows]
  BY Typed DEF IInv
<1> DEFINE row == [NoOrder EXCEPT !.status = "draft", !.lines = NewLines(in)]
<1>1. row \in OrderRows /\ row.status = "draft" /\ row.lines = NewLines(in) /\ row.quote = None
  BY InputsAre, OrderRowsAre DEF NoOrder
<1>2. /\ order' = [order EXCEPT ![o] = row] /\ order[o].status = "none"
      /\ UNCHANGED <<onHand, resv, quote, ar, invoiced, delivering, accepting, releasing>>
  BY DEF CreateOrder
<1> HIDE DEF row
<1>3. (LinesShip /\ Billing /\ RowsBelong /\ ReadsHold /\ Budgeted)'
  BY <1>1, <1>2, InputsAre, NewOrderStep
<1>4. Shapes'
  BY <1>0, <1>1, <1>2 DEF Shapes
<1>5. QuotesNameOrders'
  <2>1. order'[o] = row /\ \A p \in Orders \ {o} : order'[p] = order[p]
    BY <1>0, <1>2
  <2> QED
    BY <1>0, <1>1, <1>2, <2>1 DEF QuotesNameOrders
<1> QED
  BY <1>3, <1>4, <1>5 DEF IInv

\* createSalesOrder with a quote: the quote names one order.
LEMMA CreateOrderFromQuoteStep ==
  ASSUME IInv, NEW o \in Orders, NEW q \in Quotes, CreateOrderFromQuote(o, q)
  PROVE  IInv'
<1>0. Shapes /\ QuotesNameOrders /\ order \in [Orders -> OrderRows] /\ quote \in [Quotes -> QuoteRows]
  BY Typed DEF IInv
<1> DEFINE row == [NoOrder EXCEPT !.status = "draft", !.lines = NewLines(quote[q].lines), !.quote = q]
<1>1. quote[q].lines \in LineInputs
  BY <1>0 DEF QuotesNameOrders, CreateOrderFromQuote
<1>2. row \in OrderRows /\ row.status = "draft" /\ row.lines = NewLines(quote[q].lines) /\ row.quote = q
  BY <1>1, InputsAre, OrderRowsAre DEF NoOrder
<1>3. /\ order' = [order EXCEPT ![o] = row] /\ order[o].status = "none"
      /\ UNCHANGED <<onHand, resv, ar, invoiced, delivering, accepting, releasing>>
  BY DEF CreateOrderFromQuote
<1> HIDE DEF row
<1>4. (LinesShip /\ Billing /\ RowsBelong /\ ReadsHold /\ Budgeted)'
  BY <1>1, <1>2, <1>3, InputsAre, NewOrderStep
<1>5. /\ quote[q].status = "sent" /\ quote' \in [Quotes -> QuoteRows]
      /\ quote'[q].status = "accepted" /\ quote'[q].order = o
      /\ quote'[q].lines = quote[q].lines /\ quote'[q].invoice = quote[q].invoice
      /\ \A p \in Quotes \ {q} : quote'[p] = quote[p]
  <2>1. quote' = [quote EXCEPT ![q] = [quote[q] EXCEPT !.status = "accepted", !.order = o]]
    BY <1>0 DEF CreateOrderFromQuote, QuoteRows
  <2>2. [quote[q] EXCEPT !.status = "accepted", !.order = o] \in QuoteRows
    BY <1>0, QuoteRowsAre DEF QuoteStatuses
  <2>3. quote[q].status = "sent"
    BY DEF CreateOrderFromQuote
  <2> QED
    BY <1>0, <2>1, <2>2, <2>3 DEF QuoteRows
<1>6. Shapes'
  BY <1>0, <1>2, <1>3, <1>5 DEF Shapes
<1>7. QuotesNameOrders'
  <2>1. \A p \in Orders : order[p].quote = q => order[p].status = "cancelled"
    BY <1>0, <1>5 DEF QuotesNameOrders
  <2>2. \A p \in Orders \ {o} : order'[p] = order[p]
    BY <1>0, <1>3
  <2>3. order'[o] = row /\ \A p \in Orders : order[p].quote \in Quotes \cup {None}
    BY <1>0, <1>3, Typed
  <2> QED
    BY <1>0, <1>1, <1>2, <1>5, <2>1, <2>2, <2>3 DEF QuotesNameOrders
<1> QED
  BY <1>4, <1>6, <1>7 DEF IInv

\* updateSalesOrder changes drafts only.
LEMMA UpdateDraftOrderStep ==
  ASSUME IInv, NEW o \in Orders, NEW in \in LineInputs, UpdateDraftOrder(o, in)
  PROVE  IInv'
<1>0. Shapes /\ QuotesNameOrders /\ order \in [Orders -> OrderRows]
  BY Typed DEF IInv
<1> DEFINE row == [order[o] EXCEPT !.lines = NewLines(in)]
<1>1. row \in OrderRows /\ row.status = "draft" /\ row.lines = NewLines(in) /\ row.quote = order[o].quote
  <2>1. NewLines(in) \in LineRows /\ order[o] \in OrderRows /\ order[o].status = "draft"
    BY <1>0, InputsAre DEF UpdateDraftOrder
  <2> QED
    BY <2>1, SMTT(20) DEF OrderRows
<1>2. order' = [order EXCEPT ![o] = row] /\ order[o].status = "draft"
  BY DEF UpdateDraftOrder
<1> HIDE DEF row
<1>3. (LinesShip /\ Billing /\ RowsBelong /\ ReadsHold /\ Budgeted)'
  BY <1>1, <1>2, InputsAre, NewOrderStep DEF UpdateDraftOrder
<1>4. Shapes'
  BY <1>0, <1>1, <1>2 DEF Shapes, UpdateDraftOrder
<1>5. QuotesNameOrders'
  BY <1>0, <1>1, <1>2 DEF QuotesNameOrders, UpdateDraftOrder
<1> QED
  BY <1>3, <1>4, <1>5 DEF IInv

-----------------------------------------------------------------------------
\* Reservations.
Total(f, S, i) == SumFunctionOnSet([r \in ResvIds |-> f[r].qty], {r \in S : f[r].item = i})

\* Fewer reservations with smaller quantities hold less.
LEMMA HeldShrinks ==
  ASSUME NEW f \in [ResvIds -> ResvRows], NEW h \in [ResvIds -> ResvRows],
         NEW T \in SUBSET ResvIds, NEW S \in SUBSET T, NEW i,
         \A r \in S : h[r].item = f[r].item /\ h[r].qty <= f[r].qty
  PROVE  Total(h, S, i) <= Total(f, T, i)
<1> DEFINE F == [r \in ResvIds |-> f[r].qty]
           H == [r \in ResvIds |-> h[r].qty]
           A == {r \in S : h[r].item = i}
           B == {r \in T : f[r].item = i}
<1>1. IsFiniteSet(B) /\ A \in SUBSET B
  BY RowsFinite, FS_Subset
<1>2. (\A r \in B : F[r] \in Nat) /\ \A r \in A : H[r] \in Int /\ H[r] <= F[r]
  BY DEF ResvRows
<1> HIDE DEF F, H, A, B
<1>3. SumFunctionOnSet(H, A) <= SumFunctionOnSet(F, B)
  BY <1>1, <1>2, SumShrinks
<1> QED
  BY <1>3 DEF F, H, A, B, Total

\* What reservations hold of an item is a quantity.
LEMMA ReservedNat ==
  ASSUME Shapes, NEW S \in SUBSET ResvIds, NEW i
  PROVE  Reserved(S, i) \in Nat
<1> DEFINE A == {r \in S : resv[r].item = i}
<1>1. IsFiniteSet(A) /\ \A r \in A : [s \in ResvIds |-> resv[s].qty][r] \in Nat
  BY RowsFinite, FS_Subset DEF Shapes, ResvRows
<1> QED
  BY <1>1, SumNat DEF Reserved

\* What is due of an item is a number.
LEMMA DueInt ==
  ASSUME NEW lines \in LineRows, NEW i
  PROVE  Due(lines, i) \in Int
<1> DEFINE A == {l \in DOMAIN lines : lines[l].item = i}
           F == [l \in DOMAIN lines |-> lines[l].reserved - lines[l].delivered]
<1>1. IsFiniteSet(A) /\ \A l \in A : F[l] \in Int
  BY LinesAre, FS_Subset DEF OrderLines
<1> QED
  BY <1>1, SumInt DEF Due

\* Whoever takes from the reservations of an order leaves it within its budget.
LEMMA BudgetKept ==
  ASSUME Shapes, Budgeted, resv' \in [ResvIds -> ResvRows], NEW p \in Orders,
         order'[p] = order[p], Held(p) \subseteq ResvIds,
         Open(p)' \subseteq Open(p), Held(p)' \subseteq Held(p),
         \A r \in Held(p)' : resv'[r].item = resv[r].item /\ resv'[r].qty <= resv[r].qty
  PROVE  BudgetOf(p)'
<1>1. CASE order[p].status \in {"confirmed", "delivered"}
  <2> SUFFICES ASSUME NEW i \in Stocked PROVE Reserved(Held(p), i)' <= Due(order[p].lines, i)
    BY <1>1 DEF BudgetOf, Due, Stocked
  <2>1. Reserved(Held(p), i)' <= Reserved(Held(p), i)
    <3>1. /\ resv \in [ResvIds -> ResvRows] /\ Held(p) \in SUBSET ResvIds
          /\ Held(p)' \in SUBSET Held(p)
      BY Typed
    <3>2. Total(resv', Held(p)', i) <= Total(resv, Held(p), i)
      BY <3>1, HeldShrinks
    <3> QED
      BY <3>2 DEF Reserved, Total
  <2>2. Reserved(Held(p), i) <= Due(order[p].lines, i)
    BY <1>1 DEF Budgeted, BudgetOf
  <2>3. Reserved(Held(p), i) \in Nat
    BY ReservedNat
  <2>4. Reserved(Held(p), i)' \in Nat
    <3>1. Held(p)' \in SUBSET ResvIds
      OBVIOUS
    <3> DEFINE A == {r \in Held(p)' : resv'[r].item = i}
    <3>2. IsFiniteSet(A) /\ \A r \in A : [s \in ResvIds |-> resv'[s].qty][r] \in Nat
      BY <3>1, RowsFinite, FS_Subset DEF ResvRows
    <3>3. SumFunctionOnSet([s \in ResvIds |-> resv'[s].qty], A) \in Nat
      BY <3>2, SumNat
    <3> QED
      BY <3>3 DEF Reserved
  <2>5. Due(order[p].lines, i) \in Int
    BY DueInt, Typed DEF OrderRows
  <2> QED
    BY <2>1, <2>2, <2>3, <2>4, <2>5
<1>2. CASE order[p].status \notin {"confirmed", "delivered"}
  BY <1>2 DEF Budgeted, BudgetOf
<1> QED
  BY <1>1, <1>2

\* What a delivery may still consume are reservations of its order.
LEMMA HeldRows ==
  ASSUME Shapes, RowsBelong, ReadsHold, NEW p \in Orders
  PROVE  /\ Open(p) \subseteq Held(p)
         /\ Held(p) \subseteq {r \in ResvIds : resv[r].status # "none" /\ resv[r].by = p}
         /\ \A r \in Held(p) : \E l \in 1..MaxLines : r = <<p, l>>
<1>1. Held(p) \subseteq {r \in ResvIds : resv[r].status # "none" /\ resv[r].by = p}
  BY DEF Held, Open, ReadsHold
<1> QED
  BY <1>1 DEF Held, RowsBelong

\* deliverSalesOrder reads the open reservations of its order.
LEMMA DeliverOrderReadStep ==
  ASSUME IInv, NEW o \in Orders, NEW d \in Deliveries(o), DeliverOrderRead(o, d)
  PROVE  IInv'
<1>0. Shapes /\ LinesShip /\ Billing /\ RowsBelong /\ ReadsHold /\ Budgeted /\ QuotesNameOrders
  BY DEF IInv
<1>1. /\ order[o].status \in {"confirmed", "delivered"}
      /\ delivering' = [delivering EXCEPT ![o] = [lines |-> d, open |-> Open(o)]]
      /\ UNCHANGED <<onHand, order, resv, quote, ar, invoiced, accepting, releasing>>
      /\ Idle(o)
  BY DEF DeliverOrderRead
<1>2. (Shapes /\ LinesShip /\ Billing /\ RowsBelong /\ QuotesNameOrders)'
  BY <1>0, <1>1 DEF Shapes, LinesShip, Billing, RowsBelong, QuotesNameOrders
<1>3. /\ delivering'[o] = [lines |-> d, open |-> Open(o)]
      /\ \A p \in Orders \ {o} : delivering'[p] = delivering[p]
  BY <1>0, <1>1 DEF Shapes
<1>4. \A p \in Orders : Open(p)' = Open(p) /\ Deliveries(p)' = Deliveries(p)
  BY <1>1 DEF Open, Deliveries, Undelivered
<1>5. ReadsHold'
  BY <1>0, <1>1, <1>3, <1>4 DEF ReadsHold, Idle, Open
<1>6. \A p \in Orders : Held(p)' = Held(p)
  BY <1>1, <1>3, <1>4 DEF Held, Idle
<1>7. Budgeted'
  BY <1>0, <1>1, <1>4, <1>6 DEF Budgeted, BudgetOf, Reserved
<1> QED
  BY <1>2, <1>5, <1>7 DEF IInv

\* A delivery that is refused changes nothing but itself.
LEMMA DeliverOrderRefusedStep ==
  ASSUME IInv, NEW o \in Orders, DeliverOrderRefused(o)
  PROVE  IInv'
<1>0. Shapes /\ LinesShip /\ Billing /\ RowsBelong /\ ReadsHold /\ Budgeted /\ QuotesNameOrders
  BY DEF IInv
<1>1. /\ delivering' = [delivering EXCEPT ![o] = None]
      /\ UNCHANGED <<onHand, order, resv, quote, ar, invoiced, accepting, releasing>>
  BY DEF DeliverOrderRefused
<1>2. (Shapes /\ LinesShip /\ Billing /\ RowsBelong /\ QuotesNameOrders)'
  BY <1>0, <1>1 DEF Shapes, LinesShip, Billing, RowsBelong, QuotesNameOrders
<1>3. delivering'[o] = None /\ \A p \in Orders \ {o} : delivering'[p] = delivering[p]
  BY <1>0, <1>1 DEF Shapes
<1>4. \A p \in Orders : Open(p)' = Open(p) /\ Deliveries(p)' = Deliveries(p)
  BY <1>1 DEF Open, Deliveries, Undelivered
<1>5. ReadsHold'
  BY <1>0, <1>1, <1>3, <1>4 DEF ReadsHold, Idle
<1>6. \A p \in Orders : Held(p)' \subseteq Held(p)
  BY <1>1, <1>3, <1>4 DEF Held, Idle
<1>7. Budgeted'
  <2> SUFFICES ASSUME NEW p \in Orders PROVE BudgetOf(p)'
    BY DEF Budgeted
  <2>1. Held(p) \subseteq ResvIds
    BY <1>0, HeldRows
  <2>2. resv' \in [ResvIds -> ResvRows] /\ resv \in [ResvIds -> ResvRows]
    BY <1>0, <1>1, Typed
  <2>3. \A r \in ResvIds : resv'[r].item = resv[r].item /\ resv'[r].qty <= resv[r].qty
    BY <1>1, <2>2 DEF ResvRows
  <2> QED
    BY <1>0, <1>1, <1>4, <1>6, <2>1, <2>2, <2>3, BudgetKept
<1> QED
  BY <1>2, <1>5, <1>7 DEF IInv

\* reserveStock opens a hold of no order.
LEMMA ReserveStockStep ==
  ASSUME IInv, NEW h \in Holds, NEW i \in Items, NEW n \in 1..MaxQty, ReserveStock(h, i, n)
  PROVE  IInv'
<1>0. Shapes /\ LinesShip /\ Billing /\ RowsBelong /\ ReadsHold /\ Budgeted /\ QuotesNameOrders
  BY DEF IInv
<1> DEFINE row == [status |-> "open", item |-> i, qty |-> n, by |-> None]
<1>1. /\ resv[h].status = "none" /\ resv' = [resv EXCEPT ![h] = row]
      /\ UNCHANGED <<onHand, order, quote, ar, invoiced, delivering, accepting, releasing>>
  BY DEF ReserveStock
<1>2. row \in ResvRows /\ row.by = None /\ row.status = "open" /\ h \in ResvIds
  BY DEF ResvRows, ResvIds
<1> HIDE DEF row
<1>3. /\ resv' \in [ResvIds -> ResvRows] /\ resv'[h] = row
      /\ \A r \in ResvIds \ {h} : resv'[r] = resv[r]
  BY <1>0, <1>1, <1>2, Typed
<1>4. (Shapes /\ LinesShip /\ Billing /\ QuotesNameOrders)'
  BY <1>0, <1>1, <1>3 DEF Shapes, LinesShip, Billing, QuotesNameOrders
<1>5. RowsBelong'
  BY <1>0, <1>1, <1>2, <1>3 DEF RowsBelong
<1>6. ReadsHold'
  BY <1>0, <1>1, <1>3 DEF ReadsHold, Idle, Deliveries, Undelivered
<1>7. \A p \in Orders : Open(p)' \subseteq Open(p) /\ Held(p)' \subseteq Held(p) /\ h \notin Held(p)
  <2>1. \A p \in Orders : Open(p)' \subseteq Open(p)
    BY <1>2, <1>3 DEF Open
  <2> QED
    BY <1>0, <1>1, <2>1, HeldRows DEF Held, Idle
<1>8. Budgeted'
  <2> SUFFICES ASSUME NEW p \in Orders PROVE BudgetOf(p)'
    BY DEF Budgeted
  <2>1. Held(p) \subseteq ResvIds
    BY <1>0, HeldRows
  <2>2. \A r \in Held(p)' : resv'[r].item = resv[r].item /\ resv'[r].qty <= resv[r].qty
    BY <1>0, <1>3, <1>7, <2>1, Typed DEF ResvRows
  <2> QED
    BY <1>0, <1>1, <1>3, <1>7, <2>1, <2>2, BudgetKept
<1> QED
  BY <1>4, <1>5, <1>6, <1>8 DEF IInv

\* releaseReservation reads an open reservation.
LEMMA ReleaseReservationReadStep ==
  ASSUME IInv, NEW r \in ResvIds, ReleaseReservationRead(r)
  PROVE  IInv'
<1>0. Shapes /\ LinesShip /\ Billing /\ RowsBelong /\ ReadsHold /\ Budgeted /\ QuotesNameOrders
  BY DEF IInv
<1>1. /\ resv[r].status = "open" /\ releasing' = releasing \cup {r}
      /\ UNCHANGED <<onHand, order, resv, quote, ar, invoiced, delivering, accepting>>
  BY DEF ReleaseReservationRead
<1>2. (Shapes /\ LinesShip /\ Billing /\ QuotesNameOrders)'
  BY <1>0, <1>1 DEF Shapes, LinesShip, Billing, QuotesNameOrders
<1>3. RowsBelong'
  BY <1>0, <1>1 DEF RowsBelong
<1>4. ReadsHold' /\ Budgeted'
  BY <1>0, <1>1 DEF ReadsHold, Idle, Deliveries, Undelivered, Budgeted, BudgetOf, Held, Open, Reserved, Due
<1> QED
  BY <1>2, <1>3, <1>4 DEF IInv

\* releaseReservation closes what is still open.
LEMMA ReleaseReservationStep ==
  ASSUME IInv, NEW s \in ResvIds, ReleaseReservation(s)
  PROVE  IInv'
<1>0. Shapes /\ LinesShip /\ Billing /\ RowsBelong /\ ReadsHold /\ Budgeted /\ QuotesNameOrders
  BY DEF IInv
<1>1. /\ s \in releasing /\ releasing' = releasing \ {s}
      /\ resv' = [resv EXCEPT ![s].status = "released"]
      /\ UNCHANGED <<onHand, order, quote, ar, invoiced, delivering, accepting>>
  BY DEF ReleaseReservation
<1>2. resv[s].status # "none"
  BY <1>0, <1>1 DEF RowsBelong
<1>3. /\ resv' \in [ResvIds -> ResvRows] /\ resv'[s].status = "released"
      /\ \A r \in ResvIds : /\ resv'[r].item = resv[r].item /\ resv'[r].qty = resv[r].qty
                            /\ resv'[r].by = resv[r].by
                            /\ r # s => resv'[r].status = resv[r].status
  BY <1>0, <1>1, Typed DEF ResvRows
<1>4. (Shapes /\ LinesShip /\ Billing /\ QuotesNameOrders)'
  BY <1>0, <1>1, <1>3 DEF Shapes, LinesShip, Billing, QuotesNameOrders
<1>5. RowsBelong'
  BY <1>0, <1>1, <1>2, <1>3 DEF RowsBelong
<1>6. ReadsHold'
  BY <1>0, <1>1, <1>3 DEF ReadsHold, Idle, Deliveries, Undelivered
<1>7. \A p \in Orders : Open(p)' \subseteq Open(p) /\ Held(p)' \subseteq Held(p)
  BY <1>1, <1>3 DEF Open, Held, Idle
<1>8. Budgeted'
  <2> SUFFICES ASSUME NEW p \in Orders PROVE BudgetOf(p)'
    BY DEF Budgeted
  <2>1. Held(p) \subseteq ResvIds
    BY <1>0, HeldRows
  <2>2. \A r \in Held(p)' : resv'[r].item = resv[r].item /\ resv'[r].qty <= resv[r].qty
    BY <1>0, <1>3, <1>7, <2>1, Typed DEF ResvRows
  <2> QED
    BY <1>0, <1>1, <1>3, <1>7, <2>1, <2>2, BudgetKept
<1> QED
  BY <1>4, <1>5, <1>6, <1>8 DEF IInv

-----------------------------------------------------------------------------
\* Cancellation.
LEMMA CancelOrderStep ==
  ASSUME IInv, NEW o \in Orders, CancelOrder(o)
  PROVE  IInv'
<1>0. Shapes /\ LinesShip /\ Billing /\ RowsBelong /\ ReadsHold /\ Budgeted /\ QuotesNameOrders
  BY DEF IInv
<1>1. /\ Idle(o) /\ order[o].status \in {"draft", "confirmed"}
      /\ \A l \in DOMAIN order[o].lines : order[o].lines[l].delivered = 0
      /\ order' = [order EXCEPT ![o].status = "cancelled", ![o].backordered = FALSE]
      /\ resv' = [r \in ResvIds |->
           IF r \in ReleasedFor(o) THEN [resv[r] EXCEPT !.status = "released"] ELSE resv[r]]
      /\ quote' = RestoredQuote(o)
      /\ UNCHANGED <<onHand, ar, invoiced, delivering, accepting, releasing>>
  BY DEF CancelOrder
<1>2. /\ order' \in [Orders -> OrderRows]
      /\ order'[o].status = "cancelled" /\ order'[o].lines = order[o].lines
      /\ order'[o].quote = order[o].quote
      /\ \A p \in Orders \ {o} : order'[p] = order[p]
  <2>1. order' = [order EXCEPT ![o] = [order[o] EXCEPT !.status = "cancelled", !.backordered = FALSE]]
    BY <1>0, <1>1, Typed DEF OrderRows
  <2>2. [order[o] EXCEPT !.status = "cancelled", !.backordered = FALSE] \in OrderRows
    BY <1>0, Typed DEF OrderRows, OrderStatuses
  <2> QED
    BY <1>0, <2>1, <2>2, Typed DEF OrderRows
<1>3. /\ resv' \in [ResvIds -> ResvRows]
      /\ \A r \in ResvIds : /\ resv'[r].item = resv[r].item /\ resv'[r].qty = resv[r].qty
                            /\ resv'[r].by = resv[r].by
                            /\ resv'[r].status \in {resv[r].status, "released"}
                            /\ resv[r].status = "none" => resv'[r].status = "none"
                            /\ r \in ReleasedFor(o) => resv'[r].status # "open"
  <2>1. \A r \in ResvIds : [resv[r] EXCEPT !.status = "released"] \in ResvRows
    BY <1>0, Typed DEF ResvRows
  <2>2. \A r \in ReleasedFor(o) : r \in ResvIds /\ resv[r].status = "open"
    BY DEF ReleasedFor, Open
  <2> QED
    BY <1>0, <1>1, <2>1, <2>2, Typed DEF ResvRows
<1>4. quote' \in [Quotes -> QuoteRows]
  <2>1. \A q \in Quotes : [quote[q] EXCEPT !.status = "sent", !.order = None] \in QuoteRows
    BY <1>0, Typed, QuoteRowsAre DEF QuoteStatuses
  <2>2. \A q \in Quotes : [quote EXCEPT ![q].status = "sent", ![q].order = None]
                            = [quote EXCEPT ![q] = [quote[q] EXCEPT !.status = "sent", !.order = None]]
    BY <1>0, Typed DEF QuoteRows
  <2> QED
    BY <1>0, <1>1, <2>1, <2>2, Typed DEF RestoredQuote
<1>5. Shapes'
  BY <1>0, <1>1, <1>2, <1>3, <1>4 DEF Shapes
<1>6. LinesShip'
  BY <1>0, <1>1, <1>2 DEF LinesShip
<1>7. Billing'
  BY <1>0, <1>1, <1>2 DEF Billing
<1>8. RowsBelong'
  BY <1>0, <1>1, <1>2, <1>3 DEF RowsBelong
<1>9. ReadsHold'
  <2>1. ASSUME NEW p \in Orders, ~Idle(p)'
        PROVE  p # o /\ ~Idle(p) /\ order'[p] = order[p] /\ delivering'[p] = delivering[p]
    BY <1>1, <1>2, <2>1 DEF Idle
  <2>2. ASSUME NEW p \in Orders, order'[p] = order[p] PROVE Deliveries(p)' = Deliveries(p)
    BY <2>2 DEF Deliveries, Undelivered
  <2>3. \A r \in ResvIds : resv[r].status # "none" => resv'[r].status # "none" /\ resv'[r].by = resv[r].by
    BY <1>3
  <2> QED
    BY <1>0, <2>1, <2>2, <2>3 DEF ReadsHold
<1>10. \A p \in Orders : Open(p)' \subseteq Open(p) /\ Held(p)' \subseteq Held(p)
  BY <1>1, <1>3 DEF Open, Held, Idle
<1>11. Open(o)' = {}
  <2>1. Open(o) \subseteq ReleasedFor(o)
    BY <1>0, <1>1 DEF ReleasedFor, Budgeted, BudgetOf
  <2> QED
    BY <1>3, <1>10, <2>1 DEF Open
<1>12. Budgeted'
  <2> SUFFICES ASSUME NEW p \in Orders PROVE BudgetOf(p)'
    BY DEF Budgeted
  <2>1. CASE p = o
    BY <1>2, <1>11, <2>1 DEF BudgetOf
  <2>2. CASE p # o
    <3>1. Held(p) \subseteq ResvIds
      BY <1>0, HeldRows
    <3>2. \A r \in Held(p)' : resv'[r].item = resv[r].item /\ resv'[r].qty <= resv[r].qty
      BY <1>0, <1>3, <1>10, <3>1, Typed DEF ResvRows
    <3> QED
      BY <1>0, <1>2, <1>3, <1>10, <2>2, <3>1, <3>2, BudgetKept
  <2> QED
    BY <2>1, <2>2
<1>13. QuotesNameOrders'
  <2> DEFINE q == order[o].quote
  <2>1. CASE quote' = quote
    BY <1>0, <1>1, <1>2, <2>1 DEF QuotesNameOrders
  <2>2. CASE quote' # quote
    <3>1. q \in Quotes /\ quote[q].status = "accepted" /\ quote[q].order = o
      BY <1>0, <1>1, <2>2, Typed DEF RestoredQuote
    <3>2. /\ quote'[q].invoice = quote[q].invoice /\ quote'[q].lines = quote[q].lines
          /\ \A p \in Quotes \ {q} : quote'[p] = quote[p]
      BY <1>0, <1>1, <3>1, Typed DEF RestoredQuote, QuoteRows
    <3>3. ~quote[q].invoice
      BY <1>0, <1>1, <3>1 DEF QuotesNameOrders
    <3>4. \A p \in Orders \ {o} : order[p].quote = q => order[p].status = "cancelled"
      BY <1>0, <3>1 DEF QuotesNameOrders
    <3>5. \A p \in Orders : order[p].quote \in Quotes \cup {None}
      BY <1>0, Typed
    <3> HIDE DEF q
    <3> QED
      BY <1>0, <1>2, <3>1, <3>2, <3>3, <3>4, <3>5 DEF QuotesNameOrders
  <2> QED
    BY <2>1, <2>2
<1> QED
  BY <1>5, <1>6, <1>7, <1>8, <1>9, <1>12, <1>13 DEF IInv

-----------------------------------------------------------------------------
\* Confirmation.
ItemLines(lines, i) == {l \in DOMAIN lines : lines[l].item = i}
Free(i) == IF onHand[i] - OpenReserved(i) > 0 THEN onHand[i] - OpenReserved(i) ELSE 0

\* What is promised of an item is a quantity.
LEMMA OpenReservedNat == ASSUME Shapes, NEW i PROVE OpenReserved(i) \in Nat
<1>1. {r \in ResvIds : resv[r].status = "open"} \in SUBSET ResvIds
  OBVIOUS
<1> QED
  BY <1>1, ReservedNat DEF OpenReserved

\* The lines of one item share one budget: what is free.
LEMMA TakesFit ==
  ASSUME Shapes, NEW o \in Orders, NEW takes \in Takes(o), NEW i \in Stocked
  PROVE  SumFunctionOnSet(takes, ItemLines(order[o].lines, i)) <= Free(i)
<1> DEFINE lines == order[o].lines
           Upto(m) == {l \in ItemLines(lines, i) : l <= m}
           Sum(m) == SumFunctionOnSet(takes, Upto(m))
<1>1. lines \in LineRows
  BY Typed DEF OrderRows
<1>2. PICK n \in 0..MaxLines : lines \in [1..n -> OrderLines]
  BY <1>1 DEF LineRows
<1>3. /\ DOMAIN lines = 1..n /\ takes \in [1..n -> 0..MaxQty]
      /\ \A l \in ItemLines(lines, i) : lines[l].qty \in Nat
  <2>1. DOMAIN lines = 1..n /\ takes \in [DOMAIN lines -> 0..MaxQty]
    BY <1>2 DEF Takes
  <2>2. \A l \in 1..n : lines[l].qty \in Nat
    BY <1>2 DEF OrderLines
  <2> QED
    BY <2>1, <2>2 DEF ItemLines
<1>4. Free(i) \in Nat /\ onHand[i] \in Int /\ OpenReserved(i) \in Nat
  BY OpenReservedNat DEF Free, Shapes, Stocked
<1>5. \A m \in Int : IsFiniteSet(Upto(m)) /\ \A l \in Upto(m) : takes[l] \in Nat
  BY <1>3, FS_Interval, FS_Subset DEF ItemLines
<1>6. \A m \in Int : Sum(m) \in Nat
  BY <1>5, SumNat
<1> DEFINE Bad == {m \in 0..n : Sum(m) > Free(i)}
<1>7. SUFFICES Bad = {}
  <2>1. Upto(n) = ItemLines(lines, i)
    BY <1>3 DEF ItemLines
  <2>2. Bad = {} => Sum(n) <= Free(i)
    BY <1>4, <1>6
  <2> QED
    BY <2>1, <2>2, <1>7
<1> SUFFICES ASSUME Bad # {} PROVE FALSE
  OBVIOUS
<1>8. PICK m \in Bad : \A k \in Bad : m <= k
  <2>1. Bad \subseteq Nat
    OBVIOUS
  <2> HIDE DEF Bad
  <2> QED
    BY <2>1, LeastNumber
<1>9. m # 0
  <2>1. Upto(0) = {}
    BY <1>3 DEF ItemLines
  <2>2. Sum(0) = 0
    BY <2>1, SumEmpty
  <2> QED
    BY <1>4, <1>8, <2>2
<1>10. m - 1 \in 0..n /\ Sum(m - 1) <= Free(i) /\ m \in 1..n
  <2>1. m - 1 \in 0..n /\ m - 1 \notin Bad /\ m \in 1..n
    BY <1>8, <1>9
  <2> QED
    BY <1>4, <1>6, <2>1
<1>11. CASE lines[m].item # i
  <2>1. Upto(m) = Upto(m - 1)
    BY <1>3, <1>8, <1>11 DEF ItemLines
  <2> QED
    BY <1>4, <1>6, <1>8, <1>10, <2>1
<1>12. CASE lines[m].item = i
  <2> DEFINE E == {k \in DOMAIN lines : k < m /\ lines[k].item = lines[m].item}
  <2>1. Upto(m) = Upto(m - 1) \cup {m} /\ m \notin Upto(m - 1) /\ m \in Upto(m) /\ E = Upto(m - 1)
    BY <1>3, <1>8, <1>10, <1>12 DEF ItemLines
  <2>2. Sum(m) = takes[m] + Sum(m - 1)
    <3>1. IsFiniteSet(Upto(m - 1)) /\ \A l \in Upto(m - 1) \cup {m} : takes[l] \in Int
      <4>1. m \in Int /\ m - 1 \in Int
        BY <1>10
      <4>2. \A l \in Upto(m) : takes[l] \in Int
        BY <1>5, <4>1
      <4> HIDE DEF Upto
      <4> QED
        BY <1>5, <2>1, <4>1, <4>2
    <3> HIDE DEF Upto
    <3> QED
      BY <2>1, <3>1, SumAdd
  <2>3. takes[m] = Clamp(onHand[i] - OpenReserved(i) - Sum(m - 1), lines[m].qty)
    <3>1. takes[m] = Clamp(onHand[i] - OpenReserved(i) - SumFunctionOnSet(takes, E), lines[m].qty)
      BY <1>3, <1>10, <1>12 DEF Takes, Stocked
    <3> QED
      BY <2>1, <3>1
  <2>4. takes[m] <= onHand[i] - OpenReserved(i) - Sum(m - 1) \/ takes[m] = 0
    <3>1. lines[m].qty \in Nat
      BY <1>3, <1>10, <1>12 DEF ItemLines
    <3> HIDE DEF Sum
    <3> QED
      BY <1>4, <1>6, <1>10, <2>3, <3>1 DEF Clamp
  <2>5. Sum(m) > Free(i) /\ Sum(m) \in Nat /\ Sum(m - 1) \in Nat /\ takes[m] \in Nat
    BY <1>3, <1>6, <1>8, <1>10
  <2> HIDE DEF Sum, Upto
  <2> QED
    BY <1>4, <1>10, <2>2, <2>4, <2>5 DEF Free
<1> QED
  BY <1>11, <1>12

\* The rows a confirmation writes.
NewRows(o, takes) ==
  {<<o, l>> : l \in {k \in DOMAIN order[o].lines : order[o].lines[k].item \in Stocked /\ takes[k] > 0}}

\* A confirmation opens one reservation per line that takes stock.
LEMMA PromisedRows ==
  ASSUME Shapes, NEW o \in Orders, NEW takes \in Takes(o)
  PROVE  /\ NewRows(o, takes) \subseteq ResvIds
         /\ Promised(o, takes) \in [ResvIds -> ResvRows]
         /\ \A r \in ResvIds \ NewRows(o, takes) : Promised(o, takes)[r] = resv[r]
         /\ \A l \in DOMAIN order[o].lines : <<o, l>> \in NewRows(o, takes) =>
              /\ Promised(o, takes)[<<o, l>>].status = "open"
              /\ Promised(o, takes)[<<o, l>>].item = order[o].lines[l].item
              /\ Promised(o, takes)[<<o, l>>].qty = takes[l]
              /\ Promised(o, takes)[<<o, l>>].by = o
<1>1. order[o].lines \in LineRows /\ takes \in [DOMAIN order[o].lines -> 0..MaxQty]
  BY Typed DEF OrderRows, Takes
<1>2. /\ DOMAIN order[o].lines \subseteq 1..MaxLines
      /\ \A l \in DOMAIN order[o].lines : order[o].lines[l] \in OrderLines
  BY <1>1, LinesAre
<1>3. NewRows(o, takes) \subseteq ResvIds
  BY <1>2 DEF NewRows, ResvIds
<1>4. \A r \in ResvIds : r \in NewRows(o, takes) <=>
        \E l \in DOMAIN order[o].lines : r = <<o, l>> /\ order[o].lines[l].item \in Stocked /\ takes[l] > 0
  BY DEF NewRows
<1>5. \A r \in ResvIds \ NewRows(o, takes) : Promised(o, takes)[r] = resv[r]
  BY <1>4 DEF Promised
<1>6. \A l \in DOMAIN order[o].lines : <<o, l>> \in NewRows(o, takes) =>
        Promised(o, takes)[<<o, l>>] = [status |-> "open", item |-> order[o].lines[l].item,
                                        qty |-> takes[l], by |-> o]
  BY <1>3, <1>4 DEF Promised
<1>7. \A l \in DOMAIN order[o].lines :
        [status |-> "open", item |-> order[o].lines[l].item, qty |-> takes[l], by |-> o] \in ResvRows
  BY <1>1, <1>2 DEF OrderLines, ResvRows
<1>8. \A r \in ResvIds : Promised(o, takes)[r] \in ResvRows
  BY <1>4, <1>5, <1>6, <1>7, Typed
<1>9. Promised(o, takes) \in [ResvIds -> ResvRows]
  <2>1. Promised(o, takes) = [r \in ResvIds |-> Promised(o, takes)[r]]
    BY DEF Promised
  <2> QED
    BY <1>8, <2>1
<1>10. \A l \in DOMAIN order[o].lines : <<o, l>> \in NewRows(o, takes) =>
        /\ Promised(o, takes)[<<o, l>>].status = "open"
        /\ Promised(o, takes)[<<o, l>>].item = order[o].lines[l].item
        /\ Promised(o, takes)[<<o, l>>].qty = takes[l]
        /\ Promised(o, takes)[<<o, l>>].by = o
  <2> SUFFICES ASSUME NEW l \in DOMAIN order[o].lines, <<o, l>> \in NewRows(o, takes),
                      NEW row, row = Promised(o, takes)[<<o, l>>]
               PROVE  /\ row.status = "open" /\ row.item = order[o].lines[l].item
                      /\ row.qty = takes[l] /\ row.by = o
    OBVIOUS
  <2>1. row = [status |-> "open", item |-> order[o].lines[l].item, qty |-> takes[l], by |-> o]
    BY <1>6
  <2> QED
    BY <2>1
<1> QED
  BY <1>3, <1>5, <1>9, <1>10

\* What a confirmation promises of an item is what its lines take.
LEMMA PromisedTotal ==
  ASSUME Shapes, NEW o \in Orders, NEW takes \in Takes(o), NEW i \in Stocked
  PROVE  /\ Total(Promised(o, takes), NewRows(o, takes), i) \in Nat
         /\ SumFunctionOnSet(takes, ItemLines(order[o].lines, i)) \in Nat
         /\ Total(Promised(o, takes), NewRows(o, takes), i)
              <= SumFunctionOnSet(takes, ItemLines(order[o].lines, i))
<1> DEFINE lines == order[o].lines
           N == NewRows(o, takes)
           P == {l \in ItemLines(lines, i) : takes[l] > 0}
           h == [r \in ResvIds |-> Promised(o, takes)[r].qty]
           m == [l \in P |-> <<o, l>>]
<1>1. /\ takes \in [DOMAIN lines -> 0..MaxQty] /\ lines \in LineRows
      /\ IsFiniteSet(DOMAIN lines)
  BY Typed, LinesAre DEF Takes, OrderRows
<1>2. /\ IsFiniteSet(ItemLines(lines, i)) /\ IsFiniteSet(P) /\ P \in SUBSET ItemLines(lines, i)
      /\ \A l \in ItemLines(lines, i) : takes[l] \in Nat
  BY <1>1, FS_Subset DEF ItemLines
<1>3. \A l \in P : <<o, l>> \in N /\ <<o, l>> \in ResvIds /\ h[<<o, l>>] = takes[l]
  <2>1. \A l \in P : l \in DOMAIN lines /\ <<o, l>> \in N
    BY DEF ItemLines, NewRows
  <2>2. N \subseteq ResvIds
    BY PromisedRows
  <2>3. \A l \in DOMAIN lines : <<o, l>> \in N => Promised(o, takes)[<<o, l>>].qty = takes[l]
    BY PromisedRows
  <2> HIDE DEF P, N
  <2> QED
    BY <2>1, <2>2, <2>3
<1>4. {r \in N : Promised(o, takes)[r].item = i} = {m[l] : l \in P}
  <2>1. \A l \in DOMAIN lines : <<o, l>> \in N => Promised(o, takes)[<<o, l>>].item = lines[l].item
    BY PromisedRows
  <2>2. \A l \in P : m[l] \in N /\ Promised(o, takes)[m[l]].item = i
    BY <1>3, <2>1 DEF ItemLines
  <2>3. ASSUME NEW r \in N, Promised(o, takes)[r].item = i PROVE r \in {m[l] : l \in P}
    <3>1. PICK l \in DOMAIN lines : r = <<o, l>> /\ takes[l] > 0
      BY DEF NewRows
    <3>2. l \in P
      BY <2>1, <2>3, <3>1 DEF ItemLines
    <3> QED
      BY <3>1, <3>2
  <2> HIDE DEF P
  <2> QED
    BY <2>2, <2>3
<1>5. SumFunctionOnSet(takes, P) = SumFunctionOnSet(h, {m[l] : l \in P})
  <2>1. \A l \in P : takes[l] \in Int /\ takes[l] = h[m[l]]
    BY <1>2, <1>3
  <2>2. \A k, l \in P : m[k] = m[l] => k = l
    OBVIOUS
  <2> HIDE DEF P, h, m
  <2> QED
    BY <1>2, <2>1, <2>2, SumRenamed
<1>6. Total(Promised(o, takes), N, i) = SumFunctionOnSet(takes, P)
  BY <1>4, <1>5 DEF Total
<1>7. /\ SumFunctionOnSet(takes, P) \in Nat
      /\ SumFunctionOnSet(takes, ItemLines(lines, i)) \in Nat
      /\ SumFunctionOnSet(takes, P) <= SumFunctionOnSet(takes, ItemLines(lines, i))
  <2>1. \A l \in P : takes[l] \in Nat
    BY <1>2
  <2> HIDE DEF P
  <2> QED
    BY <1>2, <2>1, SumNat, SumSubset
<1> QED
  BY <1>6, <1>7

\* confirmSalesOrder: the new reservations are due to the lines they are for.
LEMMA ConfirmOrderStep ==
  ASSUME IInv, NEW o \in Orders, NEW b \in BOOLEAN, ConfirmOrder(o, b)
  PROVE  IInv'
<1>0. Shapes /\ LinesShip /\ Billing /\ RowsBelong /\ ReadsHold /\ Budgeted /\ QuotesNameOrders
  BY DEF IInv
<1>1. PICK takes \in Takes(o) :
        /\ order' = [order EXCEPT
             ![o].status = "confirmed",
             ![o].backordered = Short(o, takes),
             ![o].lines = [l \in DOMAIN order[o].lines |->
               [order[o].lines[l] EXCEPT !.reserved = takes[l]]]]
        /\ resv' = Promised(o, takes)
  BY DEF ConfirmOrder
<1>2. /\ Idle(o) /\ order[o].status = "draft"
      /\ UNCHANGED <<onHand, quote, ar, invoiced, delivering, accepting, releasing>>
  BY DEF ConfirmOrder
<1> DEFINE lines == order[o].lines
           after == [l \in DOMAIN lines |-> [lines[l] EXCEPT !.reserved = takes[l]]]
           N == NewRows(o, takes)
<1>3. /\ lines \in LineRows /\ DOMAIN lines \subseteq 1..MaxLines
      /\ takes \in [DOMAIN lines -> 0..MaxQty]
      /\ \A l \in DOMAIN lines : lines[l] \in OrderLines
  BY <1>0, Typed, LinesAre DEF OrderRows, Takes
<1>4. \A l \in DOMAIN lines : takes[l] <= lines[l].qty
  <2> SUFFICES ASSUME NEW l \in DOMAIN lines PROVE takes[l] <= lines[l].qty
    OBVIOUS
  <2>1. lines[l].qty \in Nat
    BY <1>3 DEF OrderLines
  <2>2. takes[l] = lines[l].qty \/ \E x : takes[l] = Clamp(x, lines[l].qty)
    BY DEF Takes
  <2>3. \A x : Clamp(x, lines[l].qty) = 0 \/ Clamp(x, lines[l].qty) = lines[l].qty
                 \/ (Clamp(x, lines[l].qty) = x /\ ~(x > lines[l].qty))
    BY DEF Clamp
  <2>4. takes[l] \in Nat
    BY <1>3
  <2> QED
    BY <2>1, <2>2, <2>3, <2>4
<1>5. \A l \in DOMAIN lines : /\ after[l] \in OrderLines /\ after[l].reserved = takes[l]
                              /\ after[l].item = lines[l].item /\ after[l].qty = lines[l].qty
                              /\ after[l].delivered = lines[l].delivered
  BY <1>3 DEF OrderLines
<1>6. after \in LineRows /\ DOMAIN after = DOMAIN lines
  <2>1. PICK n \in 0..MaxLines : DOMAIN lines = 1..n
    BY <1>3 DEF LineRows
  <2>2. after \in [1..n -> OrderLines]
    BY <1>5, <2>1
  <2> HIDE DEF after
  <2> QED
    BY <2>1, <2>2 DEF LineRows
<1>7. \A l \in DOMAIN lines : lines[l].delivered = 0
  BY <1>0, <1>2 DEF LinesShip
<1>8. /\ order' \in [Orders -> OrderRows]
      /\ order'[o].status = "confirmed" /\ order'[o].lines = after /\ order'[o].quote = order[o].quote
      /\ \A p \in Orders \ {o} : order'[p] = order[p]
  <2> HIDE DEF after
  <2>1. order' = [order EXCEPT ![o] = [order[o] EXCEPT
          !.status = "confirmed", !.backordered = Short(o, takes), !.lines = after]]
    BY <1>0, <1>1, Typed DEF OrderRows, after
  <2>2. Short(o, takes) \in BOOLEAN
    BY DEF Short
  <2>3. [order[o] EXCEPT !.status = "confirmed", !.backordered = Short(o, takes), !.lines = after]
          \in OrderRows
    BY <1>0, <1>6, <2>2, Typed, OrderRowsAre DEF OrderStatuses
  <2> QED
    BY <1>0, <2>1, <2>3, Typed DEF OrderRows
<1>9. /\ resv' \in [ResvIds -> ResvRows] /\ N \subseteq ResvIds
      /\ \A r \in ResvIds \ N : resv'[r] = resv[r]
      /\ \A r \in N : resv'[r].status = "open" /\ resv'[r].by = o /\ \E l \in DOMAIN lines : r = <<o, l>>
  BY <1>0, <1>1, PromisedRows DEF NewRows
<1>10. \A r \in N : r \notin Holds /\ resv[r].status = "none" /\ r \notin releasing
  <2>1. \A r \in N : r \in Orders \X (1..MaxLines)
    BY <1>3, <1>9
  <2>2. \A l, k : \A p : <<o, l>> = <<p, k>> => p = o
    OBVIOUS
  <2>3. \A r \in N : r \in ResvIds /\ \E l \in DOMAIN lines : r = <<o, l>>
    BY <1>9
  <2> QED
    BY <1>0, <1>2, <2>1, <2>2, <2>3 DEF RowsBelong
<1> HIDE DEF after, N
<1>11. Shapes'
  BY <1>0, <1>2, <1>8, <1>9 DEF Shapes
<1>12. LinesShip'
  <2>1. \A l \in DOMAIN lines : lines[l].qty \in Nat /\ takes[l] \in Nat
    BY <1>3 DEF OrderLines
  <2> HIDE DEF lines
  <2>2. \A l \in DOMAIN order'[o].lines :
          LET ln == order'[o].lines[l]
          IN ln.reserved <= ln.qty /\ ln.delivered = 0 /\ ln.qty \in Nat /\ ln.reserved \in Nat
    BY <1>4, <1>5, <1>6, <1>7, <1>8, <2>1
  <2> QED
    BY <1>0, <1>8, <2>2 DEF LinesShip
<1>13. Billing'
  BY <1>0, <1>2, <1>5, <1>6, <1>8 DEF Billing
<1>14. RowsBelong'
  <2> SUFFICES ASSUME NEW r \in ResvIds, resv'[r].status # "none" \/ r \in releasing'
               PROVE  /\ resv'[r].status # "none"
                      /\ \/ r \in Holds /\ resv'[r].by = None
                         \/ /\ resv'[r].by \in Orders /\ order'[resv'[r].by].status \notin {"none", "draft"}
                            /\ \E l \in 1..MaxLines : r = <<resv'[r].by, l>>
    BY DEF RowsBelong
  <2>1. CASE r \in N
    BY <1>3, <1>8, <1>9, <2>1
  <2>2. CASE r \notin N
    BY <1>0, <1>2, <1>8, <1>9, <2>2 DEF RowsBelong
  <2> QED
    BY <2>1, <2>2
<1>15. ReadsHold'
  <2>1. \A p \in Orders \ {o} : Deliveries(p)' = Deliveries(p)
    BY <1>8 DEF Deliveries, Undelivered
  <2>2. \A r \in ResvIds : resv[r].status # "none" => resv'[r] = resv[r]
    BY <1>9, <1>10
  <2> QED
    BY <1>0, <1>2, <1>8, <2>1, <2>2 DEF ReadsHold, Idle
<1>16. \A p \in Orders \ {o} : Open(p)' \subseteq Open(p) /\ Held(p)' \subseteq Held(p)
  <2>1. \A p \in Orders \ {o} : Open(p)' \subseteq Open(p)
    BY <1>9 DEF Open
  <2> QED
    BY <1>2, <2>1 DEF Held, Idle
<1>17. Held(o)' = N
  <2>1. Open(o) = {}
    BY <1>0, <1>2 DEF Budgeted, BudgetOf
  <2>2. Open(o)' = N
    BY <1>9, <2>1 DEF Open
  <2> QED
    BY <1>2, <2>2 DEF Held, Idle
<1>18. BudgetOf(o)'
  <2> SUFFICES ASSUME NEW i \in Stocked PROVE Reserved(Held(o), i)' <= Due(after, i)
    BY <1>8 DEF BudgetOf, Due, Stocked
  <2>1. Reserved(Held(o), i)' = Total(resv', N, i)
    BY <1>17 DEF Reserved, Total
  <2>2. Total(resv', N, i) <= SumFunctionOnSet(takes, ItemLines(lines, i))
    BY <1>0, <1>1, PromisedTotal DEF N
  <2>3. Due(after, i) = SumFunctionOnSet(takes, ItemLines(lines, i))
    <3> DEFINE D == [l \in DOMAIN after |-> after[l].reserved - after[l].delivered]
               L == {l \in DOMAIN after : after[l].item = i}
    <3>1. L = ItemLines(lines, i)
      BY <1>5, <1>6 DEF ItemLines
    <3>2. IsFiniteSet(L)
      BY <1>6, LinesAre, FS_Subset
    <3>3. \A l \in L : takes[l] = D[l] /\ takes[l] \in Int
      BY <1>3, <1>5, <1>6, <1>7
    <3>4. SumFunctionOnSet(takes, L) = SumFunctionOnSet(D, L)
      <4> HIDE DEF D, L
      <4> QED
        BY <3>2, <3>3, SumAgree
    <3> QED
      BY <3>1, <3>4 DEF Due
  <2> QED
    BY <2>1, <2>2, <2>3
<1>19. Budgeted'
  <2> SUFFICES ASSUME NEW p \in Orders, p # o PROVE BudgetOf(p)'
    BY <1>18 DEF Budgeted
  <2>1. Held(p) \subseteq ResvIds
    BY <1>0, HeldRows
  <2>2. \A r \in Held(p)' : r \in ResvIds /\ resv'[r] = resv[r]
    BY <1>0, <1>9, <1>10, <1>16, HeldRows
  <2>3. \A r \in Held(p)' : resv'[r].item = resv[r].item /\ resv'[r].qty <= resv[r].qty
    BY <1>0, <2>2, Typed DEF ResvRows
  <2> QED
    BY <1>0, <1>8, <1>9, <1>16, <2>1, <2>3, BudgetKept
<1>20. QuotesNameOrders'
  BY <1>0, <1>2, <1>8 DEF QuotesNameOrders
<1> QED
  BY <1>11, <1>12, <1>13, <1>14, <1>15, <1>19, <1>20 DEF IInv

-----------------------------------------------------------------------------
\* Delivery.
LEMMA ShippedNat ==
  ASSUME Shapes, NEW o \in Orders, NEW d \in Deliveries(o), NEW i
  PROVE  /\ Shipped(o, d, i) \in Nat /\ Wanted(o, d, i) \in Nat
         /\ SumFunctionOnSet([l \in DOMAIN d |-> Billed(o, d, l)], DOMAIN d) \in Nat
<1>1. /\ IsFiniteSet(DOMAIN d) /\ \A l \in DOMAIN d : d[l] \in Nat
  <2>1. DOMAIN d \subseteq DOMAIN order[o].lines /\ \A l \in DOMAIN d : d[l] \in 1..MaxQty
    BY DEF Deliveries
  <2> QED
    BY <2>1, FS_Subset, Typed, LinesAre DEF OrderRows
<1>2. Wanted(o, d, i) \in Nat
  <2>1. IsFiniteSet({l \in DOMAIN d : order[o].lines[l].item = i})
    BY <1>1, FS_Subset
  <2> QED
    BY <1>1, <2>1, SumNat DEF Wanted
<1>3. Shipped(o, d, i) \in Nat
  <2> DEFINE f == [l \in DOMAIN d |-> IF order[o].lines[l].item = i THEN d[l] ELSE 0]
  <2>1. \A l \in DOMAIN d : f[l] \in Nat
    BY <1>1
  <2> HIDE DEF f
  <2>2. SumFunctionOnSet(f, DOMAIN d) \in Nat
    BY <1>1, <2>1, SumNat
  <2> QED
    BY <2>2 DEF f, Shipped
<1>4. SumFunctionOnSet([l \in DOMAIN d |-> Billed(o, d, l)], DOMAIN d) \in Nat
  <2> DEFINE f == [l \in DOMAIN d |-> Billed(o, d, l)]
  <2>1. \A l \in DOMAIN d : f[l] \in Nat
    BY <1>1 DEF Billed
  <2> HIDE DEF f
  <2>2. SumFunctionOnSet(f, DOMAIN d) \in Nat
    BY <1>1, <2>1, SumNat
  <2> QED
    BY <2>2 DEF f
<1> QED
  BY <1>2, <1>3, <1>4

\* What a delivery takes from the reservations it has read.
LEMMA ConsumedRows ==
  ASSUME Shapes, NEW S \in SUBSET ResvIds, NEW f \in [S -> 0..MaxQty],
         \A r \in S : f[r] <= resv[r].qty
  PROVE  /\ Consumed(f) \in [ResvIds -> ResvRows]
         /\ \A r \in ResvIds : /\ Consumed(f)[r].item = resv[r].item
                               /\ Consumed(f)[r].by = resv[r].by
                               /\ Consumed(f)[r].qty <= resv[r].qty
                               /\ Consumed(f)[r].status \in {resv[r].status, "consumed"}
                               /\ r \notin S => Consumed(f)[r] = resv[r]
                               /\ r \in S /\ Consumed(f)[r].status # "consumed" =>
                                    Consumed(f)[r].qty = resv[r].qty - f[r]
                               /\ r \in S /\ f[r] = 0 => Consumed(f)[r] = resv[r]
<1>1. resv \in [ResvIds -> ResvRows]
  BY Typed
<1>2. Consumed(f) = [r \in ResvIds |-> Consumed(f)[r]]
  BY DEF Consumed
<1>3. ASSUME NEW r \in ResvIds
      PROVE  /\ Consumed(f)[r] \in ResvRows
             /\ Consumed(f)[r].item = resv[r].item
             /\ Consumed(f)[r].by = resv[r].by
             /\ Consumed(f)[r].qty <= resv[r].qty
             /\ Consumed(f)[r].status \in {resv[r].status, "consumed"}
             /\ r \notin S => Consumed(f)[r] = resv[r]
             /\ r \in S /\ Consumed(f)[r].status # "consumed" =>
                  Consumed(f)[r].qty = resv[r].qty - f[r]
             /\ r \in S /\ f[r] = 0 => Consumed(f)[r] = resv[r]
  <2>1. CASE r \notin S \/ f[r] = 0
    <3>1. Consumed(f)[r] = resv[r]
      BY <2>1 DEF Consumed
    <3> QED
      BY <1>1, <2>1, <3>1 DEF ResvRows
  <2>2. CASE r \in S /\ f[r] # 0 /\ f[r] = resv[r].qty
    <3>1. Consumed(f)[r] = [resv[r] EXCEPT !.status = "consumed"]
      BY <2>2 DEF Consumed
    <3> QED
      BY <1>1, <2>2, <3>1 DEF ResvRows
  <2>3. CASE r \in S /\ f[r] # 0 /\ f[r] # resv[r].qty
    <3>1. Consumed(f)[r] = [resv[r] EXCEPT !.qty = resv[r].qty - f[r]]
      BY <2>3 DEF Consumed
    <3>2. f[r] \in 0..MaxQty /\ resv[r].qty \in 0..MaxQty /\ f[r] <= resv[r].qty
      BY <1>1, <2>3 DEF ResvRows
    <3> QED
      BY <1>1, <2>3, <3>1, <3>2 DEF ResvRows
  <2> QED
    BY <2>1, <2>2, <2>3
<1> QED
  BY <1>2, <1>3

\* A delivery takes what it wants from what is held for its order.
LEMMA ConsumedTotal ==
  ASSUME Shapes, NEW o \in Orders, NEW d \in Deliveries(o), NEW T \in SUBSET ResvIds,
         NEW S \in SUBSET T, NEW f \in Consumptions(o, d, S), NEW i \in Stocked,
         NEW N \in SUBSET T, \A r \in N : Consumed(f)[r].status # "consumed" \/ r \notin S
  PROVE  Total(Consumed(f), N, i) <= Reserved(T, i) - Wanted(o, d, i)
<1> DEFINE C == Consumed(f)
           of == {r \in S : resv[r].item = i}
           B == {r \in T : resv[r].item = i}
           A == {r \in N : C[r].item = i}
           q == [r \in ResvIds |-> resv[r].qty]
           h == [r \in ResvIds |-> C[r].qty]
           k == [r \in ResvIds |-> IF r \in of THEN f[r] ELSE 0]
           left == [r \in ResvIds |-> q[r] - k[r]]
<1>1. /\ f \in [S -> 0..MaxQty] /\ \A r \in S : f[r] <= resv[r].qty
      /\ SumFunctionOnSet(f, of) = Wanted(o, d, i)
  BY DEF Consumptions
<1>2. /\ C \in [ResvIds -> ResvRows]
      /\ \A r \in ResvIds : /\ C[r].item = resv[r].item
                            /\ C[r].qty <= resv[r].qty
                            /\ r \notin S => C[r] = resv[r]
                            /\ r \in S /\ C[r].status # "consumed" => C[r].qty = resv[r].qty - f[r]
  BY <1>1, ConsumedRows
<1>3. IsFiniteSet(B) /\ A \in SUBSET B /\ of \in SUBSET B /\ B \in SUBSET ResvIds
  <2>1. IsFiniteSet(B)
    BY RowsFinite, FS_Subset
  <2> QED
    BY <1>2, <2>1
<1>4. \A r \in ResvIds : q[r] \in Nat /\ k[r] \in Nat /\ left[r] \in Nat /\ q[r] = left[r] + k[r]
  <2> SUFFICES ASSUME NEW r \in ResvIds
               PROVE q[r] \in Nat /\ k[r] \in Nat /\ left[r] \in Nat /\ q[r] = left[r] + k[r]
    OBVIOUS
  <2>1. resv[r].qty \in Nat
    BY Typed DEF ResvRows
  <2> QED
    BY <1>1, <2>1
<1>5. \A r \in A : h[r] \in Int /\ h[r] <= left[r]
  <2> SUFFICES ASSUME NEW r \in A PROVE C[r].qty \in Int /\ C[r].qty <= left[r]
    BY <1>3
  <2>1. r \in ResvIds /\ C[r].qty \in Int /\ resv[r].qty \in Nat
    BY <1>2, <1>3, Typed DEF ResvRows
  <2> QED
    BY <1>1, <1>2, <2>1
<1> HIDE DEF C, of, B, A, h, left
<1>6. SumFunctionOnSet(h, A) <= SumFunctionOnSet(left, B)
  BY <1>3, <1>4, <1>5, SumShrinks
<1>7. SumFunctionOnSet(q, B) = SumFunctionOnSet(left, B) + SumFunctionOnSet(k, B)
  <2> HIDE DEF q, k
  <2> QED
    BY <1>3, <1>4, SumPlus
<1>8. SumFunctionOnSet(k, B) = SumFunctionOnSet(f, of)
  <2>1. \A r \in B \ of : k[r] = 0
    BY <1>3
  <2>2. \A r \in of : k[r] = f[r] /\ k[r] \in Int
    BY <1>3, <1>4
  <2>3. IsFiniteSet(of)
    BY <1>3, FS_Subset
  <2> HIDE DEF k
  <2>4. SumFunctionOnSet(k, B) = SumFunctionOnSet(k, of)
    BY <1>3, <1>4, <2>1, SumWhere
  <2>5. SumFunctionOnSet(k, of) = SumFunctionOnSet(f, of)
    BY <2>2, <2>3, SumAgree
  <2> QED
    BY <2>4, <2>5
<1>9. Total(C, N, i) = SumFunctionOnSet(h, A) /\ Reserved(T, i) = SumFunctionOnSet(q, B)
  BY DEF Total, Reserved, h, A, B
<1>10. /\ SumFunctionOnSet(q, B) \in Int /\ SumFunctionOnSet(k, B) \in Int
       /\ SumFunctionOnSet(left, B) \in Int /\ SumFunctionOnSet(h, A) \in Int
  <2>1. IsFiniteSet(A)
    BY <1>3, FS_Subset
  <2> HIDE DEF q, k
  <2> QED
    BY <1>3, <1>4, <1>5, <2>1, SumInt
<1> HIDE DEF q, k
<1>11. Total(C, N, i) <= Reserved(T, i) - Wanted(o, d, i)
  BY <1>1, <1>6, <1>7, <1>8, <1>9, <1>10
<1> QED
  BY <1>11 DEF C

\* The lines after a delivery of d.
After(o, d) ==
  [l \in DOMAIN order[o].lines |->
     IF l \in DOMAIN d THEN [order[o].lines[l] EXCEPT !.delivered = @ + d[l]] ELSE order[o].lines[l]]

\* A delivery adds what it ships to its lines, which never exceed their quantity.
LEMMA AfterLines ==
  ASSUME Shapes, LinesShip, NEW o \in Orders, NEW d \in Deliveries(o)
  PROVE  /\ After(o, d) \in LineRows /\ DOMAIN After(o, d) = DOMAIN order[o].lines
         /\ \A l \in DOMAIN order[o].lines :
              LET old == order[o].lines[l]
                  new == After(o, d)[l]
                  n == IF l \in DOMAIN d THEN d[l] ELSE 0
              IN /\ old \in OrderLines /\ new \in OrderLines /\ n \in Nat
                 /\ new.item = old.item /\ new.qty = old.qty /\ new.reserved = old.reserved
                 /\ new.delivered = old.delivered + n /\ new.delivered <= new.qty
                 /\ new.item \in Stocked => new.delivered <= new.reserved
<1> DEFINE lines == order[o].lines
<1>1. /\ lines \in LineRows /\ \A l \in DOMAIN lines : lines[l] \in OrderLines
  BY Typed, LinesAre DEF OrderRows
<1>2. ASSUME NEW l \in DOMAIN lines
      PROVE  LET old == lines[l]
                 new == After(o, d)[l]
                 n == IF l \in DOMAIN d THEN d[l] ELSE 0
             IN /\ old \in OrderLines /\ new \in OrderLines /\ n \in Nat
                /\ new.item = old.item /\ new.qty = old.qty /\ new.reserved = old.reserved
                /\ new.delivered = old.delivered + n /\ new.delivered <= new.qty
                /\ new.item \in Stocked => new.delivered <= new.reserved
  <2> DEFINE old == lines[l]
             new == After(o, d)[l]
  <2>1. /\ old \in OrderLines /\ old.reserved <= old.qty /\ old.delivered <= old.qty
        /\ old.item \in Stocked => old.delivered <= old.reserved
    BY <1>1 DEF LinesShip
  <2>2. CASE l \notin DOMAIN d
    <3>1. new = old
      BY <2>2 DEF After
    <3> QED
      BY <2>1, <2>2, <3>1 DEF OrderLines
  <2>3. CASE l \in DOMAIN d
    <3>1. new = [old EXCEPT !.delivered = old.delivered + d[l]]
      BY <2>3 DEF After
    <3>2. d[l] \in 1..MaxQty /\ d[l] <= Undelivered(o, l)
      BY <2>3 DEF Deliveries
    <3>3. d[l] <= (IF old.item \in Services THEN old.qty ELSE old.reserved) - old.delivered
      BY <3>2 DEF Undelivered
    <3>4. old.delivered + d[l] \in 0..MaxQty /\ old.delivered + d[l] <= old.qty
      BY <2>1, <3>2, <3>3 DEF OrderLines
    <3>5. old.item \in Stocked => old.delivered + d[l] <= old.reserved
      BY <2>1, <3>2, <3>3 DEF OrderLines, Stocked
    <3> HIDE DEF old
    <3>6. /\ new.item = old.item /\ new.qty = old.qty /\ new.reserved = old.reserved
          /\ new.delivered = old.delivered + d[l]
      BY <2>1, <3>1 DEF OrderLines
    <3>7. new \in OrderLines
      BY <2>1, <3>1, <3>4 DEF OrderLines
    <3> HIDE DEF new
    <3> QED
      BY <2>1, <2>3, <3>2, <3>4, <3>5, <3>6, <3>7 DEF old, new
  <2> QED
    BY <2>2, <2>3
<1>3. After(o, d) \in LineRows /\ DOMAIN After(o, d) = DOMAIN lines
  <2>1. PICK n \in 0..MaxLines : DOMAIN lines = 1..n
    BY <1>1 DEF LineRows
  <2>2. After(o, d) = [l \in 1..n |-> After(o, d)[l]]
    BY <2>1 DEF After
  <2>3. After(o, d) \in [1..n -> OrderLines]
    BY <1>2, <2>1, <2>2
  <2> QED
    BY <2>1, <2>3 DEF LineRows
<1> QED
  BY <1>2, <1>3

\* A delivery reduces what is due by what it wants.
LEMMA DueAfter ==
  ASSUME Shapes, LinesShip, NEW o \in Orders, NEW d \in Deliveries(o), NEW i \in Stocked
  PROVE  Due(After(o, d), i) = Due(order[o].lines, i) - Wanted(o, d, i)
<1> DEFINE lines == order[o].lines
           L == {l \in DOMAIN lines : lines[l].item = i}
           W == {l \in DOMAIN d : lines[l].item = i}
           D == [l \in DOMAIN lines |-> lines[l].reserved - lines[l].delivered]
           E == [l \in DOMAIN After(o, d) |-> After(o, d)[l].reserved - After(o, d)[l].delivered]
           k == [l \in DOMAIN lines |-> IF l \in DOMAIN d THEN d[l] ELSE 0]
<1>1. /\ DOMAIN After(o, d) = DOMAIN lines
      /\ \A l \in DOMAIN lines :
           /\ After(o, d)[l].item = lines[l].item /\ After(o, d)[l].reserved = lines[l].reserved
           /\ After(o, d)[l].delivered = lines[l].delivered + k[l] /\ k[l] \in Nat
           /\ lines[l].reserved \in Nat /\ lines[l].delivered \in Nat
  <2>1. \A l \in DOMAIN lines : lines[l] \in OrderLines
    BY AfterLines
  <2>2. \A l \in DOMAIN lines : lines[l].reserved \in Nat /\ lines[l].delivered \in Nat
    BY <2>1 DEF OrderLines
  <2> QED
    BY <2>2, AfterLines
<1>2. IsFiniteSet(L) /\ W \in SUBSET L
  <2>1. DOMAIN d \subseteq DOMAIN lines
    BY DEF Deliveries
  <2> QED
    BY <2>1, Typed, LinesAre, FS_Subset DEF OrderRows
<1>3. \A l \in L : D[l] = E[l] + k[l] /\ E[l] \in Int /\ k[l] \in Int
  <2> SUFFICES ASSUME NEW l \in DOMAIN lines
               PROVE  D[l] = E[l] + k[l] /\ E[l] \in Int /\ k[l] \in Int
    OBVIOUS
  <2>1. E[l] = lines[l].reserved - (lines[l].delivered + k[l])
    BY <1>1
  <2>2. D[l] = lines[l].reserved - lines[l].delivered
    OBVIOUS
  <2>3. k[l] \in Nat /\ lines[l].reserved \in Nat /\ lines[l].delivered \in Nat
    BY <1>1
  <2> HIDE DEF D, E, k
  <2> QED
    BY <2>1, <2>2, <2>3
<1>4. L = {l \in DOMAIN After(o, d) : After(o, d)[l].item = i}
  BY <1>1
<1>5. \A l \in L \ W : k[l] = 0
  OBVIOUS
<1>6. \A l \in W : k[l] = d[l] /\ k[l] \in Int
  BY <1>2, <1>3
<1>7. Due(lines, i) = SumFunctionOnSet(D, L) /\ Wanted(o, d, i) = SumFunctionOnSet(d, W)
  BY DEF Due, Wanted
<1>8. Due(After(o, d), i) = SumFunctionOnSet(E, L)
  BY <1>4 DEF Due
<1> HIDE DEF D, E, k, L, W, lines
<1>9. SumFunctionOnSet(D, L) = SumFunctionOnSet(E, L) + SumFunctionOnSet(k, L)
  BY <1>2, <1>3, SumPlus
<1>10. SumFunctionOnSet(k, L) = SumFunctionOnSet(k, W)
  BY <1>2, <1>3, <1>5, SumWhere
<1>11. SumFunctionOnSet(k, W) = SumFunctionOnSet(d, W)
  BY <1>2, <1>6, FS_Subset, SumAgree
<1>12. SumFunctionOnSet(E, L) \in Int /\ SumFunctionOnSet(k, L) \in Int
  BY <1>2, <1>3, SumInt
<1> QED
  BY <1>7, <1>8, <1>9, <1>10, <1>11, <1>12 DEF lines

\* deliverSalesOrder: what it wants of an item it takes from the reservations
\* it has read, so that what stays held is at most what stays due.
LEMMA DeliverOrderStep ==
  ASSUME IInv, NEW o \in Orders, DeliverOrder(o)
  PROVE  IInv'
<1>0. Shapes /\ LinesShip /\ Billing /\ RowsBelong /\ ReadsHold /\ Budgeted /\ QuotesNameOrders
  BY DEF IInv
<1> DEFINE d == delivering[o].lines
           S == delivering[o].open
           lines == order[o].lines
           after == After(o, d)
           full == \A l \in DOMAIN lines : after[l].delivered >= after[l].qty
<1>1. /\ ~Idle(o) /\ StockIsThere(o, d)
      /\ \E f \in Consumptions(o, d, S) : resv' = Consumed(f)
      /\ onHand' = [i \in Items |-> IF i \in Stocked THEN onHand[i] - Shipped(o, d, i) ELSE onHand[i]]
      /\ order' = [order EXCEPT ![o].lines = after,
                                ![o].status = IF full THEN "delivered" ELSE "confirmed",
                                ![o].backordered = @ /\ ~full]
      /\ invoiced' = [invoiced EXCEPT ![o] =
           [l \in 1..MaxLines |-> @[l] + (IF l \in DOMAIN d THEN Billed(o, d, l) ELSE 0)]]
      /\ ar' = ar + SumFunctionOnSet([l \in DOMAIN d |-> Billed(o, d, l)], DOMAIN d)
      /\ delivering' = [delivering EXCEPT ![o] = None]
      /\ UNCHANGED <<quote, accepting, releasing>>
  BY DEF DeliverOrder, After
<1>2. PICK f \in Consumptions(o, d, S) : resv' = Consumed(f)
  BY <1>1
<1>3. /\ d \in Deliveries(o) /\ order[o].status \in {"confirmed", "delivered"}
      /\ S \subseteq {r \in ResvIds : resv[r].status # "none" /\ resv[r].by = o}
      /\ S \subseteq Held(o) /\ Held(o) \in SUBSET ResvIds
  BY <1>0, <1>1, HeldRows DEF ReadsHold, Held
<1>4. /\ after \in LineRows /\ DOMAIN after = DOMAIN lines
      /\ \A l \in DOMAIN lines :
           LET n == IF l \in DOMAIN d THEN d[l] ELSE 0
           IN /\ after[l] \in OrderLines /\ n \in Nat
              /\ after[l].delivered = lines[l].delivered + n /\ after[l].delivered <= after[l].qty
              /\ after[l].qty = lines[l].qty /\ after[l].reserved = lines[l].reserved
              /\ after[l].item \in Stocked => after[l].delivered <= after[l].reserved
  BY <1>0, <1>3, AfterLines
<1>5. /\ resv' \in [ResvIds -> ResvRows]
      /\ \A r \in ResvIds : /\ resv'[r].item = resv[r].item /\ resv'[r].by = resv[r].by
                            /\ resv'[r].qty <= resv[r].qty
                            /\ resv'[r].status \in {resv[r].status, "consumed"}
                            /\ r \notin S => resv'[r] = resv[r]
  <2>1. f \in [S -> 0..MaxQty] /\ \A r \in S : f[r] <= resv[r].qty
    BY DEF Consumptions
  <2> HIDE DEF S
  <2> QED
    BY <1>0, <1>2, <1>3, <2>1, ConsumedRows
<1> HIDE DEF d, S, after
<1>6. /\ order' \in [Orders -> OrderRows]
      /\ order'[o].lines = after /\ order'[o].quote = order[o].quote
      /\ order'[o].status = IF full THEN "delivered" ELSE "confirmed"
      /\ \A p \in Orders \ {o} : order'[p] = order[p]
  <2> DEFINE st == IF full THEN "delivered" ELSE "confirmed"
             back == order[o].backordered /\ ~full
  <2>1. st \in OrderStatuses /\ back \in BOOLEAN
    BY DEF OrderStatuses
  <2>2. order' = [order EXCEPT ![o].lines = after, ![o].status = st, ![o].backordered = back]
    BY <1>0, <1>1, Typed DEF OrderRows
  <2> HIDE DEF st, back, full
  <2>3. order' = [order EXCEPT ![o] = [order[o] EXCEPT !.status = st, !.backordered = back, !.lines = after]]
    BY <1>0, <2>2, Typed DEF OrderRows
  <2>4. [order[o] EXCEPT !.status = st, !.backordered = back, !.lines = after] \in OrderRows
    BY <1>0, <1>4, <2>1, Typed, OrderRowsAre
  <2> QED
    BY <1>0, <2>3, <2>4, Typed DEF OrderRows, st
<1>7. order'[o].status \in {"confirmed", "delivered"}
  BY <1>6
<1>8. delivering'[o] = None /\ DOMAIN delivering' = Orders
      /\ \A p \in Orders \ {o} : delivering'[p] = delivering[p]
  BY <1>0, <1>1 DEF Shapes
<1>9. LinesShip'
  <2>1. \A l \in DOMAIN lines : after[l].qty \in Nat /\ after[l].delivered \in Nat
    BY <1>4 DEF OrderLines
  <2>2. \A l \in DOMAIN lines : lines[l].reserved <= lines[l].qty
    BY <1>0 DEF LinesShip
  <2>3. ASSUME NEW l \in DOMAIN lines, order'[o].status = "delivered"
        PROVE  after[l].delivered = after[l].qty
    BY <1>4, <1>6, <2>1, <2>3
  <2> HIDE DEF full
  <2> QED
    BY <1>0, <1>4, <1>6, <1>7, <2>2, <2>3 DEF LinesShip
<1>10. Billing'
  <2>1. \A l \in 1..MaxLines : invoiced'[o][l] = invoiced[o][l] + (IF l \in DOMAIN d THEN d[l] ELSE 0)
    BY <1>0, <1>1 DEF Shapes, Billed
  <2>2. \A p \in Orders \ {o} : invoiced'[p] = invoiced[p]
    BY <1>0, <1>1 DEF Shapes
  <2>3. DOMAIN d \subseteq DOMAIN lines
    BY <1>3 DEF Deliveries
  <2>4. \A l \in 1..MaxLines : invoiced'[o][l] = IF l \in DOMAIN after THEN after[l].delivered ELSE 0
    BY <1>0, <1>4, <2>1, <2>3 DEF Billing
  <2> HIDE DEF full
  <2> QED
    BY <1>0, <1>6, <2>2, <2>4 DEF Billing
<1>11. Shapes'
  <2>1. onHand' \in [Items -> 0..MaxStock]
    <3>1. \A i \in Stocked : Shipped(o, d, i) \in Nat /\ Shipped(o, d, i) <= onHand[i] /\ onHand[i] \in 0..MaxStock
      BY <1>0, <1>1, <1>3, ShippedNat DEF StockIsThere, Shapes, Stocked
    <3>2. ASSUME NEW i \in Items PROVE onHand'[i] \in 0..MaxStock
      <4>1. onHand[i] \in 0..MaxStock
        BY <1>0 DEF Shapes
      <4>2. onHand'[i] = IF i \in Stocked THEN onHand[i] - Shipped(o, d, i) ELSE onHand[i]
        BY <1>1
      <4> QED
        BY <3>1, <4>1, <4>2
    <3>3. onHand' = [i \in Items |-> onHand'[i]]
      BY <1>1
    <3> QED
      BY <3>2, <3>3
  <2>2. ar' \in Nat
    <3>1. d \in [DOMAIN d -> 1..MaxQty] /\ IsFiniteSet(DOMAIN d)
      BY <1>0, <1>3, Typed, LinesAre, FS_Subset DEF Deliveries, OrderRows
    <3> DEFINE g == [l \in DOMAIN d |-> Billed(o, d, l)]
    <3>2. \A l \in DOMAIN d : g[l] \in Nat
      BY <3>1 DEF Billed
    <3> HIDE DEF g
    <3>3. SumFunctionOnSet(g, DOMAIN d) \in Nat
      BY <3>1, <3>2, SumNat
    <3>4. ar' = ar + SumFunctionOnSet(g, DOMAIN d)
      BY <1>1 DEF g
    <3> QED
      BY <1>0, <3>3, <3>4 DEF Shapes
  <2>3. invoiced' \in [Orders -> [1..MaxLines -> 0..MaxQty]]
    <3>1. \A l \in 1..MaxLines : invoiced'[o][l] \in 0..MaxQty
      BY <1>4, <1>6, <1>10 DEF Billing, OrderLines
    <3>2. invoiced'[o] = [l \in 1..MaxLines |-> invoiced'[o][l]]
      BY <1>0, <1>1 DEF Shapes
    <3>3. invoiced'[o] \in [1..MaxLines -> 0..MaxQty]
      BY <3>1, <3>2
    <3>4. invoiced' = [invoiced EXCEPT ![o] = invoiced'[o]]
      BY <1>0, <1>1 DEF Shapes
    <3> QED
      BY <1>0, <3>3, <3>4 DEF Shapes
  <2> QED
    BY <1>0, <1>1, <1>5, <1>6, <1>8, <2>1, <2>2, <2>3 DEF Shapes
<1>12. RowsBelong'
  <2>1. \A r \in ResvIds : resv'[r].status # "none" <=> resv[r].status # "none"
    BY <1>3, <1>5
  <2>2. \A p \in Orders : order[p].status \notin {"none", "draft"} => order'[p].status \notin {"none", "draft"}
    BY <1>6, <1>7
  <2> HIDE DEF full
  <2> QED
    <3>1. ASSUME NEW r \in ResvIds, resv'[r].status # "none" \/ r \in releasing'
          PROVE  /\ resv'[r].status # "none"
                 /\ \/ r \in Holds /\ resv'[r].by = None
                    \/ /\ resv'[r].by \in Orders /\ order'[resv'[r].by].status \notin {"none", "draft"}
                       /\ \E l \in 1..MaxLines : r = <<resv'[r].by, l>>
      <4>1. resv[r].status # "none" \/ r \in releasing
        BY <1>1, <2>1, <3>1
      <4>2. /\ resv[r].status # "none"
            /\ \/ r \in Holds /\ resv[r].by = None
               \/ /\ resv[r].by \in Orders /\ order[resv[r].by].status \notin {"none", "draft"}
                  /\ \E l \in 1..MaxLines : r = <<resv[r].by, l>>
        BY <1>0, <4>1 DEF RowsBelong
      <4> QED
        BY <1>5, <2>1, <2>2, <4>2
    <3> QED
      BY <3>1 DEF RowsBelong
<1>13. ReadsHold'
  <2>1. \A p \in Orders \ {o} : Deliveries(p)' = Deliveries(p)
    BY <1>6 DEF Deliveries, Undelivered
  <2>2. \A r \in ResvIds : resv[r].status # "none" => resv'[r].status # "none" /\ resv'[r].by = resv[r].by
    BY <1>5
  <2> HIDE DEF full
  <2> QED
    BY <1>0, <1>6, <1>8, <2>1, <2>2 DEF ReadsHold, Idle
<1>14. \A p \in Orders : Open(p)' \subseteq Open(p) /\ Held(p)' \subseteq Held(p)
  <2>1. \A p \in Orders : Open(p)' \subseteq Open(p)
    BY <1>5 DEF Open
  <2> QED
    BY <1>8, <2>1 DEF Held, Idle
<1>15. BudgetOf(o)'
  <2> SUFFICES ASSUME NEW i \in Stocked PROVE Reserved(Held(o), i)' <= Due(after, i)
    BY <1>6, <1>7 DEF BudgetOf, Due, Stocked
  <2> DEFINE N == Open(o)'
  <2>1. Held(o)' = N /\ N \in SUBSET Held(o)
    BY <1>8, <1>14 DEF Held, Idle
  <2>2. \A r \in N : Consumed(f)[r].status # "consumed"
    BY <1>2 DEF Open
  <2>3. Reserved(Held(o), i)' = Total(Consumed(f), N, i)
    BY <1>2, <2>1 DEF Reserved, Total
  <2>4. Total(Consumed(f), N, i) <= Reserved(Held(o), i) - Wanted(o, d, i)
    <3>1. S \in SUBSET Held(o)
      BY <1>3
    <3> HIDE DEF N
    <3> QED
      BY <1>0, <1>3, <2>1, <2>2, <3>1, ConsumedTotal
  <2>5. Reserved(Held(o), i) <= Due(lines, i)
    BY <1>0, <1>3 DEF Budgeted, BudgetOf
  <2>6. Due(after, i) = Due(lines, i) - Wanted(o, d, i)
    BY <1>0, <1>3, DueAfter DEF after
  <2>7. /\ Due(lines, i) \in Int /\ Wanted(o, d, i) \in Int /\ Reserved(Held(o), i) \in Int
    <3>1. Due(lines, i) \in Int
      BY <1>0, DueInt, Typed DEF OrderRows
    <3>2. Wanted(o, d, i) \in Nat
      BY <1>0, <1>3, ShippedNat
    <3>3. Reserved(Held(o), i) \in Nat
      BY <1>0, <1>3, ReservedNat
    <3> QED
      BY <3>1, <3>2, <3>3
  <2>8. Total(Consumed(f), N, i) \in Int
    <3>1. \A r \in N : resv'[r].qty \in Nat /\ r \in ResvIds
      BY <1>3, <1>5, <2>1 DEF ResvRows
    <3> DEFINE A == {r \in N : resv'[r].item = i}
    <3>2. IsFiniteSet(A) /\ \A r \in A : [s \in ResvIds |-> resv'[s].qty][r] \in Int
      BY <3>1, RowsFinite, FS_Subset
    <3>3. SumFunctionOnSet([s \in ResvIds |-> resv'[s].qty], A) \in Int
      BY <3>2, SumInt
    <3> QED
      BY <1>2, <3>3 DEF Total
  <2> QED
    BY <2>3, <2>4, <2>5, <2>6, <2>7, <2>8
<1>16. Budgeted'
  <2> SUFFICES ASSUME NEW p \in Orders, p # o PROVE BudgetOf(p)'
    BY <1>15 DEF Budgeted
  <2>1. Held(p) \subseteq ResvIds
    BY <1>0, HeldRows
  <2>2. \A r \in Held(p)' : resv'[r].item = resv[r].item /\ resv'[r].qty <= resv[r].qty
    BY <1>5, <1>14, <2>1
  <2>3. order'[p] = order[p]
    BY <1>6
  <2> QED
    BY <1>0, <1>5, <1>14, <2>1, <2>2, <2>3, BudgetKept
<1>17. QuotesNameOrders'
  <2>1. \A p \in Orders : /\ order'[p].quote = order[p].quote
                          /\ order'[p].status # "cancelled" => order[p].status # "cancelled"
    <3>1. ASSUME NEW p \in Orders \ {o}
          PROVE  order'[p].quote = order[p].quote /\ order'[p].status = order[p].status
      BY <1>6
    <3>2. order'[o].quote = order[o].quote /\ order[o].status # "cancelled"
      BY <1>3, <1>6
    <3> QED
      BY <3>1, <3>2
  <2>2. quote' = quote
    BY <1>1
  <2> HIDE DEF full
  <2>3. ASSUME NEW p \in Orders, order'[p].quote # None, order'[p].status # "cancelled"
        PROVE  /\ quote[order'[p].quote].status = "accepted"
               /\ quote[order'[p].quote].order = p /\ ~quote[order'[p].quote].invoice
    <3>1. order[p].quote = order'[p].quote /\ order[p].quote # None /\ order[p].status # "cancelled"
      BY <2>1, <2>3
    <3>2. /\ quote[order[p].quote].status = "accepted"
          /\ quote[order[p].quote].order = p /\ ~quote[order[p].quote].invoice
      BY <1>0, <3>1 DEF QuotesNameOrders
    <3> QED
      BY <3>1, <3>2
  <2>4. \A q \in Quotes : /\ quote[q].invoice => quote[q].status = "accepted"
                          /\ quote[q].status # "none" => quote[q].lines \in LineInputs
    BY <1>0 DEF QuotesNameOrders
  <2> QED
    BY <2>2, <2>3, <2>4 DEF QuotesNameOrders
<1> QED
  BY <1>9, <1>10, <1>11, <1>12, <1>13, <1>16, <1>17 DEF IInv

-----------------------------------------------------------------------------
\* Every step keeps the invariant.
LEMMA NextInv == IInv /\ [Next]_vars => IInv'
<1> SUFFICES ASSUME IInv, [Next]_vars PROVE IInv'
  OBVIOUS
<1>1. CASE UNCHANGED vars
  <2>1. UNCHANGED <<onHand, order, resv, quote, ar, invoiced, delivering, accepting, releasing>>
    BY <1>1 DEF vars
  <2>2. Shapes' /\ QuotesNameOrders'
    BY <2>1 DEF IInv, Shapes, QuotesNameOrders
  <2>3. (LinesShip /\ Billing /\ RowsBelong /\ ReadsHold /\ Budgeted)'
    BY <2>1, SameRows DEF IInv
  <2> QED
    BY <2>2, <2>3 DEF IInv
<1>2. CASE Next
  <2>1. CASE \E q \in Quotes : \/ \E in \in LineInputs : CreateQuote(q, in)
                               \/ LapseQuote(q) \/ AcceptQuoteRead(q)
                               \/ AcceptQuoteClaim(q) \/ DeclineQuote(q)
    BY <2>1, QuoteSteps
  <2>2. CASE \E q \in Quotes, o \in Orders : CreateOrderFromQuote(o, q)
    BY <2>2, CreateOrderFromQuoteStep
  <2>3. CASE ExpireQuote
    BY <2>3, ExpireQuoteStep
  <2>4. CASE \E o \in Orders, in \in LineInputs : CreateOrder(o, in) \/ UpdateDraftOrder(o, in)
    BY <2>4, CreateOrderStep, UpdateDraftOrderStep
  <2>5. CASE \E o \in Orders, b \in BOOLEAN : ConfirmOrder(o, b)
    BY <2>5, ConfirmOrderStep
  <2>6. CASE \E o \in Orders : \E d \in Deliveries(o) : DeliverOrderRead(o, d)
    BY <2>6, DeliverOrderReadStep
  <2>7. CASE \E o \in Orders : DeliverOrder(o) \/ DeliverOrderRefused(o) \/ CancelOrder(o)
    BY <2>7, DeliverOrderStep, DeliverOrderRefusedStep, CancelOrderStep
  <2>8. CASE \E h \in Holds, i \in Items, n \in 1..MaxQty : ReserveStock(h, i, n)
    BY <2>8, ReserveStockStep
  <2>9. CASE \E r \in ResvIds : ReleaseReservationRead(r) \/ ReleaseReservation(r)
    BY <2>9, ReleaseReservationReadStep, ReleaseReservationStep
  <2>10. CASE (\E i \in Items : StockArrives(i)) \/ CustomerPays
    BY <2>10, OtherSteps
  <2> QED
    BY <1>2, <2>1, <2>2, <2>3, <2>4, <2>5, <2>6, <2>7, <2>8, <2>9, <2>10 DEF Next
<1> QED
  BY <1>1, <1>2

\* What the invariant says of the promises each order has left.
LEMMA OpenIsDue ==
  ASSUME IInv
  PROVE  OpenMatchesLines
<1>0. Shapes /\ LinesShip /\ RowsBelong /\ ReadsHold /\ Budgeted
  BY DEF IInv
<1> SUFFICES ASSUME NEW o \in Orders, NEW i \in Stocked
             PROVE  IF order[o].status = "confirmed"
                    THEN Reserved(Open(o), i) <= Due(order[o].lines, i)
                    ELSE Reserved(Open(o), i) = 0
  BY DEF OpenMatchesLines
<1>1. /\ Open(o) \in SUBSET Held(o) /\ Held(o) \in SUBSET ResvIds
      /\ Reserved(Open(o), i) \in Nat /\ Reserved(Held(o), i) \in Nat
      /\ Due(order[o].lines, i) \in Int
  <2>1. Open(o) \in SUBSET Held(o) /\ Held(o) \in SUBSET ResvIds /\ Open(o) \in SUBSET ResvIds
    BY <1>0, HeldRows
  <2>2. Reserved(Open(o), i) \in Nat /\ Reserved(Held(o), i) \in Nat
    BY <1>0, <2>1, ReservedNat
  <2>3. order[o].lines \in LineRows
    BY <1>0, Typed DEF OrderRows
  <2> QED
    BY <2>1, <2>2, <2>3, DueInt
<1>2. Reserved(Open(o), i) <= Reserved(Held(o), i)
  <2>1. Total(resv, Open(o), i) <= Total(resv, Held(o), i)
    <3>1. \A r \in Open(o) : resv[r].qty \in Nat
      BY <1>0, <1>1, Typed DEF ResvRows
    <3> QED
      BY <1>0, <1>1, <3>1, Typed, HeldShrinks
  <2> QED
    BY <2>1 DEF Total, Reserved
<1>3. CASE order[o].status \in {"confirmed", "delivered"}
  <2>1. Reserved(Held(o), i) <= Due(order[o].lines, i)
    BY <1>0, <1>3 DEF Budgeted, BudgetOf
  <2>2. ASSUME order[o].status = "delivered" PROVE Due(order[o].lines, i) = 0
    <3> DEFINE lines == order[o].lines
               L == {l \in DOMAIN lines : lines[l].item = i}
               D == [l \in DOMAIN lines |-> lines[l].reserved - lines[l].delivered]
    <3>1. IsFiniteSet(DOMAIN lines) /\ \A l \in DOMAIN lines : lines[l] \in OrderLines
      BY <1>0, Typed, LinesAre DEF OrderRows
    <3>2. IsFiniteSet(L)
      BY <3>1, FS_Subset
    <3>3. ASSUME NEW l \in L PROVE D[l] = 0
      <4>1. /\ lines[l].reserved <= lines[l].qty /\ lines[l].delivered = lines[l].qty
            /\ lines[l].delivered <= lines[l].reserved
        BY <1>0, <2>2 DEF LinesShip
      <4>2. lines[l].reserved \in Nat /\ lines[l].delivered \in Nat /\ lines[l].qty \in Nat
        BY <3>1 DEF OrderLines
      <4> QED
        BY <4>1, <4>2
    <3>4. Due(lines, i) = SumFunctionOnSet(D, L)
      BY DEF Due
    <3> HIDE DEF D, L, lines
    <3>5. SumFunctionOnSet(D, L) = SumFunctionOnSet(D, {})
      BY <3>2, <3>3, SumWhere
    <3> QED
      BY <3>4, <3>5, SumEmpty DEF lines
  <2> QED
    BY <1>1, <1>2, <1>3, <2>1, <2>2
<1>4. CASE order[o].status \notin {"confirmed", "delivered"}
  <2>1. Open(o) = {}
    BY <1>0, <1>4 DEF Budgeted, BudgetOf
  <2>2. Reserved({}, i) = 0
    <3>1. {r \in {} : resv[r].item = i} = {}
      OBVIOUS
    <3> QED
      BY <3>1, SumEmpty DEF Reserved
  <2> QED
    BY <1>4, <2>1, <2>2
<1> QED
  BY <1>3, <1>4

\* A quote that became an order or an invoice names it, so it became one only.
LEMMA QuotesConvert ==
  ASSUME IInv
  PROVE  QuoteConvertsOnce
<1> SUFFICES ASSUME NEW q \in Quotes,
                    NEW live, live = {o \in Orders : order[o].quote = q /\ order[o].status # "cancelled"}
             PROVE  /\ Cardinality(live) <= 1
                    /\ quote[q].invoice => live = {} /\ quote[q].status = "accepted"
                    /\ live # {} => quote[q].status = "accepted" /\ quote[q].order \in live
  BY DEF QuoteConvertsOnce
<1>1. \A o \in live : quote[q].status = "accepted" /\ quote[q].order = o /\ ~quote[q].invoice
  BY DEF IInv, QuotesNameOrders
<1>2. quote[q].invoice => quote[q].status = "accepted"
  BY DEF IInv, QuotesNameOrders
<1>3. Cardinality(live) <= 1
  <2>1. CASE live = {}
    BY <2>1, FS_EmptySet
  <2>2. CASE live # {}
    <3>1. live = {quote[q].order}
      BY <1>1, <2>2
    <3>2. Cardinality({quote[q].order}) = 1
      BY FS_Singleton
    <3>3. Cardinality(live) = 1
      BY <3>1, <3>2, Zenon
    <3> QED
      BY <3>3
  <2> QED
    BY <2>1, <2>2
<1> QED
  BY <1>1, <1>2, <1>3

\* The inductive invariant implies the property the runs check.
LEMMA WordIsKept ==
  ASSUME IInv
  PROVE  OrdersKeepTheirWord
<1>0. Shapes /\ Billing /\ LinesShip
  BY DEF IInv
<1>1. \A o \in Orders : /\ DOMAIN order[o].lines \subseteq 1..MaxLines
                        /\ \A l \in DOMAIN order[o].lines : order[o].lines[l] \in OrderLines
  BY <1>0, Typed, LinesAre DEF OrderRows
<1>2. TypeOK
  <2>1. \A o \in Orders : order[o].status \in OrderStatuses /\ order[o].quote \in Quotes \cup {None}
    BY <1>0, Typed DEF OrderRows
  <2>2. \A r \in ResvIds : resv[r].status \in {"none", "open", "released", "consumed"}
    BY <1>0, Typed DEF ResvRows
  <2>3. \A q \in Quotes : quote[q].status \in QuoteStatuses /\ quote[q].order \in Orders \cup {None}
    BY <1>0, Typed DEF QuoteRows
  <2> QED
    BY <1>0, <1>1, <2>1, <2>2, <2>3 DEF TypeOK, Shapes
<1>3. InvoicedIsShipped
  BY <1>0, <1>1 DEF InvoicedIsShipped, Billing, LinesShip
<1> QED
  BY <1>2, <1>3, OpenIsDue, QuotesConvert DEF OrdersKeepTheirWord

\* The inductive invariant holds of every reachable state, for any orders, quotes,
\* holds, items and quantities.
THEOREM Invariance == Spec => []IInv
BY InitInv, NextInv, PTL DEF Spec

\* Stock stays real, what is invoiced was shipped, the open reservations are those
\* of the open lines, and a quotation becomes at most one order or invoice
\* (confirmOrder, deliverOrder, cancelOrder, acceptQuote).
THEOREM WordsKept == Spec => []OrdersKeepTheirWord
BY Invariance, WordIsKept, PTL

-----------------------------------------------------------------------------
\* Promises are backed.
LEMMA TotalNat ==
  ASSUME NEW f \in [ResvIds -> ResvRows], NEW S \in SUBSET ResvIds, NEW i
  PROVE  Total(f, S, i) \in Nat
<1> DEFINE A == {r \in S : f[r].item = i}
<1>1. IsFiniteSet(A) /\ \A r \in A : [s \in ResvIds |-> f[s].qty][r] \in Nat
  BY RowsFinite, FS_Subset DEF ResvRows
<1> QED
  BY <1>1, SumNat DEF Total

\* What two sets of rows hold.
LEMMA TotalUnion ==
  ASSUME NEW f \in [ResvIds -> ResvRows], NEW S \in SUBSET ResvIds, NEW T \in SUBSET ResvIds,
         NEW i, S \cap T = {}
  PROVE  Total(f, S \cup T, i) = Total(f, S, i) + Total(f, T, i)
<1> DEFINE Of(s) == {r \in s : f[r].item = i}
           F == [r \in ResvIds |-> f[r].qty]
<1>1. /\ IsFiniteSet(Of(S)) /\ IsFiniteSet(Of(T)) /\ Of(S) \cap Of(T) = {}
      /\ Of(S \cup T) = Of(S) \cup Of(T)
      /\ \A r \in Of(S) \cup Of(T) : F[r] \in Int
  BY RowsFinite, FS_Subset DEF ResvRows
<1>2. /\ Total(f, S \cup T, i) = SumFunctionOnSet(F, Of(S \cup T))
      /\ Total(f, S, i) = SumFunctionOnSet(F, Of(S)) /\ Total(f, T, i) = SumFunctionOnSet(F, Of(T))
  BY DEF Total
<1> DEFINE A == Of(S)
           B == Of(T)
<1>3. /\ IsFiniteSet(A) /\ IsFiniteSet(B) /\ A \cap B = {}
      /\ \A r \in A \cup B : F[r] \in Int
  BY <1>1
<1>4. /\ Total(f, S \cup T, i) = SumFunctionOnSet(F, A \cup B)
      /\ Total(f, S, i) = SumFunctionOnSet(F, A) /\ Total(f, T, i) = SumFunctionOnSet(F, B)
  BY <1>1, <1>2
<1> HIDE DEF Of, F, A, B
<1> QED
  BY <1>3, <1>4, SumUnion

\* Where no row opens or grows, no more is promised.
LEMMA RowsShrink ==
  ASSUME Shapes, Shapes', NEW i,
         \A r \in ResvIds : /\ resv'[r].item = resv[r].item /\ resv'[r].qty <= resv[r].qty
                            /\ resv'[r].status = "open" => resv[r].status = "open"
  PROVE  ~ (OpenReserved(i)' > OpenReserved(i))
<1> DEFINE T == {r \in ResvIds : resv[r].status = "open"}
           S == {r \in ResvIds : resv'[r].status = "open"}
<1>1. S \in SUBSET T /\ T \in SUBSET ResvIds
  OBVIOUS
<1>2. \A r \in S : resv'[r].item = resv[r].item /\ resv'[r].qty <= resv[r].qty
  OBVIOUS
<1>3. resv \in [ResvIds -> ResvRows] /\ resv' \in [ResvIds -> ResvRows]
  BY Typed DEF Shapes
<1>4. OpenReserved(i)' = Total(resv', S, i) /\ OpenReserved(i) = Total(resv, T, i)
  BY DEF OpenReserved, Reserved, Total
<1> HIDE DEF S, T
<1>5. Total(resv', S, i) <= Total(resv, T, i)
  BY <1>1, <1>2, <1>3, HeldShrinks
<1>6. Total(resv', S, i) \in Nat /\ Total(resv, T, i) \in Nat
  BY <1>1, <1>3, TotalNat
<1> QED
  BY <1>4, <1>5, <1>6

\* New open rows add what they hold to what was promised.
LEMMA RowsAdded ==
  ASSUME Shapes, Shapes', NEW N \in SUBSET ResvIds, NEW i,
         \A r \in N : resv[r].status # "open" /\ resv'[r].status = "open",
         \A r \in ResvIds \ N : resv'[r] = resv[r]
  PROVE  /\ OpenReserved(i)' = OpenReserved(i) + Total(resv', N, i)
         /\ OpenReserved(i) \in Nat /\ Total(resv', N, i) \in Nat
<1> DEFINE T == {r \in ResvIds : resv[r].status = "open"}
           S == {r \in ResvIds : resv'[r].status = "open"}
<1>1. S = T \cup N /\ T \cap N = {} /\ T \in SUBSET ResvIds
  OBVIOUS
<1>2. resv \in [ResvIds -> ResvRows] /\ resv' \in [ResvIds -> ResvRows]
  BY Typed DEF Shapes
<1>3. OpenReserved(i)' = Total(resv', S, i) /\ OpenReserved(i) = Total(resv, T, i)
  BY DEF OpenReserved, Reserved, Total
<1>4. \A r \in T : resv'[r].item = resv[r].item /\ resv'[r].qty = resv[r].qty
  BY <1>1
<1>5. \A r \in T : resv[r].qty \in Nat
  BY <1>2 DEF ResvRows
<1> HIDE DEF S, T
<1>6. Total(resv', S, i) = Total(resv', T, i) + Total(resv', N, i)
  BY <1>1, <1>2, TotalUnion
<1>7. Total(resv', T, i) \in Nat /\ Total(resv, T, i) \in Nat /\ Total(resv', N, i) \in Nat
  BY <1>1, <1>2, TotalNat
<1>8. Total(resv', T, i) <= Total(resv, T, i)
  <2>1. \A r \in T : resv'[r].item = resv[r].item /\ resv'[r].qty <= resv[r].qty
    BY <1>4, <1>5
  <2> QED
    BY <1>1, <1>2, <2>1, HeldShrinks
<1>9. Total(resv, T, i) <= Total(resv', T, i)
  <2>1. \A r \in T : resv[r].item = resv'[r].item /\ resv[r].qty <= resv'[r].qty
    BY <1>4, <1>5
  <2> QED
    BY <1>1, <1>2, <2>1, HeldShrinks
<1> QED
  BY <1>3, <1>6, <1>7, <1>8, <1>9

\* A confirmation takes what is free of each item, over all of its lines.
LEMMA ConfirmBacked ==
  ASSUME IInv, IInv', NEW o \in Orders, NEW b \in BOOLEAN, ConfirmOrder(o, b), NEW i \in Stocked
  PROVE  OpenReserved(i)' > OpenReserved(i) => OpenReserved(i)' <= onHand'[i]
<1>0. Shapes /\ Shapes' /\ RowsBelong
  BY DEF IInv
<1>1. PICK takes \in Takes(o) : resv' = Promised(o, takes)
  BY DEF ConfirmOrder
<1>2. order[o].status = "draft" /\ onHand' = onHand
  BY DEF ConfirmOrder
<1> DEFINE N == NewRows(o, takes)
           taken == SumFunctionOnSet(takes, ItemLines(order[o].lines, i))
<1>3. /\ N \subseteq ResvIds /\ \A r \in ResvIds \ N : resv'[r] = resv[r]
      /\ \A r \in N : resv'[r].status = "open" /\ \E l \in DOMAIN order[o].lines : r = <<o, l>>
  BY <1>0, <1>1, PromisedRows DEF NewRows
<1>4. DOMAIN order[o].lines \subseteq 1..MaxLines
  BY <1>0, Typed, LinesAre DEF OrderRows
<1>5. \A r \in N : resv[r].status # "open"
  BY <1>0, <1>2, <1>3, <1>4 DEF RowsBelong
<1>6. /\ Total(resv', N, i) \in Nat /\ taken \in Nat /\ Total(resv', N, i) <= taken
  BY <1>0, <1>1, PromisedTotal
<1>7. taken <= Free(i)
  BY <1>0, TakesFit
<1>8. onHand[i] \in Nat
  BY <1>0 DEF Shapes, Stocked
<1> HIDE DEF N, taken
<1>9. /\ OpenReserved(i)' = OpenReserved(i) + Total(resv', N, i) /\ OpenReserved(i) \in Nat
  BY <1>0, <1>3, <1>5, RowsAdded
<1> QED
  BY <1>2, <1>6, <1>7, <1>8, <1>9 DEF Free

\* reserveStock takes what is free.
LEMMA ReserveBacked ==
  ASSUME IInv, IInv', NEW h \in Holds, NEW j \in Items, NEW n \in 1..MaxQty, ReserveStock(h, j, n),
         NEW i \in Stocked
  PROVE  OpenReserved(i)' > OpenReserved(i) => OpenReserved(i)' <= onHand'[i]
<1>0. Shapes /\ Shapes'
  BY DEF IInv
<1>1. /\ h \in ResvIds /\ resv[h].status = "none" /\ n <= Promisable(j) /\ onHand' = onHand
      /\ resv' = [resv EXCEPT ![h] = [status |-> "open", item |-> j, qty |-> n, by |-> None]]
  BY DEF ReserveStock, ResvIds
<1>2. /\ resv'[h] = [status |-> "open", item |-> j, qty |-> n, by |-> None]
      /\ \A r \in ResvIds \ {h} : resv'[r] = resv[r]
  BY <1>0, <1>1, Typed
<1>3. /\ OpenReserved(i)' = OpenReserved(i) + Total(resv', {h}, i) /\ OpenReserved(i) \in Nat
  <2>1. {h} \in SUBSET ResvIds /\ \A r \in {h} : resv[r].status # "open" /\ resv'[r].status = "open"
    BY <1>1, <1>2
  <2> QED
    BY <1>0, <1>2, <2>1, RowsAdded
<1>4. CASE j # i
  <2>1. {r \in {h} : resv'[r].item = i} = {}
    BY <1>2, <1>4
  <2>2. Total(resv', {h}, i) = 0
    BY <2>1, SumEmpty DEF Total
  <2> QED
    BY <1>3, <2>2
<1>5. CASE j = i
  <2> DEFINE Q == [r \in ResvIds |-> resv'[r].qty]
  <2>1. {r \in {h} : resv'[r].item = i} = {} \cup {h} /\ Q[h] = n
    BY <1>1, <1>2, <1>5
  <2>2. Total(resv', {h}, i) = SumFunctionOnSet(Q, {} \cup {h})
    BY <2>1 DEF Total
  <2> HIDE DEF Q
  <2>3. SumFunctionOnSet(Q, {} \cup {h}) = Q[h] + SumFunctionOnSet(Q, {})
    <3>1. IsFiniteSet({}) /\ h \notin {} /\ \A x \in {} \cup {h} : Q[x] \in Int
      BY <2>1, FS_EmptySet
    <3> QED
      BY <3>1, SumAdd
  <2>4. Total(resv', {h}, i) = n
    BY <2>1, <2>2, <2>3, SumEmpty
  <2>5. onHand[i] \in Nat
    BY <1>0 DEF Shapes, Stocked
  <2> QED
    BY <1>1, <1>3, <1>5, <2>4, <2>5 DEF Promisable
<1> QED
  BY <1>4, <1>5

\* No other step opens a reservation.
LEMMA OthersBacked ==
  ASSUME IInv, IInv', NEW i \in Stocked,
         \/ UNCHANGED resv
         \/ \E o \in Orders : DeliverOrder(o) \/ CancelOrder(o)
         \/ \E r \in ResvIds : ReleaseReservation(r)
  PROVE  ~ (OpenReserved(i)' > OpenReserved(i))
<1>0. Shapes /\ Shapes' /\ ReadsHold /\ resv \in [ResvIds -> ResvRows]
  BY Typed DEF IInv
<1>1. \A r \in ResvIds : resv[r].qty \in Nat
  BY <1>0 DEF ResvRows
<1>2. CASE UNCHANGED resv
  BY <1>0, <1>1, <1>2, RowsShrink
<1>3. CASE \E o \in Orders : CancelOrder(o)
  <2>1. \A r \in ResvIds : /\ resv'[r].item = resv[r].item /\ resv'[r].qty = resv[r].qty
                           /\ resv'[r].status = "open" => resv[r].status = "open"
    BY <1>0, <1>3 DEF CancelOrder, ResvRows
  <2> QED
    BY <1>0, <1>1, <2>1, RowsShrink
<1>4. CASE \E s \in ResvIds : ReleaseReservation(s)
  <2>1. PICK s \in ResvIds : resv' = [resv EXCEPT ![s] = [resv[s] EXCEPT !.status = "released"]]
    BY <1>0, <1>4 DEF ReleaseReservation
  <2>2. \A r \in ResvIds : /\ resv'[r].item = resv[r].item /\ resv'[r].qty = resv[r].qty
                           /\ resv'[r].status = "open" => resv[r].status = "open"
    BY <1>0, <2>1 DEF ResvRows
  <2> QED
    BY <1>0, <1>1, <2>2, RowsShrink
<1>5. CASE \E o \in Orders : DeliverOrder(o)
  <2>1. PICK o \in Orders : DeliverOrder(o)
    BY <1>5
  <2> DEFINE S == delivering[o].open
  <2>2. PICK f \in Consumptions(o, delivering[o].lines, S) : resv' = Consumed(f)
    BY <2>1 DEF DeliverOrder
  <2>3. S \in SUBSET ResvIds
    BY <1>0, <2>1 DEF DeliverOrder, ReadsHold
  <2>4. f \in [S -> 0..MaxQty] /\ \A r \in S : f[r] <= resv[r].qty
    BY DEF Consumptions
  <2> HIDE DEF S
  <2>5. \A r \in ResvIds : /\ resv'[r].item = resv[r].item /\ resv'[r].qty <= resv[r].qty
                           /\ resv'[r].status \in {resv[r].status, "consumed"}
    BY <1>0, <2>2, <2>3, <2>4, ConsumedRows
  <2>6. \A r \in ResvIds : resv'[r].status = "open" => resv[r].status = "open"
    BY <2>5
  <2> QED
    BY <1>0, <2>5, <2>6, RowsShrink
<1> QED
  BY <1>2, <1>3, <1>4, <1>5

\* Every step that promises more of an item has it on hand.
LEMMA StepBacked == IInv /\ IInv' /\ [Next]_vars => [PromisesAreBacked]_vars
<1> SUFFICES ASSUME IInv, IInv', Next, NEW i \in Stocked
             PROVE  OpenReserved(i)' > OpenReserved(i) => OpenReserved(i)' <= onHand'[i]
  BY DEF PromisesAreBacked
<1>1. CASE \E o \in Orders, b \in BOOLEAN : ConfirmOrder(o, b)
  BY <1>1, ConfirmBacked
<1>2. CASE \E h \in Holds, j \in Items, n \in 1..MaxQty : ReserveStock(h, j, n)
  BY <1>2, ReserveBacked
<1>3. CASE \/ UNCHANGED resv
           \/ \E o \in Orders : DeliverOrder(o) \/ CancelOrder(o)
           \/ \E r \in ResvIds : ReleaseReservation(r)
  BY <1>3, OthersBacked
<1>4. ASSUME NEW q \in Quotes,
             (\E in \in LineInputs : CreateQuote(q, in)) \/ LapseQuote(q) \/ AcceptQuoteRead(q)
               \/ AcceptQuoteClaim(q) \/ DeclineQuote(q) \/ \E o \in Orders : CreateOrderFromQuote(o, q)
      PROVE  UNCHANGED resv
  BY <1>4 DEF CreateQuote, LapseQuote, AcceptQuoteRead, AcceptQuoteClaim, DeclineQuote, CreateOrderFromQuote
<1>5. ASSUME NEW o \in Orders,
             (\E in \in LineInputs : CreateOrder(o, in) \/ UpdateDraftOrder(o, in))
               \/ (\E d \in Deliveries(o) : DeliverOrderRead(o, d)) \/ DeliverOrderRefused(o)
      PROVE  UNCHANGED resv
  BY <1>5 DEF CreateOrder, UpdateDraftOrder, DeliverOrderRead, DeliverOrderRefused
<1>6. ASSUME ExpireQuote \/ (\E r \in ResvIds : ReleaseReservationRead(r))
               \/ (\E j \in Items : StockArrives(j)) \/ CustomerPays
      PROVE  UNCHANGED resv
  BY <1>6 DEF ExpireQuote, ReleaseReservationRead, StockArrives, CustomerPays
<1> QED
  BY <1>1, <1>2, <1>3, <1>4, <1>5, <1>6 DEF Next

\* Promising stock never takes open reservations over what is on hand: repeated
\* lines of one order, other orders and manual holds share one budget per item
\* (salesConfirmOrder, inventoryReserveStock).
THEOREM PromisesBacked == Spec => [][PromisesAreBacked]_vars
<1>1. IInv /\ IInv' /\ [Next]_vars => [PromisesAreBacked]_vars
  BY StepBacked
<1> QED
  BY <1>1, Invariance, PTL DEF Spec
=============================================================================
