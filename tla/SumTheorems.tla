---------------------------- MODULE SumTheorems ----------------------------
(***************************************************************************)
(* Sums over finite sets, the operator the money of every component is     *)
(* added up with: SumFunctionOnSet(f, S) adds f[x] for the x in S, in an   *)
(* order the definition leaves open.                                       *)
(***************************************************************************)
EXTENDS Integers, Functions, FiniteSetTheorems, WellFoundedInduction, TLAPS

FirstOf(S) == CHOOSE x \in S : TRUE
AfterFirst(S) == S \ {FirstOf(S)}
IsSumOn(it, f, S) ==
  it = [s \in SUBSET S |-> IF s = {} THEN 0 ELSE f[FirstOf(s)] + it[AfterFirst(s)]]

(* Among the finite sets with a property there is one that no smaller set  *)
(* has: the induction every lemma below needs.                             *)
LEMMA SmallestSet ==
  ASSUME NEW T, NEW S, S \in T, IsFiniteSet(S)
  PROVE  \E X \in T : /\ X \subseteq S /\ IsFiniteSet(X)
                      /\ \A Y \in T : Y \subseteq X => Y = X
<1> DEFINE U == {X \in FiniteSubsetsOf(S) : X \in T}
<1>1. S \in U
  BY FS_FiniteSubsetsOfFinite, S \in SUBSET S
<1>2. PICK X \in U : \A Y \in U : ~ (<<Y, X>> \in StrictSubsetOrdering(S))
  <2> HIDE DEF U
  <2>1. U \subseteq FiniteSubsetsOf(S)
    BY DEF U
  <2> QED BY <1>1, <2>1, FS_StrictSubsetOrderingWellFounded, WFMin
<1>3. X \subseteq S /\ IsFiniteSet(X) /\ X \in T
  BY <1>2 DEF FiniteSubsetsOf
<1>4. ASSUME NEW Y \in T, Y \subseteq X PROVE Y = X
  <2>1. IsFiniteSet(Y) /\ Y \subseteq S
    BY <1>3, <1>4, FS_Subset
  <2>2. Y \in U
    BY <2>1, <1>4 DEF FiniteSubsetsOf
  <2> QED BY <1>2, <1>3, <1>4, <2>1, <2>2 DEF StrictSubsetOrdering
<1> QED BY <1>3, <1>4

LEMMA PickInside ==
  ASSUME NEW S, S # {}
  PROVE  FirstOf(S) \in S /\ AfterFirst(S) \subseteq S /\ AfterFirst(S) # S
BY DEF FirstOf, AfterFirst

(* One unfolding of an iteration function. *)
LEMMA SumsAt ==
  ASSUME NEW it, NEW f, NEW S, IsSumOn(it, f, S), NEW s \in SUBSET S
  PROVE  it[s] = IF s = {} THEN 0 ELSE f[FirstOf(s)] + it[AfterFirst(s)]
<1> DEFINE g(x) == IF x = {} THEN 0 ELSE f[FirstOf(x)] + it[AfterFirst(x)]
<1>1. it = [x \in SUBSET S |-> g(x)]
  BY DEF IsSumOn
<1> HIDE DEF g
<1>2. it[s] = g(s)
  BY <1>1
<1> QED BY <1>2 DEF g

(* Two iteration functions agree where both are defined. *)
LEMMA SumsAgree ==
  ASSUME NEW i, NEW j, NEW f, NEW A, NEW B, IsSumOn(i, f, A), IsSumOn(j, f, B),
         NEW C, C \subseteq A, C \subseteq B, IsFiniteSet(C)
  PROVE  i[C] = j[C]
<1> SUFFICES ASSUME i[C] # j[C] PROVE FALSE
  OBVIOUS
<1> DEFINE T == {X \in SUBSET C : i[X] # j[X]}
<1>1. C \in T
  OBVIOUS
<1>2. PICK X \in T : \A Y \in T : Y \subseteq X => Y = X
  <2> HIDE DEF T
  <2> QED BY <1>1, SmallestSet
<1>3. X \in SUBSET A /\ X \in SUBSET B /\ i[X] # j[X]
  OBVIOUS
<1>4. X # {} => AfterFirst(X) \notin T
  BY <1>2, PickInside
<1>5. X # {} => i[AfterFirst(X)] = j[AfterFirst(X)]
  BY <1>4, PickInside
<1> QED BY <1>3, <1>5, SumsAt

(* The iteration function of a finite set exists. *)
LEMMA SumsExist ==
  ASSUME NEW f, NEW S, IsFiniteSet(S)
  PROVE  \E it : IsSumOn(it, f, S)
<1> SUFFICES ASSUME ~ \E it : IsSumOn(it, f, S) PROVE FALSE
  OBVIOUS
<1> DEFINE T == {X \in SUBSET S : ~ \E it : IsSumOn(it, f, X)}
<1>1. PICK X \in T : IsFiniteSet(X) /\ \A Y \in T : Y \subseteq X => Y = X
  <2>1. S \in T
    OBVIOUS
  <2> HIDE DEF T
  <2> QED BY <2>1, SmallestSet
<1> DEFINE it(Y) == CHOOSE i : IsSumOn(i, f, Y)
<1>2. ASSUME NEW Y \in SUBSET X, Y # X PROVE IsSumOn(it(Y), f, Y)
  <2>1. Y \notin T
    BY <1>1, <1>2
  <2>2. \E i : IsSumOn(i, f, Y)
    BY <2>1
  <2> QED BY <2>2
<1> DEFINE value(Y) == IF Y = {} THEN 0 ELSE f[FirstOf(Y)] + it(AfterFirst(Y))[AfterFirst(Y)]
           g == [Y \in SUBSET X |-> value(Y)]
<1> HIDE DEF it, T
<1>3. ASSUME NEW Y \in SUBSET X, Y # {} PROVE g[Y] = f[FirstOf(Y)] + g[AfterFirst(Y)]
  <2> DEFINE Z == AfterFirst(Y)
  <2>1. Z \in SUBSET X /\ Z # X
    BY <1>3, PickInside
  <2>2. IsSumOn(it(Z), f, Z)
    BY <2>1, <1>2
  <2>3. it(Z)[Z] = value(Z)
    <3>1. CASE Z = {}
      BY <3>1, <2>2, SumsAt, Z \in SUBSET Z
    <3>2. CASE Z # {}
      <4>1. AfterFirst(Z) \in SUBSET X /\ AfterFirst(Z) # X /\ AfterFirst(Z) \subseteq Z
        BY <2>1, <3>2, PickInside
      <4>2. IsSumOn(it(AfterFirst(Z)), f, AfterFirst(Z))
        BY <4>1, <1>2
      <4>3. IsFiniteSet(AfterFirst(Z))
        BY <4>1, <1>1, FS_Subset
      <4>4. it(Z)[AfterFirst(Z)] = it(AfterFirst(Z))[AfterFirst(Z)]
        BY <4>1, <4>2, <4>3, <2>2, SumsAgree
      <4>5. it(Z)[Z] = f[FirstOf(Z)] + it(Z)[AfterFirst(Z)]
        BY <3>2, <2>2, SumsAt, Z \in SUBSET Z
      <4> QED BY <3>2, <4>4, <4>5
    <3> QED BY <3>1, <3>2
  <2>4. g[Z] = value(Z)
    BY <2>1
  <2>5. g[Y] = f[FirstOf(Y)] + it(Z)[Z]
    BY <1>3
  <2> QED BY <2>3, <2>4, <2>5
<1>4. g[{}] = 0
  OBVIOUS
<1>5. IsSumOn(g, f, X)
  <2>1. \A Y \in SUBSET X : g[Y] = IF Y = {} THEN 0 ELSE f[FirstOf(Y)] + g[AfterFirst(Y)]
    BY <1>3, <1>4
  <2>2. g = [Y \in SUBSET X |-> g[Y]]
    OBVIOUS
  <2> HIDE DEF g
  <2>3. g = [Y \in SUBSET X |-> IF Y = {} THEN 0 ELSE f[FirstOf(Y)] + g[AfterFirst(Y)]]
    BY <2>1, <2>2
  <2> QED BY <2>3 DEF IsSumOn
<1> QED BY <1>1, <1>5 DEF T

LEMMA SumIs ==
  ASSUME NEW f, NEW S
  PROVE  SumFunctionOnSet(f, S) = (CHOOSE it : IsSumOn(it, f, S))[S]
BY DEF SumFunctionOnSet, FoldFunctionOnSet, MapThenFoldSet, IsSumOn, FirstOf, AfterFirst

-----------------------------------------------------------------------------
(* The sum of nothing is zero; the sum of something is what the definition *)
(* picks first and the sum of the rest.                                    *)
THEOREM SumEmpty == \A f : SumFunctionOnSet(f, {}) = 0
<1> TAKE f
<1>1. \E it : IsSumOn(it, f, {})
  BY SumsExist, FS_EmptySet
<1>2. IsSumOn(CHOOSE it : IsSumOn(it, f, {}), f, {})
  BY <1>1
<1> QED BY <1>2, SumsAt, SumIs, {} \in SUBSET {}

LEMMA SumPick ==
  ASSUME NEW f, NEW S, IsFiniteSet(S), S # {}
  PROVE  SumFunctionOnSet(f, S) = f[FirstOf(S)] + SumFunctionOnSet(f, AfterFirst(S))
<1> DEFINE i == CHOOSE it : IsSumOn(it, f, S)
           j == CHOOSE it : IsSumOn(it, f, AfterFirst(S))
<1>1. AfterFirst(S) \subseteq S /\ IsFiniteSet(AfterFirst(S))
  BY PickInside, FS_Subset
<1>2. IsSumOn(i, f, S)
  BY SumsExist
<1>3. IsSumOn(j, f, AfterFirst(S))
  BY <1>1, SumsExist
<1>4. SumFunctionOnSet(f, S) = i[S] /\ SumFunctionOnSet(f, AfterFirst(S)) = j[AfterFirst(S)]
  BY SumIs
<1> HIDE DEF i, j
<1>5. i[S] = f[FirstOf(S)] + i[AfterFirst(S)]
  BY <1>2, SumsAt, S \in SUBSET S
<1>6. i[AfterFirst(S)] = j[AfterFirst(S)]
  BY <1>1, <1>2, <1>3, SumsAgree
<1> QED BY <1>4, <1>5, <1>6

(* Any element may be taken first: the order does not matter.              *)
LEMMA SumTakesAny ==
  ASSUME NEW f, NEW S, IsFiniteSet(S), \A x \in S : f[x] \in Int
  PROVE  /\ SumFunctionOnSet(f, S) \in Int
         /\ \A x \in S :
              SumFunctionOnSet(f, S) = f[x] + SumFunctionOnSet(f, S \ {x})
<1> DEFINE Sum(X) == SumFunctionOnSet(f, X)
           Good(X) == Sum(X) \in Int /\ \A x \in X : Sum(X) = f[x] + Sum(X \ {x})
<1> SUFFICES ASSUME ~ Good(S) PROVE FALSE
  OBVIOUS
<1> DEFINE T == {X \in SUBSET S : ~ Good(X)}
<1>1. PICK X \in T : IsFiniteSet(X) /\ \A Y \in T : Y \subseteq X => Y = X
  <2>1. S \in T
    OBVIOUS
  <2> HIDE DEF T
  <2> QED BY <2>1, SmallestSet
<1>2. X \in SUBSET S /\ ~ Good(X)
  BY <1>1
<1>3. \A Y \in SUBSET X : Y # X => Good(Y)
  BY <1>1, <1>2
<1>4. X # {}
  <2>1. Good({})
    BY SumEmpty
  <2> QED BY <2>1, <1>2
<1> DEFINE p == FirstOf(X)
<1>5. p \in X /\ AfterFirst(X) \subseteq X /\ AfterFirst(X) # X /\ AfterFirst(X) = X \ {p}
  BY <1>4, PickInside DEF AfterFirst
<1>6. Sum(X) = f[p] + Sum(X \ {p})
  BY <1>1, <1>4, <1>5, SumPick, ZenonT(60)
<1> HIDE DEF Good, Sum, T, p
<1>7. Good(X \ {p}) /\ f[p] \in Int
  BY <1>2, <1>3, <1>5
<1>8. Sum(X) \in Int
  BY <1>6, <1>7 DEF Good
<1>9. ASSUME NEW x \in X PROVE Sum(X) = f[x] + Sum(X \ {x})
  <2>1. CASE x = p
    BY <1>6, <2>1
  <2>2. CASE x # p
    <3>1. Good(X \ {x}) /\ Good((X \ {p}) \ {x}) /\ f[x] \in Int
      BY <1>2, <1>3
    <3>2. Sum(X \ {p}) = f[x] + Sum((X \ {p}) \ {x})
      BY <1>7, <2>2 DEF Good
    <3>3. Sum(X \ {x}) = f[p] + Sum((X \ {x}) \ {p})
      BY <1>5, <3>1, <2>2 DEF Good
    <3> DEFINE others == Sum((X \ {p}) \ {x})
    <3>4. Sum(X \ {x}) = f[p] + others
      <4>1. (X \ {x}) \ {p} = (X \ {p}) \ {x}
        OBVIOUS
      <4> QED BY <3>3, <4>1
    <3>5. others \in Int
      BY <3>1 DEF Good
    <3>6. Sum(X) = f[p] + (f[x] + others)
      BY <1>6, <3>2
    <3> HIDE DEF others
    <3>7. f[p] + (f[x] + others) = f[x] + (f[p] + others)
      BY <1>7, <3>1, <3>5
    <3> QED BY <3>4, <3>6, <3>7
  <2> QED BY <2>1, <2>2
<1> QED BY <1>2, <1>8, <1>9 DEF Good

(* A sum of integers is an integer.                                        *)
THEOREM SumInt ==
  ASSUME NEW f, NEW S, IsFiniteSet(S), \A x \in S : f[x] \in Int
  PROVE  SumFunctionOnSet(f, S) \in Int
BY SumTakesAny

(* Taking one element out of the set takes its value out of the sum.       *)
THEOREM SumRemove ==
  ASSUME NEW f, NEW S, IsFiniteSet(S), \A x \in S : f[x] \in Int, NEW x \in S
  PROVE  /\ SumFunctionOnSet(f, S \ {x}) \in Int
         /\ SumFunctionOnSet(f, S) = f[x] + SumFunctionOnSet(f, S \ {x})
<1>1. IsFiniteSet(S \ {x}) /\ \A y \in S \ {x} : f[y] \in Int
  BY FS_Subset
<1> QED BY <1>1, SumTakesAny, SumInt

(* One more element adds its value.                                        *)
THEOREM SumAdd ==
  ASSUME NEW f, NEW S, IsFiniteSet(S), NEW x, x \notin S,
         \A y \in S \cup {x} : f[y] \in Int
  PROVE  SumFunctionOnSet(f, S \cup {x}) = f[x] + SumFunctionOnSet(f, S)
<1>1. IsFiniteSet(S \cup {x}) /\ x \in S \cup {x} /\ (S \cup {x}) \ {x} = S
  BY FS_AddElement
<1> QED BY <1>1, SumRemove

(* Sums of the same values are the same.                                   *)
THEOREM SumSame ==
  ASSUME NEW f, NEW g, NEW S, IsFiniteSet(S), \A x \in S : f[x] = g[x]
  PROVE  SumFunctionOnSet(f, S) = SumFunctionOnSet(g, S)
<1> DEFINE F(X) == SumFunctionOnSet(f, X)
           G(X) == SumFunctionOnSet(g, X)
<1> SUFFICES ASSUME F(S) # G(S) PROVE FALSE
  OBVIOUS
<1> DEFINE T == {X \in SUBSET S : F(X) # G(X)}
<1>1. PICK X \in T : IsFiniteSet(X) /\ \A Y \in T : Y \subseteq X => Y = X
  <2>1. S \in T
    OBVIOUS
  <2> HIDE DEF T
  <2> QED BY <2>1, SmallestSet
<1>2. X # {}
  <2>1. F({}) = 0 /\ G({}) = 0
    BY SumEmpty
  <2> QED BY <2>1, <1>1
<1>3. FirstOf(X) \in X /\ AfterFirst(X) \subseteq X /\ AfterFirst(X) # X
  BY <1>2, PickInside
<1>4. F(X) = f[FirstOf(X)] + F(AfterFirst(X)) /\ G(X) = g[FirstOf(X)] + G(AfterFirst(X))
  BY <1>1, <1>2, SumPick
<1> HIDE DEF F, G
<1>5. F(AfterFirst(X)) = G(AfterFirst(X))
  BY <1>1, <1>3
<1>6. f[FirstOf(X)] = g[FirstOf(X)]
  BY <1>1, <1>3
<1> QED BY <1>1, <1>4, <1>5, <1>6

(* One value changes: the sum changes by as much.                          *)
THEOREM SumChange ==
  ASSUME NEW f, NEW g, NEW S, IsFiniteSet(S), NEW x \in S,
         \A y \in S : f[y] \in Int /\ g[y] \in Int,
         \A y \in S \ {x} : f[y] = g[y]
  PROVE  SumFunctionOnSet(g, S) = SumFunctionOnSet(f, S) + g[x] - f[x]
<1>1. IsFiniteSet(S \ {x})
  BY FS_Subset
<1>2. SumFunctionOnSet(f, S \ {x}) = SumFunctionOnSet(g, S \ {x})
  BY <1>1, SumSame
<1>3. SumFunctionOnSet(f, S \ {x}) \in Int /\ f[x] \in Int /\ g[x] \in Int
  BY SumRemove
<1>4. SumFunctionOnSet(f, S) = f[x] + SumFunctionOnSet(f, S \ {x})
  BY SumRemove
<1>5. SumFunctionOnSet(g, S) = g[x] + SumFunctionOnSet(g, S \ {x})
  BY SumRemove
<1> QED BY <1>2, <1>3, <1>4, <1>5

(* A sum of values that are at most as large is at most as large.          *)
THEOREM SumMonotonic ==
  ASSUME NEW f, NEW g, NEW S, IsFiniteSet(S),
         \A y \in S : f[y] \in Int /\ g[y] \in Int /\ f[y] <= g[y]
  PROVE  SumFunctionOnSet(f, S) <= SumFunctionOnSet(g, S)
<1> DEFINE F(X) == SumFunctionOnSet(f, X)
           G(X) == SumFunctionOnSet(g, X)
<1> SUFFICES ASSUME ~ F(S) <= G(S) PROVE FALSE
  OBVIOUS
<1> DEFINE T == {X \in SUBSET S : ~ F(X) <= G(X)}
<1>1. PICK X \in T : IsFiniteSet(X) /\ \A Y \in T : Y \subseteq X => Y = X
  <2>1. S \in T
    OBVIOUS
  <2> HIDE DEF T
  <2> QED BY <2>1, SmallestSet
<1>2. X # {}
  <2>1. F({}) = 0 /\ G({}) = 0
    BY SumEmpty
  <2>2. ~ F(X) <= G(X)
    BY <1>1
  <2> HIDE DEF F, G
  <2>3. F({}) <= G({})
    BY <2>1
  <2> QED BY <2>2, <2>3
<1>3. FirstOf(X) \in X /\ AfterFirst(X) \subseteq X /\ AfterFirst(X) # X
  BY <1>2, PickInside
<1>4. F(X) = f[FirstOf(X)] + F(AfterFirst(X)) /\ G(X) = g[FirstOf(X)] + G(AfterFirst(X))
  BY <1>1, <1>2, SumPick
<1>5. F(AfterFirst(X)) \in Int /\ G(AfterFirst(X)) \in Int
  <2>1. IsFiniteSet(AfterFirst(X)) /\ AfterFirst(X) \subseteq S
    BY <1>1, <1>3, FS_Subset
  <2>2. \A y \in AfterFirst(X) : f[y] \in Int /\ g[y] \in Int
    BY <2>1
  <2> QED BY <2>1, <2>2, SumInt
<1> HIDE DEF F, G
<1>6. F(AfterFirst(X)) <= G(AfterFirst(X))
  BY <1>1, <1>3
<1>7. f[FirstOf(X)] \in Int /\ g[FirstOf(X)] \in Int /\ f[FirstOf(X)] <= g[FirstOf(X)]
  BY <1>1, <1>3
<1> QED BY <1>1, <1>4, <1>5, <1>6, <1>7

(* A sum of natural numbers is one.                                        *)
THEOREM SumNat ==
  ASSUME NEW f, NEW S, IsFiniteSet(S), \A x \in S : f[x] \in Nat
  PROVE  SumFunctionOnSet(f, S) \in Nat
<1> DEFINE F(X) == SumFunctionOnSet(f, X)
<1> SUFFICES ASSUME F(S) \notin Nat PROVE FALSE
  OBVIOUS
<1> DEFINE T == {X \in SUBSET S : F(X) \notin Nat}
<1>1. PICK X \in T : IsFiniteSet(X) /\ \A Y \in T : Y \subseteq X => Y = X
  <2>1. S \in T
    OBVIOUS
  <2> HIDE DEF T
  <2> QED BY <2>1, SmallestSet
<1>2. X # {}
  <2>1. F({}) = 0
    BY SumEmpty
  <2>2. F(X) \notin Nat
    BY <1>1
  <2> HIDE DEF F
  <2> QED BY <2>1, <2>2
<1>3. FirstOf(X) \in X /\ AfterFirst(X) \subseteq X /\ AfterFirst(X) # X
  BY <1>2, PickInside
<1>4. F(X) = f[FirstOf(X)] + F(AfterFirst(X))
  BY <1>1, <1>2, SumPick
<1> HIDE DEF F
<1>5. F(AfterFirst(X)) \in Nat /\ f[FirstOf(X)] \in Nat /\ F(X) \notin Nat
  BY <1>1, <1>3
<1> QED BY <1>4, <1>5

(* Adding elements that are not negative does not lower a sum.             *)
THEOREM SumSubset ==
  ASSUME NEW f, NEW S, IsFiniteSet(S), \A x \in S : f[x] \in Nat, NEW R, R \subseteq S
  PROVE  SumFunctionOnSet(f, R) <= SumFunctionOnSet(f, S)
<1> DEFINE F(X) == SumFunctionOnSet(f, X)
<1> SUFFICES ASSUME ~ F(R) <= F(S) PROVE FALSE
  OBVIOUS
<1> DEFINE T == {X \in SUBSET S : R \subseteq X /\ ~ F(R) <= F(X)}
<1>1. PICK X \in T : IsFiniteSet(X) /\ \A Y \in T : Y \subseteq X => Y = X
  <2>1. S \in T
    OBVIOUS
  <2> HIDE DEF T
  <2> QED BY <2>1, SmallestSet
<1>2. F(R) \in Nat /\ F(X) \in Nat
  BY <1>1, SumNat, FS_Subset
<1>3. PICK x \in X : x \notin R
  <2>1. X # R
    <3> HIDE DEF F
    <3>1. ~ F(R) <= F(X)
      BY <1>1
    <3> QED BY <1>2, <3>1
  <2> QED BY <2>1, <1>1
<1>4. F(X \ {x}) \in Int /\ F(X) = f[x] + F(X \ {x}) /\ f[x] \in Nat
  <2>1. \A y \in X : f[y] \in Nat
    BY <1>1
  <2> QED BY <2>1, <1>1, SumRemove
<1> HIDE DEF F
<1>5. F(R) <= F(X \ {x}) /\ ~ F(R) <= F(X)
  BY <1>1, <1>3
<1> QED BY <1>2, <1>4, <1>5

(* No single value exceeds a sum of natural numbers.                       *)
THEOREM SumAtLeast ==
  ASSUME NEW f, NEW S, IsFiniteSet(S), \A y \in S : f[y] \in Nat, NEW x \in S
  PROVE  f[x] <= SumFunctionOnSet(f, S)
<1>1. IsFiniteSet(S \ {x}) /\ \A y \in S \ {x} : f[y] \in Nat
  BY FS_Subset
<1>2. SumFunctionOnSet(f, S \ {x}) \in Nat /\ f[x] \in Nat
  BY <1>1, SumNat
<1>3. SumFunctionOnSet(f, S) = f[x] + SumFunctionOnSet(f, S \ {x})
  BY SumRemove
<1> QED BY <1>2, <1>3

(* The sum of the sums of two values each.                                 *)
THEOREM SumPlus ==
  ASSUME NEW f, NEW g, NEW h, NEW S, IsFiniteSet(S),
         \A x \in S : f[x] \in Int /\ g[x] \in Int /\ h[x] = f[x] + g[x]
  PROVE  SumFunctionOnSet(h, S) = SumFunctionOnSet(f, S) + SumFunctionOnSet(g, S)
<1> DEFINE F(X) == SumFunctionOnSet(f, X)
           G(X) == SumFunctionOnSet(g, X)
           H(X) == SumFunctionOnSet(h, X)
<1> SUFFICES ASSUME H(S) # F(S) + G(S) PROVE FALSE
  OBVIOUS
<1> DEFINE T == {X \in SUBSET S : H(X) # F(X) + G(X)}
<1>1. PICK X \in T : IsFiniteSet(X) /\ \A Y \in T : Y \subseteq X => Y = X
  <2>1. S \in T
    OBVIOUS
  <2> HIDE DEF T
  <2> QED BY <2>1, SmallestSet
<1>2. X # {}
  <2>1. F({}) = 0 /\ G({}) = 0 /\ H({}) = 0
    BY SumEmpty
  <2>2. H(X) # F(X) + G(X)
    BY <1>1
  <2> HIDE DEF F, G, H
  <2>3. H({}) = F({}) + G({})
    BY <2>1
  <2> QED BY <2>2, <2>3
<1> DEFINE p == FirstOf(X)
<1>3. p \in X /\ AfterFirst(X) \subseteq X /\ AfterFirst(X) # X
  BY <1>2, PickInside
<1>4. /\ F(X) = f[p] + F(AfterFirst(X)) /\ G(X) = g[p] + G(AfterFirst(X))
      /\ H(X) = h[p] + H(AfterFirst(X))
  BY <1>1, <1>2, SumPick
<1>5. F(AfterFirst(X)) \in Int /\ G(AfterFirst(X)) \in Int
  <2>1. IsFiniteSet(AfterFirst(X)) /\ \A x \in AfterFirst(X) : f[x] \in Int /\ g[x] \in Int
    BY <1>1, <1>3, FS_Subset
  <2> QED BY <2>1, SumInt
<1>6. H(X) # F(X) + G(X) /\ H(AfterFirst(X)) = F(AfterFirst(X)) + G(AfterFirst(X))
  <2> HIDE DEF F, G, H, p
  <2> QED BY <1>1, <1>3
<1>7. f[p] \in Int /\ g[p] \in Int /\ h[p] = f[p] + g[p]
  BY <1>1, <1>3
<1> HIDE DEF F, G, H, p
<1> QED BY <1>4, <1>5, <1>6, <1>7

(* A sum of zeros is zero.                                                 *)
THEOREM SumZero ==
  ASSUME NEW f, NEW S, IsFiniteSet(S), \A x \in S : f[x] = 0
  PROVE  SumFunctionOnSet(f, S) = 0
<1> DEFINE sum == SumFunctionOnSet(f, S)
<1>1. \A x \in S : f[x] \in Int /\ f[x] \in Int /\ f[x] = f[x] + f[x]
  OBVIOUS
<1>2. sum = sum + sum
  BY <1>1, SumPlus
<1>3. sum \in Int
  BY <1>1, SumInt
<1> HIDE DEF sum
<1>4. sum = 0
  BY <1>2, <1>3
<1> QED BY <1>4 DEF sum

(* What is zero may be left out.                                           *)
THEOREM SumWithoutZeros ==
  ASSUME NEW f, NEW S, IsFiniteSet(S), NEW R, R \subseteq S,
         \A x \in R : f[x] \in Int, \A x \in S \ R : f[x] = 0
  PROVE  SumFunctionOnSet(f, R) = SumFunctionOnSet(f, S)
<1> DEFINE F(X) == SumFunctionOnSet(f, X)
<1> SUFFICES ASSUME F(R) # F(S) PROVE FALSE
  OBVIOUS
<1> DEFINE T == {X \in SUBSET S : R \subseteq X /\ F(R) # F(X)}
<1>1. PICK X \in T : IsFiniteSet(X) /\ \A Y \in T : Y \subseteq X => Y = X
  <2>1. S \in T
    OBVIOUS
  <2> HIDE DEF T
  <2> QED BY <2>1, SmallestSet
<1>2. PICK x \in X : x \notin R
  <2>1. R \subseteq X /\ F(R) # F(X)
    BY <1>1
  <2> HIDE DEF F
  <2>2. X # R
    BY <2>1
  <2> QED BY <2>1, <2>2
<1>3. F(X \ {x}) \in Int /\ F(X) = f[x] + F(X \ {x}) /\ f[x] = 0
  <2>1. \A y \in X : f[y] \in Int
    BY <1>1
  <2>2. f[x] = 0
    BY <1>1, <1>2
  <2> QED BY <2>1, <2>2, <1>1, SumRemove
<1> HIDE DEF F
<1>4. F(R) = F(X \ {x}) /\ F(R) # F(X)
  BY <1>1, <1>2
<1> QED BY <1>3, <1>4

-----------------------------------------------------------------------------
(* Sums and counts for splitting an amount by weight.                      *)

(* A common factor may be taken out of a sum.                              *)
THEOREM SumTimes ==
  ASSUME NEW f, NEW h, NEW c \in Int, NEW S, IsFiniteSet(S),
         \A x \in S : f[x] \in Int /\ h[x] = c * f[x]
  PROVE  SumFunctionOnSet(h, S) = c * SumFunctionOnSet(f, S)
<1> DEFINE F(X) == SumFunctionOnSet(f, X)
           H(X) == SumFunctionOnSet(h, X)
<1> SUFFICES ASSUME H(S) # c * F(S) PROVE FALSE
  OBVIOUS
<1> DEFINE T == {X \in SUBSET S : H(X) # c * F(X)}
<1>1. PICK X \in T : IsFiniteSet(X) /\ \A Y \in T : Y \subseteq X => Y = X
  <2>1. S \in T
    OBVIOUS
  <2> HIDE DEF T
  <2> QED BY <2>1, SmallestSet
<1>2. X # {}
  <2>1. F({}) = 0 /\ H({}) = 0
    BY SumEmpty
  <2>2. H(X) # c * F(X)
    BY <1>1
  <2> HIDE DEF F, H
  <2>3. H({}) = c * F({})
    BY <2>1
  <2> QED BY <2>2, <2>3
<1> DEFINE p == FirstOf(X)
<1>3. p \in X /\ AfterFirst(X) \subseteq X /\ AfterFirst(X) # X
  BY <1>2, PickInside
<1>4. F(X) = f[p] + F(AfterFirst(X)) /\ H(X) = h[p] + H(AfterFirst(X))
  BY <1>1, <1>2, SumPick
<1>5. F(AfterFirst(X)) \in Int
  <2>1. IsFiniteSet(AfterFirst(X)) /\ \A x \in AfterFirst(X) : f[x] \in Int
    BY <1>1, <1>3, FS_Subset
  <2> QED BY <2>1, SumInt
<1>6. H(X) # c * F(X) /\ H(AfterFirst(X)) = c * F(AfterFirst(X))
  <2> HIDE DEF F, H, p
  <2> QED BY <1>1, <1>3
<1>7. f[p] \in Int /\ h[p] = c * f[p]
  BY <1>1, <1>3
<1> HIDE DEF F, H, p
<1>8. c * (f[p] + F(AfterFirst(X))) = c * f[p] + c * F(AfterFirst(X))
  BY <1>5, <1>7
<1> QED BY <1>4, <1>6, <1>7, <1>8

(* Ones count.                                                             *)
THEOREM SumCounts ==
  ASSUME NEW f, NEW S, IsFiniteSet(S), NEW A, A \subseteq S,
         \A x \in A : f[x] = 1, \A x \in S \ A : f[x] = 0
  PROVE  SumFunctionOnSet(f, S) = Cardinality(A)
<1> DEFINE F(X) == SumFunctionOnSet(f, X)
<1>1. F(A) = F(S)
  BY SumWithoutZeros
<1> SUFFICES ASSUME F(A) # Cardinality(A) PROVE FALSE
  BY <1>1
<1> DEFINE T == {X \in SUBSET A : F(X) # Cardinality(X)}
<1>2. PICK X \in T : IsFiniteSet(X) /\ \A Y \in T : Y \subseteq X => Y = X
  <2>1. A \in T /\ IsFiniteSet(A)
    BY FS_Subset
  <2> HIDE DEF T
  <2> QED BY <2>1, SmallestSet
<1>3. PICK x \in X : TRUE
  <2>1. F({}) = 0 /\ Cardinality({}) = 0
    BY SumEmpty, FS_EmptySet
  <2> QED BY <1>2, <2>1
<1>4. F(X) = f[x] + F(X \ {x}) /\ f[x] = 1
  <2>1. \A y \in X : f[y] \in Int /\ f[y] = 1
    BY <1>2
  <2> QED BY <2>1, <1>2, SumRemove
<1>5. Cardinality(X \ {x}) = Cardinality(X) - 1 /\ Cardinality(X) \in Nat
  BY <1>2, FS_RemoveElement, FS_CardinalityType
<1>6. F(X \ {x}) = Cardinality(X \ {x}) /\ F(X) # Cardinality(X)
  BY <1>2
<1> HIDE DEF F
<1> QED BY <1>4, <1>5, <1>6

(* Numbers up to b, of which only those in R are not zero.                 *)
THEOREM SumBounded ==
  ASSUME NEW f, NEW S, IsFiniteSet(S), NEW R, R \subseteq S, NEW b \in Nat,
         \A x \in S : f[x] \in Nat /\ f[x] <= b, \A x \in S \ R : f[x] = 0
  PROVE  SumFunctionOnSet(f, S) <= b * Cardinality(R)
<1> DEFINE one == [x \in S |-> IF x \in R THEN 1 ELSE 0]
           most == [x \in S |-> b * one[x]]
<1>1. \A x \in S : one[x] \in Int /\ most[x] \in Int
  OBVIOUS
<1>2. \A x \in S : f[x] <= most[x]
  <2>1. \A x \in R : most[x] = b /\ f[x] <= b
    OBVIOUS
  <2>2. \A x \in S \ R : most[x] = 0 /\ f[x] = 0
    OBVIOUS
  <2> QED BY <2>1, <2>2
<1>3. /\ \A x \in R : one[x] = 1
      /\ \A x \in S \ R : one[x] = 0
      /\ \A x \in S : most[x] = b * one[x]
  OBVIOUS
<1> HIDE DEF one, most
<1>4. SumFunctionOnSet(f, S) <= SumFunctionOnSet(most, S)
  BY <1>1, <1>2, SumMonotonic
<1>5. SumFunctionOnSet(most, S) = b * SumFunctionOnSet(one, S)
  BY <1>1, <1>3, SumTimes
<1>6. SumFunctionOnSet(one, S) = Cardinality(R)
  BY <1>3, SumCounts
<1> QED BY <1>4, <1>5, <1>6

(* In a strict order of n elements, given as those ahead of each, m of     *)
(* them have fewer than m ahead.                                           *)
THEOREM RanksCount ==
  ASSUME NEW S, IsFiniteSet(S), NEW ahead \in [S -> SUBSET S],
         \A x \in S : x \notin ahead[x],
         \A x, y \in S : x \in ahead[y] => ahead[x] \subseteq ahead[y],
         \A x, y \in S : x = y \/ x \in ahead[y] \/ y \in ahead[x],
         NEW m \in Nat, m <= Cardinality(S)
  PROVE  Cardinality({x \in S : Cardinality(ahead[x]) < m}) = m
<1> DEFINE rank == [x \in S |-> Cardinality(ahead[x])]
           n == Cardinality(S)
           X == {x \in S : rank[x] < m}
<1>1. n \in Nat
  BY FS_CardinalityType
<1>2. \A x \in S : IsFiniteSet(ahead[x]) /\ rank[x] \in Nat /\ rank[x] < n
  <2>1. \A x \in S : ahead[x] \subseteq S /\ ahead[x] # S
    OBVIOUS
  <2> QED BY <2>1, FS_Subset, FS_CardinalityType
<1>3. \A x, y \in S : x \in ahead[y] => rank[x] < rank[y]
  <2> TAKE x \in S, y \in S
  <2> HAVE x \in ahead[y]
  <2>1. ahead[x] \subseteq ahead[y] /\ ahead[x] # ahead[y] /\ IsFiniteSet(ahead[y])
    BY <1>2
  <2>2. Cardinality(ahead[x]) < Cardinality(ahead[y])
    BY <2>1, <1>2, FS_Subset, FS_CardinalityType
  <2> QED BY <2>2
<1>4. rank \in Injection(S, 0..(n - 1))
  <2>1. rank \in [S -> 0..(n - 1)]
    BY <1>1, <1>2
  <2>2. \A x, y \in S : rank[x] = rank[y] => x = y
    BY <1>2, <1>3
  <2> QED BY <2>1, <2>2 DEF Injection, IsInjective
<1>5. \A i \in 0..(n - 1) : \E x \in S : rank[x] = i
  <2>1. IsFiniteSet(0..(n - 1)) /\ Cardinality(0..(n - 1)) = n
    <3> HIDE DEF n
    <3>1. n - 1 \in Int
      BY <1>1
    <3> QED BY <1>1, <3>1, FS_Interval
  <2>2. rank \in Surjection(S, 0..(n - 1))
    BY <1>4, <2>1, FS_Injection
  <2> QED BY <2>2 DEF Surjection
<1> HIDE DEF rank
<1> DEFINE low == [x \in X |-> rank[x]]
<1>6. low \in Bijection(X, 0..(m - 1))
  <2>1. low \in [X -> 0..(m - 1)]
    BY <1>2
  <2>2. \A x, y \in X : low[x] = low[y] => x = y
    BY <1>2, <1>3
  <2>3. \A i \in 0..(m - 1) : \E x \in X : low[x] = i
    <3> TAKE i \in 0..(m - 1)
    <3>1. i \in 0..(n - 1)
      BY <1>1
    <3> QED BY <1>5, <3>1
  <2> QED BY <2>1, <2>2, <2>3 DEF Bijection, Injection, Surjection, IsInjective
<1>7. Cardinality(0..(m - 1)) = m
  BY FS_Interval
<1>8. IsFiniteSet(X)
  BY FS_Subset
<1>9. Cardinality(X) = m
  BY <1>6, <1>7, <1>8, FS_Bijection DEF ExistsBijection
<1> QED BY <1>9 DEF rank
=============================================================================
