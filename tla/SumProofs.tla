----------------------------- MODULE SumProofs -----------------------------
(***************************************************************************)
(* What SumFunctionOnSet of the community modules computes over a finite   *)
(* set, for functions with values in Nat.  It folds by a function that is  *)
(* defined recursively on the subsets and takes elements in an order of    *)
(* its own; that the function exists, and that the order does not matter,  *)
(* is proved by way of a smallest subset where it would not be so, as is   *)
(* what passes from a number to the next.                                  *)
(***************************************************************************)
EXTENDS Integers, Functions, FiniteSetTheorems, TLAPS

Any(s) == CHOOSE x \in s : TRUE

Adds(g, f, D) ==
    g = [s \in SUBSET D |-> IF s = {} THEN 0 ELSE f[Any(s)] + g[s \ {Any(s)}]]

Adder(f, D) == CHOOSE g : Adds(g, f, D)

Total(f, D) == SumFunctionOnSet(f, D)

LEMMA TotalByAdder == \A f, D : Total(f, D) = Adder(f, D)[D]
  BY DEF Total, SumFunctionOnSet, FoldFunctionOnSet, MapThenFoldSet, Adder, Adds, Any

(* A family of subsets of a finite set has a smallest member.              *)
LEMMA SmallestMember ==
    ASSUME NEW D, IsFiniteSet(D), NEW F, F \subseteq SUBSET D, F # {}
    PROVE  \E t \in F : \A u \in F : u \subseteq t => u = t
  <1> DEFINE R == StrictSubsetOrdering(D)
  <1>1. IsWellFoundedOn(R, SUBSET D)
    BY FS_StrictSubsetOrderingWellFounded, FS_FiniteSubsetsOfFinite
  <1>2. PICK t \in F : \A u \in F : ~ (<<u, t>> \in R)
    <2> HIDE DEF R
    <2> QED
      BY <1>1, WFMin
  <1> QED
    BY <1>2 DEF StrictSubsetOrdering

(* What holds at the first and passes to the next holds up to the last.    *)
LEMMA Upwards ==
    ASSUME NEW a \in Int, NEW b \in Int, NEW S, a \in S,
           \A m \in a..(b - 1) : m \in S => m + 1 \in S
    PROVE  a..b \subseteq S
  <1> DEFINE F == {t \in SUBSET (a..b) : \E m \in a..b : t = a..m /\ m \notin S}
  <1>1. SUFFICES ASSUME NEW n \in a..b, n \notin S PROVE FALSE
    OBVIOUS
  <1>2. a..n \in F
    BY <1>1
  <1>3. PICK t \in F : \A u \in F : u \subseteq t => u = t
    <2>1. PICK D : D = a..b
      OBVIOUS
    <2>2. IsFiniteSet(D) /\ F \subseteq SUBSET D
      BY <2>1, FS_Interval
    <2> HIDE DEF F
    <2> QED
      BY <1>2, <2>2, SmallestMember
  <1>4. PICK m \in a..b : t = a..m /\ m \notin S
    BY <1>3
  <1>5. m # a /\ m - 1 \in a..(b - 1) /\ m - 1 \in a..b
    BY <1>4
  <1>6. a..(m - 1) \in F
    BY <1>4, <1>5
  <1>7. a..(m - 1) \subseteq t /\ m \in t /\ m \notin a..(m - 1)
    BY <1>4, <1>5
  <1> QED
    BY <1>3, <1>6, <1>7

LEMMA AddsAt ==
    ASSUME NEW g, NEW f, NEW D, Adds(g, f, D), NEW s \in SUBSET D
    PROVE  g[s] = IF s = {} THEN 0 ELSE f[Any(s)] + g[s \ {Any(s)}]
  BY DEF Adds

LEMMA AnyIn == \A s : s # {} => Any(s) \in s
  BY DEF Any

(* Two functions that add up agree.                                        *)
LEMMA AddsAgree ==
    ASSUME NEW D, IsFiniteSet(D), NEW E \in SUBSET D, NEW f, NEW g, NEW h,
           Adds(g, f, D), Adds(h, f, E)
    PROVE  \A s \in SUBSET E : g[s] = h[s]
  <1> DEFINE F == {s \in SUBSET E : g[s] # h[s]}
  <1>1. SUFFICES ASSUME F # {} PROVE FALSE
    OBVIOUS
  <1>2. IsFiniteSet(E)
    BY FS_Subset
  <1>3. PICK t \in F : \A u \in F : u \subseteq t => u = t
    <2> HIDE DEF F
    <2>1. F \subseteq SUBSET E
      BY DEF F
    <2> QED
      BY <1>1, <1>2, <2>1, SmallestMember
  <1>4. t \in SUBSET E /\ t \in SUBSET D
    OBVIOUS
  <1>5. t # {}
    BY <1>3, <1>4, AddsAt
  <1> DEFINE rest == t \ {Any(t)}
  <1>6. rest \subseteq t /\ rest # t /\ rest \in SUBSET E
    BY <1>4, <1>5, AnyIn
  <1>7. g[rest] = h[rest]
    BY <1>3, <1>6
  <1> QED
    BY <1>3, <1>4, <1>5, <1>7, AddsAt

LEMMA AdderAdds ==
    ASSUME NEW D, IsFiniteSet(D), NEW f
    PROVE  Adds(Adder(f, D), f, D)
  <1> DEFINE F == {s \in SUBSET D : ~ Adds(Adder(f, s), f, s)}
  <1>1. SUFFICES ASSUME F # {} PROVE FALSE
    OBVIOUS
  <1>2. PICK t \in F : \A u \in F : u \subseteq t => u = t
    <2> HIDE DEF F
    <2>1. F \subseteq SUBSET D
      BY DEF F
    <2> QED
      BY <1>1, <2>1, SmallestMember
  <1>3. \A u \in SUBSET t : u # t => Adds(Adder(f, u), f, u)
    BY <1>2
  <1>4. IsFiniteSet(t) /\ \A u \in SUBSET t : IsFiniteSet(u)
    BY FS_Subset
  <1> DEFINE at(u) == Adder(f, u)[u]
             g == [s \in SUBSET t |-> IF s = {} THEN 0 ELSE f[Any(s)] + at(s \ {Any(s)})]
  <1> HIDE DEF F
  <1>5. ASSUME NEW s \in SUBSET t, s # {} PROVE g[s \ {Any(s)}] = at(s \ {Any(s)})
    <2> DEFINE u == s \ {Any(s)}
               v == u \ {Any(u)}
    <2>1. u \in SUBSET t /\ u # t
      BY <1>5, AnyIn
    <2>2. Adds(Adder(f, u), f, u)
      BY <1>3, <2>1
    <2>3. CASE u = {}
      <3>1. g[u] = 0
        BY <2>1, <2>3
      <3>2. at(u) = 0
        BY <2>2, <2>3, AddsAt
      <3> QED
        BY <3>1, <3>2
    <2>4. CASE u # {}
      <3>1. v \in SUBSET u /\ v \in SUBSET t /\ v # t
        BY <2>1
      <3>2. Adds(Adder(f, v), f, v)
        BY <1>3, <3>1
      <3>3. IsFiniteSet(u)
        BY <1>4, <2>1
      <3>4. at(u) = f[Any(u)] + Adder(f, u)[v]
        <4> HIDE DEF u, v
        <4>1. u \in SUBSET u
          OBVIOUS
        <4> QED
          BY <2>2, <2>4, <4>1, AddsAt DEF v
      <3>5. Adder(f, u)[v] = at(v)
        <4> HIDE DEF u, v
        <4> QED
          BY <2>2, <3>1, <3>2, <3>3, AddsAgree
      <3>6. g[u] = f[Any(u)] + at(v)
        BY <2>1, <2>4
      <3> QED
        BY <3>4, <3>5, <3>6
    <2> QED
      BY <2>3, <2>4
  <1>6. Adds(g, f, t)
    <2>1. \A s \in SUBSET t :
            g[s] = IF s = {} THEN 0 ELSE f[Any(s)] + g[s \ {Any(s)}]
      BY <1>5
    <2>2. g = [s \in SUBSET t |-> g[s]]
      OBVIOUS
    <2> HIDE DEF g, at
    <2> QED
      BY <2>1, <2>2 DEF Adds
  <1> HIDE DEF g, at
  <1>7. Adds(Adder(f, t), f, t)
    BY <1>6 DEF Adder
  <1> QED
    BY <1>7 DEF F

-----------------------------------------------------------------------------
(* The laws of sums.                                                       *)
LEMMA TotalNone == \A f : Total(f, {}) = 0
  <1>1. IsFiniteSet({})
    BY FS_EmptySet
  <1> QED
    BY <1>1, AdderAdds, AddsAt, TotalByAdder

LEMMA TotalTakes ==
    ASSUME NEW D, IsFiniteSet(D), D # {}, NEW f
    PROVE  /\ Any(D) \in D
           /\ Total(f, D) = f[Any(D)] + Total(f, D \ {Any(D)})
  <1> DEFINE E == D \ {Any(D)}
  <1>1. E \in SUBSET D /\ IsFiniteSet(E) /\ D \in SUBSET D
    BY FS_Subset
  <1> HIDE DEF E
  <1>2. Adds(Adder(f, D), f, D) /\ Adds(Adder(f, E), f, E)
    BY <1>1, AdderAdds
  <1>3. Adder(f, D)[E] = Adder(f, E)[E]
    BY <1>1, <1>2, AddsAgree
  <1>4. Adder(f, D)[D] = f[Any(D)] + Adder(f, D)[E]
    BY <1>1, <1>2, AddsAt DEF E
  <1> QED
    BY <1>3, <1>4, AnyIn, TotalByAdder DEF E

LEMMA TotalNat ==
    ASSUME NEW D, IsFiniteSet(D), NEW f, \A x \in D : f[x] \in Nat
    PROVE  Total(f, D) \in Nat
  <1> DEFINE F == {s \in SUBSET D : Total(f, s) \notin Nat}
  <1>1. SUFFICES ASSUME F # {} PROVE FALSE
    OBVIOUS
  <1>2. PICK t \in F : \A u \in F : u \subseteq t => u = t
    <2> HIDE DEF F
    <2>1. F \subseteq SUBSET D
      BY DEF F
    <2> QED
      BY <1>1, <2>1, SmallestMember
  <1>3. t # {}
    BY TotalNone
  <1>4. IsFiniteSet(t)
    BY FS_Subset
  <1>5. PICK x \in t : Total(f, t) = f[x] + Total(f, t \ {x})
    BY <1>3, <1>4, TotalTakes
  <1>6. Total(f, t \ {x}) \in Nat
    BY <1>2
  <1> QED
    BY <1>5, <1>6

LEMMA TotalSplit ==
    ASSUME NEW D, IsFiniteSet(D), NEW f, \A x \in D : f[x] \in Nat, NEW y \in D
    PROVE  Total(f, D) = f[y] + Total(f, D \ {y})
  <1> DEFINE F == {s \in SUBSET D : \E x \in s : Total(f, s) # f[x] + Total(f, s \ {x})}
  <1>1. SUFFICES ASSUME F # {} PROVE FALSE
    OBVIOUS
  <1>2. PICK t \in F : \A u \in F : u \subseteq t => u = t
    <2> HIDE DEF F
    <2>1. F \subseteq SUBSET D
      BY DEF F
    <2> QED
      BY <1>1, <2>1, SmallestMember
  <1>3. PICK x \in t : Total(f, t) # f[x] + Total(f, t \ {x})
    OBVIOUS
  <1>4. \A u \in SUBSET D : IsFiniteSet(u) /\ Total(f, u) \in Nat
    BY FS_Subset, TotalNat
  <1>5. PICK a \in t : Total(f, t) = f[a] + Total(f, t \ {a})
    BY <1>4, TotalTakes
  <1>6. a # x
    BY <1>3, <1>5
  <1> DEFINE u == t \ {a}  v == t \ {x}  w == (t \ {a}) \ {x}
  <1>7. /\ u \subseteq t /\ u # t /\ u \in SUBSET D /\ x \in u
        /\ v \subseteq t /\ v # t /\ v \in SUBSET D /\ a \in v
        /\ w \in SUBSET D /\ u \ {x} = w /\ v \ {a} = w
    BY <1>6
  <1>8. Total(f, u) = f[x] + Total(f, w) /\ Total(f, v) = f[a] + Total(f, w)
    <2>1. u \notin F /\ v \notin F
      BY <1>2, <1>7
    <2> QED
      BY <1>7, <2>1
  <1>9. f[a] \in Nat /\ f[x] \in Nat /\ Total(f, w) \in Nat
    BY <1>4, <1>7
  <1> QED
    BY <1>3, <1>5, <1>8, <1>9

(* Only the values on the set count, and a sum is monotone in them.        *)
LEMMA TotalMonotone ==
    ASSUME NEW D, IsFiniteSet(D), NEW f, NEW h,
           \A x \in D : f[x] \in Nat /\ h[x] \in Nat /\ f[x] <= h[x]
    PROVE  Total(f, D) <= Total(h, D)
  <1> DEFINE F == {s \in SUBSET D : ~ (Total(f, s) <= Total(h, s))}
  <1>1. SUFFICES ASSUME F # {} PROVE FALSE
    OBVIOUS
  <1>2. PICK t \in F : \A u \in F : u \subseteq t => u = t
    <2> HIDE DEF F
    <2>1. F \subseteq SUBSET D
      BY DEF F
    <2> QED
      BY <1>1, <2>1, SmallestMember
  <1>3. t # {}
    BY TotalNone
  <1>4. \A u \in SUBSET D : IsFiniteSet(u) /\ Total(f, u) \in Nat /\ Total(h, u) \in Nat
    BY FS_Subset, TotalNat
  <1>5. PICK x \in t : TRUE
    BY <1>3
  <1>6. /\ Total(f, t) = f[x] + Total(f, t \ {x})
        /\ Total(h, t) = h[x] + Total(h, t \ {x})
    BY <1>4, TotalSplit
  <1>7. Total(f, t \ {x}) <= Total(h, t \ {x})
    BY <1>2
  <1>8. f[x] \in Nat /\ h[x] \in Nat /\ f[x] <= h[x]
        /\ Total(f, t \ {x}) \in Nat /\ Total(h, t \ {x}) \in Nat
    BY <1>4
  <1>9. Total(f, t) <= Total(h, t)
    BY <1>6, <1>7, <1>8
  <1> QED
    BY <1>9

LEMMA TotalSame ==
    ASSUME NEW D, IsFiniteSet(D), NEW f, NEW h,
           \A x \in D : f[x] \in Nat /\ h[x] = f[x]
    PROVE  Total(f, D) = Total(h, D)
  <1>1. Total(f, D) <= Total(h, D) /\ Total(h, D) <= Total(f, D)
    BY TotalMonotone
  <1>2. Total(f, D) \in Nat /\ Total(h, D) \in Nat
    BY TotalNat
  <1> QED
    BY <1>1, <1>2

LEMMA TotalPlus ==
    ASSUME NEW D, IsFiniteSet(D), NEW f, NEW g, NEW h,
           \A x \in D : f[x] \in Nat /\ g[x] \in Nat /\ h[x] = f[x] + g[x]
    PROVE  Total(h, D) = Total(f, D) + Total(g, D)
  <1> DEFINE F == {s \in SUBSET D : Total(h, s) # Total(f, s) + Total(g, s)}
  <1>1. SUFFICES ASSUME F # {} PROVE FALSE
    OBVIOUS
  <1>2. PICK t \in F : \A u \in F : u \subseteq t => u = t
    <2> HIDE DEF F
    <2>1. F \subseteq SUBSET D
      BY DEF F
    <2> QED
      BY <1>1, <2>1, SmallestMember
  <1>3. t # {}
    <2>1. Total(f, {}) = 0 /\ Total(g, {}) = 0 /\ Total(h, {}) = 0
      BY TotalNone
    <2>2. Total(h, {}) = Total(f, {}) + Total(g, {})
      BY <2>1
    <2> QED
      BY <2>2
  <1>a. \A x \in D : h[x] \in Nat
    OBVIOUS
  <1>4. \A u \in SUBSET D : IsFiniteSet(u) /\ Total(f, u) \in Nat /\ Total(g, u) \in Nat
    BY FS_Subset, TotalNat
  <1>5. PICK x \in t : TRUE
    BY <1>3
  <1>6. /\ Total(f, t) = f[x] + Total(f, t \ {x})
        /\ Total(g, t) = g[x] + Total(g, t \ {x})
        /\ Total(h, t) = h[x] + Total(h, t \ {x})
    BY <1>4, <1>a, TotalSplit
  <1>7. Total(h, t \ {x}) = Total(f, t \ {x}) + Total(g, t \ {x})
    BY <1>2
  <1>8. f[x] \in Nat /\ g[x] \in Nat /\ h[x] = f[x] + g[x]
        /\ Total(f, t \ {x}) \in Nat /\ Total(g, t \ {x}) \in Nat
    BY <1>4
  <1>9. Total(h, t) = Total(f, t) + Total(g, t)
    BY <1>6, <1>7, <1>8
  <1> QED
    BY <1>9

(* A part adds up to no more than the whole.                               *)
LEMMA TotalPart ==
    ASSUME NEW D, IsFiniteSet(D), NEW f, \A x \in D : f[x] \in Nat, NEW E \in SUBSET D
    PROVE  Total(f, E) <= Total(f, D)
  <1> DEFINE F == {s \in SUBSET D : E \subseteq s /\ ~ (Total(f, E) <= Total(f, s))}
  <1>1. SUFFICES ASSUME F # {} PROVE FALSE
    <2>1. D \in SUBSET D /\ D \notin F
      BY <1>1
    <2> QED
      BY <2>1
  <1>2. PICK t \in F : \A u \in F : u \subseteq t => u = t
    <2> HIDE DEF F
    <2>1. F \subseteq SUBSET D
      BY DEF F
    <2> QED
      BY <1>1, <2>1, SmallestMember
  <1>3. \A u \in SUBSET D : IsFiniteSet(u) /\ Total(f, u) \in Nat
    BY FS_Subset, TotalNat
  <1>4. t # E
    BY <1>3
  <1>5. PICK x \in t : x \notin E
    BY <1>4
  <1>6. Total(f, t) = f[x] + Total(f, t \ {x})
    BY <1>3, TotalSplit
  <1>7. Total(f, E) <= Total(f, t \ {x})
    BY <1>2, <1>5
  <1>8. f[x] \in Nat /\ Total(f, t \ {x}) \in Nat /\ Total(f, E) \in Nat
    BY <1>3
  <1>9. Total(f, E) <= Total(f, t)
    BY <1>6, <1>7, <1>8
  <1> QED
    BY <1>9

(* What is zero does not count.                                            *)
LEMMA TotalWithoutZeros ==
    ASSUME NEW D, IsFiniteSet(D), NEW f, \A x \in D : f[x] \in Nat, NEW E \in SUBSET D,
           \A x \in D \ E : f[x] = 0
    PROVE  Total(f, D) = Total(f, E)
  <1> DEFINE F == {s \in SUBSET D : E \subseteq s /\ Total(f, s) # Total(f, E)}
  <1>1. SUFFICES ASSUME F # {} PROVE FALSE
    <2>1. D \in SUBSET D /\ D \notin F
      BY <1>1
    <2> QED
      BY <2>1
  <1>2. PICK t \in F : \A u \in F : u \subseteq t => u = t
    <2> HIDE DEF F
    <2>1. F \subseteq SUBSET D
      BY DEF F
    <2> QED
      BY <1>1, <2>1, SmallestMember
  <1>3. \A u \in SUBSET D : IsFiniteSet(u) /\ Total(f, u) \in Nat
    BY FS_Subset, TotalNat
  <1>4. t # E
    OBVIOUS
  <1>5. PICK x \in t : x \notin E
    BY <1>4
  <1>6. Total(f, t) = f[x] + Total(f, t \ {x})
    BY <1>3, TotalSplit
  <1>7. Total(f, E) = Total(f, t \ {x})
    BY <1>2, <1>5
  <1>8. f[x] = 0 /\ Total(f, t \ {x}) \in Nat
    BY <1>3, <1>5
  <1> QED
    BY <1>6, <1>7, <1>8

(* A sum over keys bounds one over the owners of some of them.             *)
LEMMA TotalInto ==
    ASSUME NEW P, IsFiniteSet(P), NEW D, IsFiniteSet(D), NEW f, NEW h, NEW key,
           \A p \in P : key[p] \in D /\ f[p] \in Nat /\ f[p] <= h[key[p]],
           \A p, o \in P : key[p] = key[o] => p = o,
           \A x \in D : h[x] \in Nat
    PROVE  Total(f, P) <= Total(h, D)
  <1> DEFINE Images(s) == {key[p] : p \in s}
             F == {s \in SUBSET P : ~ (Total(f, s) <= Total(h, Images(s)))}
  <1>a. \A s \in SUBSET P : Images(s) \in SUBSET D
    OBVIOUS
  <1>b. \A s \in SUBSET P : \A p \in s :
          key[p] \in Images(s) /\ Images(s \ {p}) = Images(s) \ {key[p]}
    OBVIOUS
  <1>c. Images({}) = {}
    OBVIOUS
  <1> HIDE DEF Images
  <1>4. \A u \in SUBSET P : IsFiniteSet(u) /\ Total(f, u) \in Nat
    BY FS_Subset, TotalNat
  <1>5. \A u \in SUBSET D : IsFiniteSet(u) /\ Total(h, u) \in Nat
    BY FS_Subset, TotalNat
  <1>6. F = {}
    <2>1. SUFFICES ASSUME F # {} PROVE FALSE
      OBVIOUS
    <2>2. PICK t \in F : \A u \in F : u \subseteq t => u = t
      <3> HIDE DEF F
      <3>1. F \subseteq SUBSET P
        BY DEF F
      <3> QED
        BY <2>1, <3>1, SmallestMember
    <2>3. t # {}
      BY TotalNone, <1>c
    <2>4. PICK p \in t : TRUE
      BY <2>3
    <2> DEFINE I == Images(t)  x == key[p]
    <2>5. Total(f, t) = f[p] + Total(f, t \ {p})
      BY <1>4, TotalSplit
    <2>6. x \in I /\ Images(t \ {p}) = I \ {x} /\ I \in SUBSET D /\ I \ {x} \in SUBSET D
      BY <1>a, <1>b
    <2>7. Total(h, I) = h[x] + Total(h, I \ {x})
      <3> HIDE DEF I, x
      <3> QED
        BY <1>5, <2>6, TotalSplit
    <2>8. Total(f, t \ {p}) <= Total(h, I \ {x})
      BY <2>2, <2>6
    <2>9. f[p] \in Nat /\ h[x] \in Nat /\ f[p] <= h[x]
          /\ Total(f, t \ {p}) \in Nat /\ Total(h, I \ {x}) \in Nat
      <3>1. p \in P /\ t \ {p} \in SUBSET P /\ x \in D
        OBVIOUS
      <3> HIDE DEF I
      <3> QED
        BY <1>4, <1>5, <2>6, <3>1
    <2>10. Total(f, t) <= Total(h, I)
      <3> HIDE DEF I, x
      <3> QED
        BY <2>5, <2>7, <2>8, <2>9
    <2> QED
      BY <2>10
  <1>7. Total(f, P) <= Total(h, Images(P))
    BY <1>6
  <1>9. Images(P) \in SUBSET D
    BY <1>a
  <1>10. Total(h, Images(P)) <= Total(h, D)
    BY <1>9, TotalPart
  <1>11. Total(f, P) \in Nat /\ Total(h, Images(P)) \in Nat /\ Total(h, D) \in Nat
    BY <1>4, <1>5, <1>9
  <1> QED
    BY <1>7, <1>10, <1>11
=============================================================================
