---------------------------- MODULE SumTheorems ----------------------------
(***************************************************************************)
(* What SumFunctionOnSet of module Functions adds up, over any finite set: *)
(* the balances of all users, the rows of all escrows, the mails of all    *)
(* recipients.                                                             *)
(*                                                                         *)
(* SumFunctionOnSet takes one element of the set after another, by a       *)
(* recursive function over the subsets.  That such a function exists and   *)
(* what it computes is proved by minimal counterexample: FiniteFamily is   *)
(* induction on finite sets, stated for a family of sets instead of a      *)
(* predicate.                                                              *)
(***************************************************************************)
EXTENDS Functions, FiniteSets, FiniteSetTheorems, WellFoundedInduction, TLAPS

LEMMA LessWellFounded ==
  IsWellFoundedOn({p \in Nat \X Nat : p[1] < p[2]}, Nat)
<1>1. {p \in Nat \X Nat : p[1] < p[2]} = OpToRel(<, Nat)
  BY Zenon DEF OpToRel
<1> QED  BY <1>1, NatLessThanWellFounded, Zenon

(* A set of numbers that is not empty has a least element.                 *)
LEMMA LeastNumber ==
  ASSUME NEW T \in SUBSET Nat, T # {}
  PROVE  \E x \in T : \A y \in T : x <= y
<1> DEFINE R == {p \in Nat \X Nat : p[1] < p[2]}
<1>1. \E x \in T : \A y \in T : <<y, x>> \notin R
  BY LessWellFounded, WFMin, Zenon
<1>2. ASSUME NEW x \in Nat, NEW y \in Nat, y < x PROVE <<y, x>> \in R
  BY <1>2
<1> HIDE DEF R
<1>3. PICK x \in T : \A y \in T : <<y, x>> \notin R  BY <1>1
<1>4. ASSUME NEW y \in T PROVE x <= y
  <2>1. ~(y < x)  BY <1>2, <1>3, Zenon
  <2> QED  BY <2>1
<1> QED  BY <1>4

(* Induction on the finite sets: a family that has every set all of whose  *)
(* smaller neighbours it has, has all subsets of a finite set.             *)
LEMMA FiniteFamily ==
  ASSUME NEW S, IsFiniteSet(S), NEW F,
         \A T \in SUBSET S : (\A x \in T : T \ {x} \in F) => T \in F
  PROVE  \A T \in SUBSET S : T \in F
<1> SUFFICES ASSUME NEW T0 \in SUBSET S, T0 \notin F PROVE FALSE
  OBVIOUS
<1> DEFINE Sizes == {Cardinality(T) : T \in {U \in SUBSET S : U \notin F}}
<1>1. \A T \in SUBSET S : IsFiniteSet(T) /\ Cardinality(T) \in Nat
  BY FS_Subset, FS_CardinalityType
<1>2. Sizes \in SUBSET Nat /\ Sizes # {}  BY <1>1
<1>3. PICK n \in Sizes : \A m \in Sizes : n <= m  BY <1>2, LeastNumber
<1>4. PICK T \in SUBSET S : T \notin F /\ Cardinality(T) = n  BY <1>3
<1>5. ASSUME NEW x \in T PROVE T \ {x} \in F
  <2>1. Cardinality(T \ {x}) = n - 1  BY <1>1, <1>4, FS_RemoveElement
  <2>2. T \ {x} \notin F => Cardinality(T \ {x}) \in Sizes  BY <1>4
  <2> HIDE DEF Sizes
  <2> QED  BY <1>2, <1>3, <2>1, <2>2
<1> QED  BY <1>4, <1>5
-----------------------------------------------------------------------------
(* The function that SumFunctionOnSet recurses with.                       *)
Pick(T) == CHOOSE x \in T : TRUE

AddsUp(g, f, S) ==
  \A T \in SUBSET S : g[T] = IF T = {} THEN 0 ELSE f[Pick(T)] + g[T \ {Pick(T)}]

LEMMA Picked == ASSUME NEW T, T # {} PROVE Pick(T) \in T
BY DEF Pick

LEMMA AddsUpAt ==
  ASSUME NEW S, NEW f, NEW g, AddsUp(g, f, S), NEW T \in SUBSET S
  PROVE  /\ T = {} => g[T] = 0
         /\ T # {} => /\ Pick(T) \in T
                      /\ g[T] = f[Pick(T)] + g[T \ {Pick(T)}]
BY Picked DEF AddsUp

LEMMA AddsUpOnce ==
  ASSUME NEW S, IsFiniteSet(S), NEW f, NEW g, NEW h,
         AddsUp(g, f, S), AddsUp(h, f, S)
  PROVE  \A T \in SUBSET S : g[T] = h[T]
<1> DEFINE F == {T \in SUBSET S : g[T] = h[T]}
<1>1. ASSUME NEW T \in SUBSET S, \A x \in T : T \ {x} \in F
      PROVE  T \in F
  <2>1. CASE T = {}  BY <2>1 DEF AddsUp
  <2>2. CASE T # {}
    <3>1. Pick(T) \in T  BY <2>2, Picked
    <3>2. g[T \ {Pick(T)}] = h[T \ {Pick(T)}]  BY <1>1, <3>1
    <3> QED  BY <2>2, <3>2 DEF AddsUp
  <2> QED  BY <2>1, <2>2
<1> HIDE DEF F
<1>2. \A T \in SUBSET S : T \in F  BY <1>1, FiniteFamily
<1> QED  BY <1>2 DEF F

LEMMA AddsUpExists ==
  ASSUME NEW S, IsFiniteSet(S), NEW f
  PROVE  \E g : AddsUp(g, f, S)
<1> DEFINE F == {T \in SUBSET S : \E g : AddsUp(g, f, T)}
<1>1. ASSUME NEW T \in SUBSET S, \A x \in T : T \ {x} \in F
      PROVE  T \in F
  <2> DEFINE without(x) == CHOOSE g : AddsUp(g, f, T \ {x})
             missing(U) == CHOOSE x \in T : x \notin U
             whole == f[Pick(T)] + without(Pick(T))[T \ {Pick(T)}]
             g == [U \in SUBSET T |->
                     IF U = {} THEN 0
                     ELSE IF U = T THEN whole ELSE without(missing(U))[U]]
  <2>1. \A x \in T : AddsUp(without(x), f, T \ {x})
    BY <1>1
  <2>2. \A U \in SUBSET T : U # T => missing(U) \in T /\ missing(U) \notin U
    OBVIOUS
  <2>3. ASSUME NEW x \in T, NEW y \in T, NEW U \in SUBSET (T \ {x, y})
        PROVE  without(x)[U] = without(y)[U]
    <3>1. IsFiniteSet(T \ {x, y})  BY FS_Subset
    <3>2. /\ AddsUp(without(x), f, T \ {x, y})
          /\ AddsUp(without(y), f, T \ {x, y})
      <4> HIDE DEF without
      <4> QED  BY <2>1 DEF AddsUp
    <3> HIDE DEF without
    <3> QED  BY <3>1, <3>2, AddsUpOnce
  <2>4. ASSUME NEW U \in SUBSET T, U # {}
        PROVE  g[U] = f[Pick(U)] + g[U \ {Pick(U)}]
    <3> DEFINE V == U \ {Pick(U)}
    <3>1. Pick(U) \in U /\ V \in SUBSET T /\ V # T  BY <2>4, Picked
    <3>2. CASE U = T
      <4>1. missing(V) = Pick(T)  BY <2>2, <3>1, <3>2
      <4>2. V = {} => without(Pick(T))[V] = 0
        <5> HIDE DEF without
        <5> QED  BY <2>1, <3>1, <3>2 DEF AddsUp
      <4>3. g[V] = without(Pick(T))[V]
        <5> HIDE DEF without, missing
        <5> QED  BY <3>1, <4>1, <4>2
      <4> QED  BY <2>4, <3>2, <4>3
    <3>3. CASE U # T
      <4> DEFINE x == missing(U)
                 y == missing(V)
      <4>1. x \in T /\ x \notin U /\ y \in T /\ y \notin V
        BY <2>2, <3>1, <3>3
      <4>2. g[U] = without(x)[U]  BY <2>4, <3>3
      <4>3. without(x)[U] = f[Pick(U)] + without(x)[V]
        <5> HIDE DEF without, x
        <5> QED  BY <2>1, <2>4, <4>1 DEF AddsUp
      <4>4. without(x)[V] = without(y)[V]
        <5> HIDE DEF without, x, y
        <5> QED  BY <2>3, <4>1
      <4>5. V = {} => without(x)[V] = 0
        <5> HIDE DEF without, x
        <5> QED  BY <2>1, <4>1 DEF AddsUp
      <4>6. g[V] = without(x)[V]
        <5> HIDE DEF without, x
        <5> QED  BY <3>1, <4>4, <4>5
      <4> QED  BY <4>2, <4>3, <4>6
    <3> QED  BY <3>2, <3>3
  <2>5. g[{}] = 0  OBVIOUS
  <2> HIDE DEF g
  <2>6. AddsUp(g, f, T)  BY <2>4, <2>5 DEF AddsUp
  <2> QED  BY <2>6
<1> HIDE DEF F
<1>2. S \in F  BY <1>1, FiniteFamily, ZenonT(40)
<1> QED  BY <1>2 DEF F

(* SumFunctionOnSet does add up.                                           *)
LEMMA SumAddsUp ==
  ASSUME NEW S, IsFiniteSet(S), NEW f
  PROVE  \E g : AddsUp(g, f, S) /\ SumFunctionOnSet(f, S) = g[S]
<1> DEFINE Recurses(iter) ==
             iter = [s \in SUBSET S |->
                       IF s = {} THEN 0
                       ELSE f[CHOOSE x \in s : TRUE]
                              + iter[s \ {CHOOSE x \in s : TRUE}]]
           i == CHOOSE iter : Recurses(iter)
<1>1. PICK g : AddsUp(g, f, S)  BY AddsUpExists
<1>2. Recurses([s \in SUBSET S |-> g[s]])
  <2> DEFINE h == [s \in SUBSET S |-> g[s]]
  <2>1. ASSUME NEW s \in SUBSET S
        PROVE  h[s] = IF s = {} THEN 0
                      ELSE f[CHOOSE x \in s : TRUE]
                             + h[s \ {CHOOSE x \in s : TRUE}]
    BY <1>1 DEF AddsUp, Pick
  <2> QED  BY <2>1
<1>3. Recurses(i)  BY <1>2
<1>4. AddsUp(i, f, S)
  <2> HIDE DEF i
  <2>1. \A s \in SUBSET S :
          i[s] = IF s = {} THEN 0 ELSE f[Pick(s)] + i[s \ {Pick(s)}]
    BY <1>3 DEF Pick
  <2> QED  BY <2>1 DEF AddsUp
<1>5. SumFunctionOnSet(f, S) = i[S]
  BY Zenon DEF SumFunctionOnSet, FoldFunctionOnSet, MapThenFoldSet
<1> HIDE DEF i
<1> QED  BY <1>4, <1>5
-----------------------------------------------------------------------------
(* A sum of integers is an integer, of natural numbers a natural number.   *)
THEOREM SumInt ==
  ASSUME NEW S, IsFiniteSet(S), NEW f, \A x \in S : f[x] \in Int
  PROVE  SumFunctionOnSet(f, S) \in Int
<1>1. PICK g : AddsUp(g, f, S) /\ SumFunctionOnSet(f, S) = g[S]
  BY SumAddsUp
<1> DEFINE F == {T \in SUBSET S : g[T] \in Int}
<1>2. ASSUME NEW T \in SUBSET S, \A x \in T : T \ {x} \in F
      PROVE  T \in F
  <2>1. CASE T = {}
    <3>1. g[T] = 0  BY <1>1, <2>1, AddsUpAt
    <3> QED  BY <3>1
  <2>2. CASE T # {}
    <3> DEFINE R == T \ {Pick(T)}
    <3>1. Pick(T) \in T /\ g[T] = f[Pick(T)] + g[R]
      BY <1>1, <2>2, AddsUpAt
    <3>2. f[Pick(T)] \in Int /\ g[R] \in Int  BY <1>2, <3>1
    <3> HIDE DEF R
    <3>3. g[T] \in Int  BY <3>1, <3>2
    <3> QED  BY <3>3
  <2> QED  BY <2>1, <2>2
<1> HIDE DEF F
<1>3. \A T \in SUBSET S : T \in F  BY <1>2, FiniteFamily, Zenon
<1> QED  BY <1>1, <1>3 DEF F

THEOREM SumNat ==
  ASSUME NEW S, IsFiniteSet(S), NEW f, \A x \in S : f[x] \in Nat
  PROVE  SumFunctionOnSet(f, S) \in Nat
<1>1. PICK g : AddsUp(g, f, S) /\ SumFunctionOnSet(f, S) = g[S]
  BY SumAddsUp
<1> DEFINE F == {T \in SUBSET S : g[T] \in Nat}
<1>2. ASSUME NEW T \in SUBSET S, \A x \in T : T \ {x} \in F
      PROVE  T \in F
  <2>1. CASE T = {}
    <3>1. g[T] = 0  BY <1>1, <2>1, AddsUpAt
    <3> QED  BY <3>1
  <2>2. CASE T # {}
    <3> DEFINE R == T \ {Pick(T)}
    <3>1. Pick(T) \in T /\ g[T] = f[Pick(T)] + g[R]
      BY <1>1, <2>2, AddsUpAt
    <3>2. f[Pick(T)] \in Nat /\ g[R] \in Nat  BY <1>2, <3>1
    <3> HIDE DEF R
    <3>3. g[T] \in Nat  BY <3>1, <3>2
    <3> QED  BY <3>3
  <2> QED  BY <2>1, <2>2
<1> HIDE DEF F
<1>3. \A T \in SUBSET S : T \in F  BY <1>2, FiniteFamily, Zenon
<1> QED  BY <1>1, <1>3 DEF F

(* Where one value changes, the sum changes by as much.                    *)
LEMMA SumChange ==
  ASSUME NEW S, IsFiniteSet(S), NEW f, NEW h, NEW c \in S,
         \A x \in S : f[x] \in Int /\ h[x] \in Int,
         \A x \in S \ {c} : h[x] = f[x]
  PROVE  SumFunctionOnSet(h, S) = SumFunctionOnSet(f, S) + h[c] - f[c]
<1>1. PICK g : AddsUp(g, f, S) /\ SumFunctionOnSet(f, S) = g[S]
  BY SumAddsUp
<1>2. PICK k : AddsUp(k, h, S) /\ SumFunctionOnSet(h, S) = k[S]
  BY SumAddsUp
<1> DEFINE change(T) == IF c \in T THEN h[c] - f[c] ELSE 0
           F == {T \in SUBSET S : g[T] \in Int /\ k[T] = g[T] + change(T)}
<1>3. ASSUME NEW T \in SUBSET S, \A x \in T : T \ {x} \in F
      PROVE  T \in F
  <2>1. CASE T = {}
    <3>1. g[T] = 0 /\ k[T] = 0  BY <1>1, <1>2, <2>1, AddsUpAt, ZenonT(40)
    <3> QED  BY <2>1, <3>1
  <2>2. CASE T # {}
    <3> DEFINE p == Pick(T)
               R == T \ {p}
    <3>1. p \in T /\ f[p] \in Int /\ h[p] \in Int /\ f[c] \in Int /\ h[c] \in Int
      BY <2>2, Picked
    <3>2. g[R] \in Int /\ k[R] = g[R] + change(R)  BY <1>3, <3>1
    <3>3. g[T] = f[p] + g[R] /\ k[T] = h[p] + k[R]
      BY <1>1, <1>2, <2>2, AddsUpAt
    <3>4. CASE p = c
      <4>1. change(T) = h[p] - f[p] /\ change(R) = 0  BY <3>1, <3>4
      <4> HIDE DEF change, p, R
      <4> QED  BY <3>1, <3>2, <3>3, <4>1
    <3>5. CASE p # c
      <4>1. h[p] = f[p] /\ change(T) = change(R)  BY <3>1, <3>5
      <4>2. change(R) \in Int  BY <3>1
      <4> HIDE DEF change, p, R
      <4> QED  BY <3>1, <3>2, <3>3, <4>1, <4>2
    <3> QED  BY <3>4, <3>5
  <2> QED  BY <2>1, <2>2
<1> HIDE DEF F
<1>4. \A T \in SUBSET S : T \in F  BY <1>3, FiniteFamily, Zenon
<1> QED  BY <1>1, <1>2, <1>4 DEF F

(* Where no value changes, neither does the sum.                           *)
THEOREM SumSame ==
  ASSUME NEW S, IsFiniteSet(S), NEW f, NEW h, \A x \in S : h[x] = f[x]
  PROVE  SumFunctionOnSet(h, S) = SumFunctionOnSet(f, S)
<1>1. PICK g : AddsUp(g, f, S) /\ SumFunctionOnSet(f, S) = g[S]
  BY SumAddsUp
<1>2. PICK k : AddsUp(k, h, S) /\ SumFunctionOnSet(h, S) = k[S]
  BY SumAddsUp
<1>3. AddsUp(k, f, S)
  <2> SUFFICES ASSUME NEW T \in SUBSET S
               PROVE  k[T] = IF T = {} THEN 0
                             ELSE f[Pick(T)] + k[T \ {Pick(T)}]
    BY DEF AddsUp
  <2>1. T # {} => h[Pick(T)] = f[Pick(T)]  BY Picked
  <2> QED  BY <1>2, <2>1 DEF AddsUp
<1>4. k[S] = g[S]  BY <1>1, <1>3, AddsUpOnce
<1> QED  BY <1>1, <1>2, <1>4

(* The sum of what is nothing everywhere.                                  *)
THEOREM SumZero ==
  ASSUME NEW S, IsFiniteSet(S), NEW f, \A x \in S : f[x] = 0
  PROVE  SumFunctionOnSet(f, S) = 0
<1>1. PICK g : AddsUp(g, f, S) /\ SumFunctionOnSet(f, S) = g[S]
  BY SumAddsUp
<1>2. AddsUp([T \in SUBSET S |-> 0], f, S)
  <2> DEFINE z == [T \in SUBSET S |-> 0]
  <2> SUFFICES ASSUME NEW T \in SUBSET S
               PROVE  z[T] = IF T = {} THEN 0
                             ELSE f[Pick(T)] + z[T \ {Pick(T)}]
    BY DEF AddsUp
  <2>1. T # {} => f[Pick(T)] = 0  BY Picked
  <2>2. z[T] = 0 /\ z[T \ {Pick(T)}] = 0  OBVIOUS
  <2> HIDE DEF z
  <2> QED  BY <2>1, <2>2
<1>3. g[S] = 0  BY <1>1, <1>2, AddsUpOnce
<1> QED  BY <1>1, <1>3
=============================================================================
