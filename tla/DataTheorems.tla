---------------------------- MODULE DataTheorems ----------------------------
(***************************************************************************)
(* What the models compute with data of any size: sums over finite sets    *)
(* (Sums), and what is kept of a sequence (Lists).                         *)
(*                                                                         *)
(* Each is a recursion.  The proofs go by induction on the size, as the    *)
(* least number of a set of naturals: a set of numbers without the         *)
(* property would have a least one.                                        *)
(***************************************************************************)
EXTENDS Integers, Sums, Lists, Functions, FiniteSets, FiniteSetTheorems, FunctionTheorems,
        WellFoundedInduction, TLAPS

LEMMA LeastNumber ==
  ASSUME NEW T, T \subseteq Nat, T # {}
  PROVE  \E x \in T : \A y \in T : x <= y
<1> DEFINE R == OpToRel(<, Nat)
<1>1. IsWellFoundedOn(R, Nat) BY NatLessThanWellFounded
<1>2. \A x, y \in Nat : <<y, x>> \in R <=> y < x BY DEF OpToRel
<1> HIDE DEF R
<1>3. PICK x \in T : \A y \in T : ~(<<y, x>> \in R) BY <1>1, WFMin
<1>4. \A y \in T : ~(y < x) BY <1>2, <1>3
<1>5. \A y \in T : x <= y BY <1>4
<1> QED BY <1>5

(* Induction over the natural numbers, for a set A of them. *)
LEMMA NumbersFromZero ==
  ASSUME NEW A, 0 \in A, \A n \in Nat : n \in A => n + 1 \in A
  PROVE  \A n \in Nat : n \in A
<1> DEFINE Others == {n \in Nat : n \notin A}
<1>1. ASSUME Others # {} PROVE FALSE
  <2>1. PICK n \in Others : \A m \in Others : n <= m BY <1>1, LeastNumber
  <2>2. n \in Nat /\ n \notin A /\ n # 0 OBVIOUS
  <2>3. n - 1 \in Nat /\ ~(n <= n - 1) /\ (n - 1) + 1 = n BY <2>2
  <2>4. n - 1 \in A BY <2>1, <2>3
  <2> QED BY <2>2, <2>3, <2>4
<1> QED BY <1>1

(* Induction over the subsets of a finite set, for a set A of them. *)
LEMMA SubsetsBySize ==
  ASSUME NEW S, IsFiniteSet(S), NEW A,
         \A T \in SUBSET S :
           (\A U \in SUBSET S : Cardinality(U) < Cardinality(T) => U \in A) => T \in A
  PROVE  \A T \in SUBSET S : T \in A
<1> DEFINE Sizes == {n \in Nat : \E T \in SUBSET S : T \notin A /\ n = Cardinality(T)}
<1>1. \A T \in SUBSET S : Cardinality(T) \in Nat BY FS_Subset, FS_CardinalityType
<1>2. ASSUME NEW T \in SUBSET S, T \notin A PROVE FALSE
  <2>1. Cardinality(T) \in Sizes BY <1>1, <1>2
  <2>2. PICK n \in Sizes : \A m \in Sizes : n <= m BY <2>1, LeastNumber
  <2>3. PICK U \in SUBSET S : U \notin A /\ n = Cardinality(U) OBVIOUS
  <2>4. ASSUME NEW V \in SUBSET S, Cardinality(V) < Cardinality(U) PROVE V \in A
    <3>1. n \in Nat /\ Cardinality(V) \in Nat /\ ~(n <= Cardinality(V)) BY <1>1, <2>3, <2>4
    <3>2. Cardinality(V) \notin Sizes BY <2>2, <3>1
    <3> QED BY <1>1, <3>2
  <2> QED BY <2>3, <2>4
<1> QED BY <1>2

-----------------------------------------------------------------------------
(* The recursion that defines a sum. *)

Picked(T) == CHOOSE x \in T : TRUE

StepOf(f, g, T) == IF T = {} THEN 0 ELSE f[Picked(T)] + g[T \ {Picked(T)}]

Solves(g, f, S) == \A T \in SUBSET S : g[T] = StepOf(f, g, T)

LEMMA WithoutPicked ==
  ASSUME NEW S, IsFiniteSet(S), NEW T \in SUBSET S, T # {}
  PROVE  /\ Picked(T) \in T /\ T \ {Picked(T)} \in SUBSET S
         /\ Cardinality(T) \in Nat \ {0} /\ Cardinality(T \ {Picked(T)}) = Cardinality(T) - 1
<1>1. IsFiniteSet(T) /\ Cardinality(T) \in Nat BY FS_Subset, FS_CardinalityType
<1>2. Picked(T) \in T BY DEF Picked
<1>3. Cardinality(T \ {Picked(T)}) = Cardinality(T) - 1 BY <1>1, <1>2, FS_RemoveElement
<1>4. Cardinality(T) # 0 BY <1>1, FS_EmptySet
<1> QED BY <1>1, <1>2, <1>3, <1>4

LEMMA OneSolution ==
  ASSUME NEW f, NEW S, IsFiniteSet(S), NEW g, Solves(g, f, S), NEW h, Solves(h, f, S)
  PROVE  \A T \in SUBSET S : g[T] = h[T]
<1> DEFINE A == {T \in SUBSET S : g[T] = h[T]}
<1>1. ASSUME NEW T \in SUBSET S,
             \A U \in SUBSET S : Cardinality(U) < Cardinality(T) => U \in A
      PROVE  T \in A
  <2>1. g[T] = StepOf(f, g, T) /\ h[T] = StepOf(f, h, T) BY DEF Solves
  <2>2. CASE T = {} BY <2>1, <2>2 DEF StepOf
  <2>3. CASE T # {}
    <3>1. /\ T \ {Picked(T)} \in SUBSET S
          /\ Cardinality(T) \in Nat /\ Cardinality(T \ {Picked(T)}) = Cardinality(T) - 1
      BY <2>3, WithoutPicked
    <3>2. Cardinality(T \ {Picked(T)}) < Cardinality(T) BY <3>1
    <3>3. g[T \ {Picked(T)}] = h[T \ {Picked(T)}] BY <1>1, <3>1, <3>2
    <3> QED BY <2>1, <2>3, <3>3 DEF StepOf
  <2> QED BY <2>2, <2>3
<1>2. \A T \in SUBSET S : T \in A
  <2> HIDE DEF A
  <2> QED BY <1>1, SubsetsBySize
<1> QED BY <1>2

(* g solves the recursion on the sets of n elements at most. *)
SolvesTo(g, f, S, n) == \A T \in SUBSET S : Cardinality(T) <= n => g[T] = StepOf(f, g, T)

LEMMA ASolution ==
  ASSUME NEW f, NEW S, IsFiniteSet(S)
  PROVE  \E g : g = [T \in SUBSET S |-> StepOf(f, g, T)]
<1> DEFINE Ok(n) == \E g : SolvesTo(g, f, S, n)
           A == {n \in Nat : Ok(n)}
<1>1. Ok(0)
  <2> DEFINE g == [T \in SUBSET S |-> 0]
  <2>1. ASSUME NEW T \in SUBSET S, Cardinality(T) <= 0 PROVE g[T] = StepOf(f, g, T)
    <3>1. T = {}
      <4>1. ASSUME T # {} PROVE Cardinality(T) \in Nat \ {0} BY <4>1, WithoutPicked
      <4> QED BY <2>1, <4>1
    <3> QED BY <3>1 DEF StepOf
  <2> HIDE DEF g
  <2> QED BY <2>1 DEF SolvesTo
<1>2. ASSUME NEW n \in Nat, Ok(n) PROVE Ok(n + 1)
  <2>1. PICK h : SolvesTo(h, f, S, n) BY <1>2
  <2> DEFINE g == [T \in SUBSET S |-> StepOf(f, h, T)]
  <2>2. ASSUME NEW T \in SUBSET S, Cardinality(T) <= n PROVE g[T] = h[T]
    BY <2>1, <2>2 DEF SolvesTo
  <2>3. ASSUME NEW T \in SUBSET S, Cardinality(T) <= n + 1 PROVE g[T] = StepOf(f, g, T)
    <3>1. g[T] = StepOf(f, h, T) OBVIOUS
    <3> HIDE DEF g
    <3>2. CASE T = {} BY <3>1, <3>2 DEF StepOf
    <3>3. CASE T # {}
      <4>1. /\ T \ {Picked(T)} \in SUBSET S
            /\ Cardinality(T) \in Nat /\ Cardinality(T \ {Picked(T)}) = Cardinality(T) - 1
        BY <3>3, WithoutPicked
      <4>2. Cardinality(T \ {Picked(T)}) <= n BY <2>3, <4>1
      <4>3. g[T \ {Picked(T)}] = h[T \ {Picked(T)}] BY <2>2, <4>1, <4>2
      <4> QED BY <3>1, <3>3, <4>3 DEF StepOf
    <3> QED BY <3>2, <3>3
  <2> HIDE DEF g
  <2> QED BY <2>3 DEF SolvesTo
<1> HIDE DEF Ok
<1>3. \A n \in Nat : n \in A
  <2>1. 0 \in A /\ \A n \in Nat : n \in A => n + 1 \in A BY <1>1, <1>2
  <2> HIDE DEF A
  <2> QED BY <2>1, NumbersFromZero
<1>4. Ok(Cardinality(S)) BY <1>3, FS_CardinalityType
<1>5. PICK h : SolvesTo(h, f, S, Cardinality(S)) BY <1>4 DEF Ok
<1> DEFINE g == [T \in SUBSET S |-> h[T]]
<1>6. ASSUME NEW T \in SUBSET S PROVE g[T] = StepOf(f, g, T)
  <2>1. Cardinality(T) <= Cardinality(S) BY FS_Subset
  <2>2. g[T] = StepOf(f, h, T) BY <1>5, <2>1 DEF SolvesTo
  <2>3. T # {} => T \ {Picked(T)} \in SUBSET S OBVIOUS
  <2>4. T # {} => g[T \ {Picked(T)}] = h[T \ {Picked(T)}] BY <2>3
  <2> HIDE DEF g
  <2> QED BY <2>2, <2>4 DEF StepOf
<1>7. DOMAIN g = SUBSET S /\ g = [T \in SUBSET S |-> g[T]] OBVIOUS
<1> HIDE DEF g
<1>8. g = [T \in SUBSET S |-> StepOf(f, g, T)] BY <1>6, <1>7
<1> QED BY <1>8

LEMMA TotalSolves ==
  ASSUME NEW f, NEW S, IsFiniteSet(S)
  PROVE  \E g : Solves(g, f, S) /\ Total(f, S) = g[S]
<1> DEFINE sum == CHOOSE g : g = [T \in SUBSET S |-> StepOf(f, g, T)]
<1>1. sum = [T \in SUBSET S |-> StepOf(f, sum, T)] BY ASolution
<1>2. Total(f, S) = sum[S]
  BY DEF Total, MapThenSumSet, MapThenFoldSet, StepOf, Picked
<1> HIDE DEF sum
<1>3. Solves(sum, f, S) BY <1>1 DEF Solves
<1> QED BY <1>2, <1>3

-----------------------------------------------------------------------------
(* What the other modules use. *)

LEMMA TotalOfNone == ASSUME NEW f PROVE Total(f, {}) = 0
<1>1. PICK g : Solves(g, f, {}) /\ Total(f, {}) = g[{}] BY TotalSolves, FS_EmptySet
<1> QED BY <1>1 DEF Solves, StepOf

(* Any solution for a larger set gives the sums of its subsets. *)
LEMMA TotalsOfSubsets ==
  ASSUME NEW f, NEW S, IsFiniteSet(S), NEW g, Solves(g, f, S), NEW T \in SUBSET S
  PROVE  Total(f, T) = g[T]
<1>1. IsFiniteSet(T) BY FS_Subset
<1>2. PICK h : Solves(h, f, T) /\ Total(f, T) = h[T] BY <1>1, TotalSolves
<1>3. Solves(g, f, T) BY DEF Solves
<1> QED BY <1>1, <1>2, <1>3, OneSolution

LEMMA TotalStep ==
  ASSUME NEW f, NEW S, IsFiniteSet(S), S # {}
  PROVE  Total(f, S) = f[Picked(S)] + Total(f, S \ {Picked(S)})
<1>1. PICK g : Solves(g, f, S) /\ Total(f, S) = g[S] BY TotalSolves
<1>2. Total(f, S \ {Picked(S)}) = g[S \ {Picked(S)}] BY <1>1, TotalsOfSubsets
<1> QED BY <1>1, <1>2 DEF Solves, StepOf

(* Sums stay in a set of numbers that addition does not leave. *)
LEMMA TotalStays ==
  ASSUME NEW S, IsFiniteSet(S), NEW f, NEW N, 0 \in N, \A a, b \in N : a + b \in N,
         \A s \in S : f[s] \in N
  PROVE  Total(f, S) \in N
<1> DEFINE A == {T \in SUBSET S : Total(f, T) \in N}
<1>1. ASSUME NEW T \in SUBSET S,
             \A U \in SUBSET S : Cardinality(U) < Cardinality(T) => U \in A
      PROVE  T \in A
  <2>1. CASE T = {} BY <2>1, TotalOfNone
  <2>2. CASE T # {}
    <3>1. /\ Picked(T) \in T /\ T \ {Picked(T)} \in SUBSET S
          /\ Cardinality(T) \in Nat /\ Cardinality(T \ {Picked(T)}) = Cardinality(T) - 1
      BY <2>2, WithoutPicked
    <3>2. Cardinality(T \ {Picked(T)}) < Cardinality(T) BY <3>1
    <3>3. Total(f, T \ {Picked(T)}) \in N BY <1>1, <3>1, <3>2
    <3>4. Total(f, T) = f[Picked(T)] + Total(f, T \ {Picked(T)}) BY <2>2, FS_Subset, TotalStep
    <3> QED BY <3>1, <3>3, <3>4
  <2> QED BY <2>1, <2>2
<1>2. \A T \in SUBSET S : T \in A
  <2> HIDE DEF A
  <2> QED BY <1>1, SubsetsBySize
<1> QED BY <1>2

LEMMA TotalType ==
  ASSUME NEW S, IsFiniteSet(S), NEW f, \A s \in S : f[s] \in Int
  PROVE  Total(f, S) \in Int
<1>1. 0 \in Int /\ \A a, b \in Int : a + b \in Int OBVIOUS
<1> QED BY <1>1, TotalStays

LEMMA TotalOfNaturals ==
  ASSUME NEW S, IsFiniteSet(S), NEW f, \A s \in S : f[s] \in Nat
  PROVE  Total(f, S) \in Nat
<1>1. 0 \in Nat /\ \A a, b \in Nat : a + b \in Nat OBVIOUS
<1> QED BY <1>1, TotalStays

(* The order does not matter. *)
LEMMA TotalWithout ==
  ASSUME NEW S, IsFiniteSet(S), NEW f, \A s \in S : f[s] \in Int
  PROVE  \A x \in S : Total(f, S) = f[x] + Total(f, S \ {x})
<1> DEFINE A == {T \in SUBSET S : \A x \in T : Total(f, T) = f[x] + Total(f, T \ {x})}
<1>1. ASSUME NEW T \in SUBSET S,
             \A U \in SUBSET S : Cardinality(U) < Cardinality(T) => U \in A
      PROVE  T \in A
  <2> SUFFICES ASSUME NEW x \in T PROVE Total(f, T) = f[x] + Total(f, T \ {x})
    OBVIOUS
  <2> DEFINE p == Picked(T)
  <2>1. /\ p \in T /\ T \ {p} \in SUBSET S /\ IsFiniteSet(T)
        /\ Cardinality(T) \in Nat /\ Cardinality(T \ {p}) = Cardinality(T) - 1
    BY WithoutPicked, FS_Subset
  <2>2. Total(f, T) = f[p] + Total(f, T \ {p}) BY <2>1, TotalStep
  <2> HIDE DEF p
  <2>3. CASE x = p BY <2>2, <2>3
  <2>4. CASE x # p
    <3>1. Cardinality(T \ {x}) = Cardinality(T) - 1 BY <2>1, FS_RemoveElement
    <3>2. /\ T \ {p} \in A /\ T \ {x} \in A BY <1>1, <2>1, <3>1
    <3>3. (T \ {p}) \ {x} = (T \ {x}) \ {p} OBVIOUS
    <3>4. Total(f, T \ {p}) = f[x] + Total(f, (T \ {x}) \ {p}) BY <2>4, <3>2, <3>3
    <3>5. Total(f, T \ {x}) = f[p] + Total(f, (T \ {x}) \ {p}) BY <2>1, <2>4, <3>2
    <3>6. IsFiniteSet((T \ {x}) \ {p}) /\ (T \ {x}) \ {p} \subseteq S BY FS_Subset
    <3>7. Total(f, (T \ {x}) \ {p}) \in Int BY <3>6, TotalType
    <3>8. f[x] \in Int /\ f[p] \in Int BY <2>1
    <3> QED BY <2>2, <3>4, <3>5, <3>7, <3>8
  <2> QED BY <2>3, <2>4
<1>2. \A T \in SUBSET S : T \in A
  <2> HIDE DEF A
  <2> QED BY <1>1, SubsetsBySize
<1> QED BY <1>2

LEMMA TotalWith ==
  ASSUME NEW S, IsFiniteSet(S), NEW x, x \notin S, NEW f, \A s \in S \union {x} : f[s] \in Int
  PROVE  Total(f, S \union {x}) = Total(f, S) + f[x]
<1>1. IsFiniteSet(S \union {x}) BY FS_AddElement
<1>2. (S \union {x}) \ {x} = S OBVIOUS
<1>3. Total(f, S \union {x}) = f[x] + Total(f, S) BY <1>1, <1>2, TotalWithout
<1>4. Total(f, S) \in Int /\ f[x] \in Int BY TotalType
<1> QED BY <1>3, <1>4

(* A sum looks at the values of its elements only. *)
LEMMA TotalOfEquals ==
  ASSUME NEW S, IsFiniteSet(S), NEW f, NEW g, \A s \in S : f[s] = g[s]
  PROVE  Total(f, S) = Total(g, S)
<1>1. PICK h : Solves(h, f, S) /\ Total(f, S) = h[S] BY TotalSolves
<1>2. Solves(h, g, S)
  <2> SUFFICES ASSUME NEW T \in SUBSET S PROVE h[T] = StepOf(g, h, T) BY DEF Solves
  <2>1. T # {} => Picked(T) \in T BY DEF Picked
  <2>2. h[T] = StepOf(f, h, T) BY <1>1 DEF Solves
  <2> QED BY <2>1, <2>2 DEF StepOf
<1> QED BY <1>1, <1>2, TotalsOfSubsets

(* Two sums over one set add up. *)
LEMMA TotalOfSums ==
  ASSUME NEW S, IsFiniteSet(S), NEW f, NEW g, NEW h,
         \A s \in S : f[s] \in Int /\ g[s] \in Int /\ h[s] = f[s] + g[s]
  PROVE  Total(h, S) = Total(f, S) + Total(g, S)
<1> DEFINE A == {T \in SUBSET S : Total(h, T) = Total(f, T) + Total(g, T)}
<1>1. ASSUME NEW T \in SUBSET S,
             \A U \in SUBSET S : Cardinality(U) < Cardinality(T) => U \in A
      PROVE  T \in A
  <2>1. CASE T = {} BY <2>1, TotalOfNone
  <2>2. CASE T # {}
    <3> DEFINE p == Picked(T)  U == T \ {p}
    <3>1. /\ p \in T /\ U \in SUBSET S
          /\ Cardinality(T) \in Nat /\ Cardinality(U) = Cardinality(T) - 1
      BY <2>2, WithoutPicked
    <3>2. IsFiniteSet(T) /\ IsFiniteSet(U) BY FS_Subset
    <3>3. /\ Total(f, T) = f[p] + Total(f, U) /\ Total(g, T) = g[p] + Total(g, U)
          /\ Total(h, T) = h[p] + Total(h, U)
      BY <2>2, <3>2, TotalStep
    <3> HIDE DEF p, U
    <3>4. Total(f, U) \in Int /\ Total(g, U) \in Int BY <3>1, <3>2, TotalType
    <3>5. Cardinality(U) < Cardinality(T) BY <3>1
    <3>6. Total(h, U) = Total(f, U) + Total(g, U) BY <1>1, <3>1, <3>5
    <3>7. f[p] \in Int /\ g[p] \in Int /\ h[p] = f[p] + g[p] BY <3>1
    <3> QED BY <3>3, <3>4, <3>6, <3>7
  <2> QED BY <2>1, <2>2
<1>2. \A T \in SUBSET S : T \in A
  <2> HIDE DEF A
  <2> QED BY <1>1, SubsetsBySize
<1> QED BY <1>2

LEMMA TotalOfConstant ==
  ASSUME NEW S, IsFiniteSet(S), NEW c \in Int, NEW f, \A s \in S : f[s] = c
  PROVE  Total(f, S) = c * Cardinality(S)
<1> DEFINE A == {T \in SUBSET S : Total(f, T) = c * Cardinality(T)}
<1>1. ASSUME NEW T \in SUBSET S,
             \A U \in SUBSET S : Cardinality(U) < Cardinality(T) => U \in A
      PROVE  T \in A
  <2>1. CASE T = {}
    <3>1. Total(f, T) = 0 /\ Cardinality(T) = 0 BY <2>1, TotalOfNone, FS_EmptySet
    <3>2. 0 = c * 0 OBVIOUS
    <3> QED BY <3>1, <3>2
  <2>2. CASE T # {}
    <3> DEFINE p == Picked(T)  U == T \ {p}
    <3>1. /\ p \in T /\ U \in SUBSET S
          /\ Cardinality(T) \in Nat /\ Cardinality(U) = Cardinality(T) - 1
      BY <2>2, WithoutPicked
    <3>2. Total(f, T) = f[p] + Total(f, U) BY <2>2, FS_Subset, TotalStep
    <3> HIDE DEF p, U
    <3>3. Cardinality(U) < Cardinality(T) BY <3>1
    <3>4. Total(f, U) = c * Cardinality(U) BY <1>1, <3>1, <3>3
    <3>5. \A n \in Nat : c + c * (n - 1) = c * n OBVIOUS
    <3>6. Total(f, T) = c + c * (Cardinality(T) - 1) BY <3>1, <3>2, <3>4
    <3> QED BY <3>1, <3>5, <3>6
  <2> QED BY <2>1, <2>2
<1>2. \A T \in SUBSET S : T \in A
  <2> HIDE DEF A
  <2> QED BY <1>1, SubsetsBySize
<1>3. Total(f, S) = c * Cardinality(S) BY <1>2
<1> QED BY <1>3

(* The elements of a set counted by an index. *)
LEMMA TotalByIndex ==
  ASSUME NEW I, IsFiniteSet(I), NEW e, \A i, j \in I : e[i] = e[j] => i = j,
         NEW f, \A i \in I : f[e[i]] \in Int
  PROVE  /\ IsFiniteSet({e[i] : i \in I})
         /\ Total(f, {e[i] : i \in I}) = Total([i \in I |-> f[e[i]]], I)
<1> DEFINE Of(T) == {e[i] : i \in T}
           g == [i \in I |-> f[e[i]]]
           A == {T \in SUBSET I : IsFiniteSet(Of(T)) /\ Total(f, Of(T)) = Total(g, T)}
<1>1. ASSUME NEW T \in SUBSET I,
             \A U \in SUBSET I : Cardinality(U) < Cardinality(T) => U \in A
      PROVE  T \in A
  <2>1. CASE T = {}
    <3>1. Of(T) = {} BY <2>1
    <3> QED BY <2>1, <3>1, TotalOfNone, FS_EmptySet
  <2>2. CASE T # {}
    <3> DEFINE p == Picked(T)  U == T \ {p}
    <3>1. /\ p \in T /\ U \in SUBSET I
          /\ Cardinality(T) \in Nat /\ Cardinality(U) = Cardinality(T) - 1
      BY <2>2, WithoutPicked
    <3>2. Total(g, T) = g[p] + Total(g, U) BY <2>2, FS_Subset, TotalStep
    <3>3. Of(T) = Of(U) \union {e[p]} BY <3>1
    <3>4. e[p] \notin Of(U) BY <3>1
    <3>5. \A s \in Of(U) \union {e[p]} : f[s] \in Int BY <3>1
    <3>6. g[p] = f[e[p]] /\ f[e[p]] \in Int BY <3>1
    <3>7. \A i \in U : g[i] \in Int BY <3>1
    <3>8. IsFiniteSet(U) BY <3>1, FS_Subset
    <3> HIDE DEF p, U, g
    <3>9. Cardinality(U) < Cardinality(T) BY <3>1
    <3>10. IsFiniteSet(Of(U)) /\ Total(f, Of(U)) = Total(g, U) BY <1>1, <3>1, <3>9
    <3> HIDE DEF Of
    <3>11. Total(f, Of(T)) = Total(f, Of(U)) + f[e[p]]
      <4>1. PICK X, x : X = Of(U) /\ x = e[p] OBVIOUS
      <4>2. IsFiniteSet(X) /\ x \notin X /\ \A s \in X \union {x} : f[s] \in Int
        BY <3>4, <3>5, <3>10, <4>1
      <4>3. Total(f, X \union {x}) = Total(f, X) + f[x] BY <4>2, TotalWith
      <4> QED BY <3>3, <4>1, <4>3
    <3>12. IsFiniteSet(Of(T)) BY <3>3, <3>10, FS_AddElement
    <3>13. Total(g, U) \in Int BY <3>7, <3>8, TotalType
    <3>14. Total(f, Of(T)) = Total(g, T) BY <3>2, <3>6, <3>10, <3>11, <3>13
    <3> QED BY <3>12, <3>14
  <2> QED BY <2>1, <2>2
<1>2. \A T \in SUBSET I : T \in A
  <2> HIDE DEF A
  <2> QED BY <1>1, SubsetsBySize
<1>3. I \in A BY <1>2
<1> QED BY <1>3

-----------------------------------------------------------------------------
(* Sequences *)

(* The recursion of Only: what is kept of the first n elements. *)
KeepsOf(g, s, S, n) ==
  /\ g[0] = <<>>
  /\ \A i \in 1..n : g[i] = IF s[i] \in S THEN Append(g[i - 1], s[i]) ELSE g[i - 1]

LEMMA KeepsExist ==
  ASSUME NEW s, NEW S
  PROVE  \A n \in Nat : \E g : KeepsOf(g, s, S, n)
<1> DEFINE A == {n \in Nat : \E g : KeepsOf(g, s, S, n)}
<1>1. 0 \in A
  <2> DEFINE g == [i \in {0} |-> <<>>]
  <2>1. KeepsOf(g, s, S, 0) BY DEF KeepsOf
  <2> QED BY <2>1
<1>2. ASSUME NEW n \in Nat, n \in A PROVE n + 1 \in A
  <2>1. PICK h : KeepsOf(h, s, S, n) BY <1>2
  <2> DEFINE last == IF s[n + 1] \in S THEN Append(h[n], s[n + 1]) ELSE h[n]
             g == [i \in 0..(n + 1) |-> IF i = n + 1 THEN last ELSE h[i]]
  <2>2. g[0] = <<>> BY <2>1 DEF KeepsOf
  <2>3. ASSUME NEW i \in 1..(n + 1)
        PROVE  g[i] = IF s[i] \in S THEN Append(g[i - 1], s[i]) ELSE g[i - 1]
    <3>1. CASE i = n + 1
      <4>1. g[i] = last /\ g[i - 1] = h[n] BY <3>1
      <4> QED BY <3>1, <4>1
    <3>2. CASE i # n + 1
      <4>1. i \in 1..n /\ g[i] = h[i] /\ g[i - 1] = h[i - 1] BY <3>2
      <4> QED BY <2>1, <4>1 DEF KeepsOf
    <3> QED BY <3>1, <3>2
  <2> HIDE DEF g
  <2>4. KeepsOf(g, s, S, n + 1) BY <2>2, <2>3 DEF KeepsOf
  <2> QED BY <2>4
<1> HIDE DEF A
<1>3. \A n \in Nat : n \in A BY <1>1, <1>2, NumbersFromZero
<1> QED BY <1>3 DEF A

LEMMA OnlyIsKept ==
  ASSUME NEW s, NEW S, Len(s) \in Nat
  PROVE  \E g : KeepsOf(g, s, S, Len(s)) /\ Only(s, S) = g[Len(s)]
<1> DEFINE Rule(g) == [n \in 0..Len(s) |->
             IF n = 0 THEN <<>>
             ELSE IF s[n] \in S THEN Append(g[n - 1], s[n]) ELSE g[n - 1]]
           only == CHOOSE g : g = Rule(g)
<1>1. PICK h : KeepsOf(h, s, S, Len(s)) BY KeepsExist
<1>2. \E g : g = Rule(g)
  <2> DEFINE g == [n \in 0..Len(s) |-> h[n]]
  <2>1. ASSUME NEW n \in 0..Len(s)
        PROVE  g[n] = IF n = 0 THEN <<>>
                      ELSE IF s[n] \in S THEN Append(g[n - 1], s[n]) ELSE g[n - 1]
    <3>1. CASE n = 0 BY <1>1, <3>1 DEF KeepsOf
    <3>2. CASE n # 0
      <4>1. n \in 1..Len(s) /\ g[n] = h[n] /\ g[n - 1] = h[n - 1] BY <3>2
      <4> QED BY <1>1, <3>2, <4>1 DEF KeepsOf
    <3> QED BY <3>1, <3>2
  <2>2. g = [n \in 0..Len(s) |-> g[n]] OBVIOUS
  <2> HIDE DEF g
  <2>3. g = Rule(g) BY <2>1, <2>2
  <2> QED BY <2>3
<1>3. only = Rule(only) BY <1>2
<1>4. Only(s, S) = only[Len(s)] BY DEF Only
<1> HIDE DEF only
<1>5. ASSUME NEW n \in 0..Len(s)
      PROVE  only[n] = IF n = 0 THEN <<>>
                       ELSE IF s[n] \in S THEN Append(only[n - 1], s[n]) ELSE only[n - 1]
  BY <1>3
<1>6. KeepsOf(only, s, S, Len(s)) BY <1>5 DEF KeepsOf
<1> QED BY <1>4, <1>6

(* What is kept are the elements that are in both, in their number and     *)
(* order: once each, if they were in s once each.                          *)
LEMMA OnlyFacts ==
  ASSUME NEW T, NEW s \in Seq(T), NEW S
  PROVE  /\ Only(s, S) \in Seq(T)
         /\ Len(Only(s, S)) <= Len(s)
         /\ Range(Only(s, S)) = Range(s) \intersect S
         /\ IsInjective(s) => IsInjective(Only(s, S))
<1>0. Len(s) \in Nat /\ DOMAIN s = 1..Len(s) /\ \A i \in 1..Len(s) : s[i] \in T OBVIOUS
<1>1. PICK g : KeepsOf(g, s, S, Len(s)) /\ Only(s, S) = g[Len(s)] BY <1>0, OnlyIsKept
<1> DEFINE Upto(n) == {s[i] : i \in 1..n} \intersect S
           Good(n) == /\ g[n] \in Seq(T) /\ Len(g[n]) <= n
                      /\ Range(g[n]) = Upto(n)
                      /\ IsInjective(s) => IsInjective(g[n])
           A == {n \in Nat : n <= Len(s) => Good(n)}
<1>2. 0 \in A
  <2>1. g[0] = <<>> BY <1>1 DEF KeepsOf
  <2>2. Range(<<>>) = {} /\ IsInjective(<<>>) BY DEF Range, IsInjective
  <2>3. Upto(0) = {} OBVIOUS
  <2>4. Good(0) BY <2>1, <2>2, <2>3
  <2> QED BY <2>4
<1>3. ASSUME NEW n \in Nat, n \in A PROVE n + 1 \in A
  <2> SUFFICES ASSUME n + 1 <= Len(s) PROVE Good(n + 1) OBVIOUS
  <2>1. Good(n) BY <1>0, <1>3
  <2>2. n + 1 \in 1..Len(s) /\ s[n + 1] \in T BY <1>0
  <2>3. g[n + 1] = IF s[n + 1] \in S THEN Append(g[n], s[n + 1]) ELSE g[n]
    BY <1>1, <2>2 DEF KeepsOf
  <2>4. {s[i] : i \in 1..(n + 1)} = {s[i] : i \in 1..n} \union {s[n + 1]}
    BY SMT
  <2>5. CASE s[n + 1] \notin S
    <3>1. Upto(n + 1) = Upto(n) BY <2>4, <2>5
    <3> QED BY <2>1, <2>3, <2>5, <3>1
  <2>6. CASE s[n + 1] \in S
    <3>1. Upto(n + 1) = Upto(n) \union {s[n + 1]} BY <2>4, <2>6
    <3> DEFINE q == g[n]  r == Append(q, s[n + 1])
    <3>2. /\ q \in Seq(T) /\ Len(q) \in Nat /\ DOMAIN q = 1..Len(q) /\ Len(q) <= n
          /\ r \in Seq(T) /\ Len(r) = Len(q) + 1 /\ DOMAIN r = 1..(Len(q) + 1)
          /\ \A i \in 1..Len(q) : r[i] = q[i]
          /\ r[Len(q) + 1] = s[n + 1]
      BY <2>1, <2>2
    <3>3. g[n + 1] = r BY <2>3, <2>6
    <3>4. Range(q) = Upto(n) /\ (IsInjective(s) => IsInjective(q)) BY <2>1
    <3> HIDE DEF q, r
    <3>5. Range(r) = Range(q) \union {s[n + 1]} BY <3>2, SMT DEF Range
    <3>6. ASSUME IsInjective(s) PROVE IsInjective(r)
      <4>1. s[n + 1] \notin Range(q)
        <5>1. \A i \in 1..n : s[i] # s[n + 1]
          BY <1>0, <2>2, <3>6, SMT DEF IsInjective
        <5> QED BY <3>4, <5>1
      <4>2. \A i \in 1..Len(q) : q[i] # s[n + 1] BY <3>2, <4>1 DEF Range
      <4> QED BY <3>2, <3>4, <3>6, <4>2, SMT DEF IsInjective
    <3>7. Len(r) <= n + 1 BY <3>2
    <3> HIDE DEF Upto
    <3>8. Range(r) = Upto(n + 1) BY <3>1, <3>4, <3>5
    <3> QED BY <3>2, <3>3, <3>6, <3>7, <3>8
  <2> QED BY <2>5, <2>6
<1> HIDE DEF A
<1>4. \A n \in Nat : n \in A BY <1>2, <1>3, NumbersFromZero
<1>5. Good(Len(s))
  <2>1. Len(s) \in A BY <1>0, <1>4
  <2> QED BY <1>0, <2>1 DEF A
<1>6. Upto(Len(s)) = Range(s) \intersect S BY <1>0 DEF Range
<1> QED BY <1>1, <1>5, <1>6

(* Sequences without repetition and the sets of their elements. *)
LEMMA LengthIsSize ==
  ASSUME NEW T, NEW s \in Seq(T)
  PROVE  /\ IsFiniteSet(Range(s)) /\ Cardinality(Range(s)) <= Len(s)
         /\ Cardinality(Range(s)) = Len(s) <=> IsInjective(s)
<1>0. Len(s) \in Nat /\ DOMAIN s = 1..Len(s) OBVIOUS
<1>1. /\ Len(s) \in Nat /\ DOMAIN s = 1..Len(s) /\ IsFiniteSet(1..Len(s))
      /\ Cardinality(1..Len(s)) = Len(s)
  <2>1. \A n \in Nat : IsFiniteSet(1..n) /\ Cardinality(1..n) = n BY FS_Interval
  <2> QED BY <1>0, <2>1
<1>2. s \in Surjection(1..Len(s), Range(s)) BY <1>1 DEF Surjection, Range
<1>3. s \in Injection(1..Len(s), Range(s)) <=> IsInjective(s)
  BY <1>1, <1>2 DEF Injection, Surjection, IsInjective
<1> QED BY <1>1, <1>2, <1>3, FS_Surjection

LEMMA NoLongerThan ==
  ASSUME NEW T, NEW s \in Seq(T), IsInjective(s), NEW u \in Seq(T), IsInjective(u),
         Range(s) \subseteq Range(u)
  PROVE  Len(s) <= Len(u)
BY LengthIsSize, FS_Subset

(* The recursion of FlattenSeq: the first n sequences of ss, joined.       *)
JoinsOf(g, ss, n) == \A i \in 1..n : g[i] = IF i = 1 THEN ss[i] ELSE g[i - 1] \o ss[i]

LEMMA JoinsExist ==
  ASSUME NEW ss
  PROVE  \A n \in Nat : \E g : g = [i \in 1..n |-> IF i = 1 THEN ss[i] ELSE g[i - 1] \o ss[i]]
<1> DEFINE A == {n \in Nat : \E g : JoinsOf(g, ss, n)}
<1>1. 0 \in A
  <2>1. \E g : JoinsOf(g, ss, 0) BY DEF JoinsOf
  <2> QED BY <2>1
<1>2. ASSUME NEW n \in Nat, n \in A PROVE n + 1 \in A
  <2>1. PICK h : JoinsOf(h, ss, n) BY <1>2
  <2> DEFINE last == IF n + 1 = 1 THEN ss[n + 1] ELSE h[n] \o ss[n + 1]
             g == [i \in 1..(n + 1) |-> IF i = n + 1 THEN last ELSE h[i]]
  <2>2. ASSUME NEW i \in 1..(n + 1)
        PROVE  g[i] = IF i = 1 THEN ss[i] ELSE g[i - 1] \o ss[i]
    <3>1. CASE i = n + 1
      <4>1. g[i] = last BY <3>1
      <4>2. i # 1 => g[i - 1] = h[n] BY <3>1
      <4> HIDE DEF g
      <4> QED BY <3>1, <4>1, <4>2
    <3>2. CASE i # n + 1
      <4>1. i \in 1..n /\ g[i] = h[i] /\ (i # 1 => g[i - 1] = h[i - 1]) BY <3>2
      <4> HIDE DEF g
      <4> QED BY <2>1, <4>1 DEF JoinsOf
    <3> QED BY <3>1, <3>2
  <2> HIDE DEF g
  <2>3. JoinsOf(g, ss, n + 1) BY <2>2 DEF JoinsOf
  <2> QED BY <2>3
<1>3. \A n \in Nat : n \in A
  <2> HIDE DEF A
  <2> QED BY <1>1, <1>2, NumbersFromZero
<1> SUFFICES ASSUME NEW n \in Nat
             PROVE  \E g : g = [i \in 1..n |-> IF i = 1 THEN ss[i] ELSE g[i - 1] \o ss[i]]
  OBVIOUS
<1>4. PICK h : JoinsOf(h, ss, n) BY <1>3
<1> DEFINE g == [i \in 1..n |-> h[i]]
<1>5. ASSUME NEW i \in 1..n PROVE g[i] = IF i = 1 THEN ss[i] ELSE g[i - 1] \o ss[i]
  <2>1. g[i] = h[i] /\ (i # 1 => g[i - 1] = h[i - 1]) OBVIOUS
  <2> HIDE DEF g
  <2> QED BY <1>4, <2>1 DEF JoinsOf
<1>6. g = [i \in 1..n |-> g[i]] OBVIOUS
<1> HIDE DEF g
<1>7. g = [i \in 1..n |-> IF i = 1 THEN ss[i] ELSE g[i - 1] \o ss[i]] BY <1>5, <1>6
<1> QED BY <1>7

LEMMA ConcatOnce ==
  ASSUME NEW T, NEW s \in Seq(T), NEW u \in Seq(T)
  PROVE  /\ s \o u \in Seq(T)
         /\ Range(s \o u) = Range(s) \union Range(u)
         /\ IsInjective(s \o u) =>
              IsInjective(s) /\ IsInjective(u) /\ Range(s) \intersect Range(u) = {}
<1> DEFINE m == Len(s)  n == Len(u)  r == s \o u
<1>1. /\ m \in Nat /\ n \in Nat /\ DOMAIN s = 1..m /\ DOMAIN u = 1..n
      /\ r \in Seq(T) /\ Len(r) = m + n /\ DOMAIN r = 1..(m + n)
      /\ \A i \in 1..m : r[i] = s[i]
      /\ \A i \in 1..n : r[m + i] = u[i] /\ m + i \in 1..(m + n)
  OBVIOUS
<1>2. \A i \in 1..(m + n) : i \in 1..m \/ (i - m \in 1..n /\ r[i] = u[i - m])
  <2> SUFFICES ASSUME NEW i \in 1..(m + n), i \notin 1..m
               PROVE  i - m \in 1..n /\ r[i] = u[i - m]
    OBVIOUS
  <2>1. i - m \in 1..n /\ m + (i - m) = i BY <1>1
  <2> QED BY <1>1, <2>1
<1> HIDE DEF m, n, r
<1>3. Range(r) = Range(s) \union Range(u)
  <2>1. ASSUME NEW x \in Range(r) PROVE x \in Range(s) \union Range(u)
    <3>1. PICK i \in 1..(m + n) : x = r[i] BY <1>1, <2>1 DEF Range
    <3> QED BY <1>1, <1>2, <3>1 DEF Range
  <2>2. ASSUME NEW x \in Range(s) PROVE x \in Range(r)
    <3>1. PICK i \in 1..m : x = s[i] BY <1>1 DEF Range
    <3>2. i \in 1..(m + n) /\ r[i] = x BY <1>1, <3>1
    <3> QED BY <1>1, <3>2 DEF Range
  <2>3. ASSUME NEW x \in Range(u) PROVE x \in Range(r)
    <3>1. PICK i \in 1..n : x = u[i] BY <1>1 DEF Range
    <3>2. m + i \in 1..(m + n) /\ r[m + i] = x BY <1>1, <3>1
    <3> QED BY <1>1, <3>2 DEF Range
  <2> QED BY <2>1, <2>2, <2>3
<1>4. ASSUME IsInjective(r)
      PROVE  IsInjective(s) /\ IsInjective(u) /\ Range(s) \intersect Range(u) = {}
  <2>1. IsInjective(s)
    <3> SUFFICES ASSUME NEW i \in 1..m, NEW j \in 1..m, s[i] = s[j] PROVE i = j
      BY <1>1 DEF IsInjective
    <3>1. i \in 1..(m + n) /\ j \in 1..(m + n) /\ r[i] = r[j] BY <1>1
    <3> QED BY <1>1, <1>4, <3>1 DEF IsInjective
  <2>2. IsInjective(u)
    <3> SUFFICES ASSUME NEW i \in 1..n, NEW j \in 1..n, u[i] = u[j] PROVE i = j
      BY <1>1 DEF IsInjective
    <3>1. m + i \in 1..(m + n) /\ m + j \in 1..(m + n) /\ r[m + i] = r[m + j] BY <1>1
    <3>2. m + i = m + j BY <1>1, <1>4, <3>1 DEF IsInjective
    <3> QED BY <1>1, <3>2
  <2>3. ASSUME NEW x \in Range(s), x \in Range(u) PROVE FALSE
    <3>1. PICK i \in 1..m : x = s[i] BY <1>1 DEF Range
    <3>2. PICK j \in 1..n : x = u[j] BY <1>1, <2>3 DEF Range
    <3>3. i \in 1..(m + n) /\ i # m + j BY <1>1
    <3>4. m + j \in 1..(m + n) /\ r[m + j] = x /\ r[i] = x BY <1>1, <3>1, <3>2
    <3> QED BY <1>1, <1>4, <3>3, <3>4 DEF IsInjective
  <2> QED BY <2>1, <2>2, <2>3
<1> QED BY <1>1, <1>3, <1>4 DEF r

(* What is joined has the elements of all; if it has each once, the        *)
(* sequences share none.                                                   *)
LEMMA JoinedFacts ==
  ASSUME NEW T, NEW ss \in Seq(Seq(T)), NEW g, JoinsOf(g, ss, Len(ss)), Len(ss) # 0
  PROVE  /\ g[Len(ss)] \in Seq(T)
         /\ Range(g[Len(ss)]) = UNION {Range(ss[i]) : i \in 1..Len(ss)}
         /\ IsInjective(g[Len(ss)]) =>
              \A i, j \in 1..Len(ss) : /\ IsInjective(ss[i])
                                       /\ i # j => Range(ss[i]) \intersect Range(ss[j]) = {}
<1>0. Len(ss) \in Nat /\ \A i \in 1..Len(ss) : ss[i] \in Seq(T) OBVIOUS
<1> DEFINE Parts(n) == UNION {Range(ss[i]) : i \in 1..n}
           Apart(n) == \A i, j \in 1..n : /\ IsInjective(ss[i])
                                          /\ i # j => Range(ss[i]) \intersect Range(ss[j]) = {}
           Good(n) == /\ g[n] \in Seq(T) /\ Range(g[n]) = Parts(n)
                      /\ IsInjective(g[n]) => Apart(n)
           A == {n \in Nat : n # 0 /\ n <= Len(ss) => Good(n)}
<1>1. 0 \in A OBVIOUS
<1>2. ASSUME NEW n \in Nat, n # 0 /\ n <= Len(ss) => Good(n), n + 1 <= Len(ss)
      PROVE  Good(n + 1)
  <2>1. n + 1 \in 1..Len(ss) /\ ss[n + 1] \in Seq(T)
    <3> HIDE DEF Good
    <3>1. n + 1 \in 1..Len(ss) BY <1>0, <1>2
    <3> QED BY <1>0, <3>1
  <2>2. g[n + 1] = IF n + 1 = 1 THEN ss[n + 1] ELSE g[(n + 1) - 1] \o ss[n + 1]
    BY <2>1 DEF JoinsOf
  <2>3. CASE n = 0
    <3>1. g[n + 1] = ss[n + 1] BY <2>2, <2>3
    <3>2. 1..(n + 1) = {n + 1} BY <2>3
    <3>3. Parts(n + 1) = Range(ss[n + 1]) BY <3>2
    <3>4. IsInjective(ss[n + 1]) => Apart(n + 1) BY <3>2
    <3> HIDE DEF Parts, Apart
    <3> QED BY <2>1, <3>1, <3>3, <3>4
  <2>4. CASE n # 0
    <3>1. Good(n)
      <4>1. n # 0 /\ n <= Len(ss) BY <1>0, <1>2, <2>4
      <4> HIDE DEF Good
      <4> QED BY <1>2, <4>1
    <3>2. g[n + 1] = g[n] \o ss[n + 1]
      <4>1. (n + 1) - 1 = n /\ n + 1 # 1 BY <2>4
      <4> QED BY <2>2, <4>1
    <3>3. /\ g[n + 1] \in Seq(T)
          /\ Range(g[n + 1]) = Range(g[n]) \union Range(ss[n + 1])
          /\ IsInjective(g[n + 1]) =>
               /\ IsInjective(g[n]) /\ IsInjective(ss[n + 1])
               /\ Range(g[n]) \intersect Range(ss[n + 1]) = {}
      BY <2>1, <3>1, <3>2, ConcatOnce
    <3>4. \A i : i \in 1..(n + 1) <=> i \in 1..n \/ i = n + 1 OBVIOUS
    <3>5. Parts(n + 1) = Parts(n) \union Range(ss[n + 1]) BY <3>4
    <3>6. ASSUME IsInjective(g[n + 1]) PROVE Apart(n + 1)
      <4>1. Apart(n) BY <3>1, <3>3, <3>6
      <4>2. \A i \in 1..n : Range(ss[i]) \intersect Range(ss[n + 1]) = {}
        BY <3>1, <3>3, <3>6
      <4>3. IsInjective(ss[n + 1]) BY <3>3, <3>6
      <4> QED BY <3>4, <4>1, <4>2, <4>3
    <3> HIDE DEF Parts, Apart
    <3> QED BY <3>1, <3>3, <3>5, <3>6
  <2> QED BY <2>3, <2>4
<1> HIDE DEF Good
<1>3. \A n \in Nat : n \in A => n + 1 \in A BY <1>2
<1>4. \A n \in Nat : n \in A
  <2> HIDE DEF A
  <2> QED BY <1>1, <1>3, NumbersFromZero
<1>5. Good(Len(ss)) BY <1>0, <1>4
<1> QED BY <1>5 DEF Good
==============================================================================
