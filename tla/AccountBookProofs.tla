--------------------------- MODULE AccountBookProofs ---------------------------
(***************************************************************************)
(* What AccountBook's operators keep true of the books of an account.      *)
(* Sums are taken over all orders and all ledger rows, with functions that *)
(* are 0 on those that do not count, so that a change of one order or a    *)
(* new row changes one term.                                               *)
(***************************************************************************)
EXTENDS AccountBook, FiniteSetTheorems, WellFoundedInduction, TLAPS

-------------------------------------------------------------------------------
(* Sums over finite sets: SumFunctionOnSet of FiniteSetsExt adds the terms *)
(* of a set in an order that CHOOSE picks.  The lemmas say that the order  *)
(* does not matter, what one more element or one changed term does, and    *)
(* what a part, a union or an injective image adds up to.  Induction over  *)
(* finite sets is FiniteInduction, which takes a set of the sets for which *)
(* the claim holds where an induction rule takes a predicate.              *)

(* Among the subsets of a finite set, one of those in B has none below it. *)
LEMMA SmallestSubset ==
    ASSUME NEW S, IsFiniteSet(S), NEW B, B \subseteq SUBSET S, B # {}
    PROVE  \E T \in B : \A U \in B : U \subseteq T => U = T
<1>1. PICK R : R = StrictSubsetOrdering(S)
  OBVIOUS
<1>2. IsWellFoundedOn(R, SUBSET S)
  BY <1>1, FS_StrictSubsetOrderingWellFounded, FS_FiniteSubsetsOfFinite
<1>3. PICK T \in B : \A U \in B : <<U, T>> \notin R
  BY <1>2, WFMin
<1> QED BY <1>1, <1>3 DEF StrictSubsetOrdering

(* What holds of the empty set, and of a finite set with one more element, *)
(* holds of every finite set: G is the set of those of which it holds.     *)
LEMMA FiniteInduction ==
    ASSUME NEW S, IsFiniteSet(S), NEW G,
           {} \in G, \A T \in SUBSET S, x \in S : T \in G /\ x \notin T => T \cup {x} \in G
    PROVE  S \in G
<1> SUFFICES ASSUME S \notin G PROVE FALSE
  OBVIOUS
<1>1. PICK B : B = {T \in SUBSET S : T \notin G}
  OBVIOUS
<1>2. PICK T \in B : \A U \in B : U \subseteq T => U = T
  <2>1. B \subseteq SUBSET S /\ B # {}
    BY <1>1
  <2> QED BY <2>1, SmallestSubset
<1>3. PICK x : x \in T
  BY <1>1
<1>4. T \ {x} \notin G
  BY <1>1, <1>3
<1> QED BY <1>1, <1>2, <1>3, <1>4

SumStep(f, g, s) ==
    IF s = {} THEN 0 ELSE f[CHOOSE x \in s : TRUE] + g[s \ {CHOOSE x \in s : TRUE}]

Solves(g, f, S) == g = [s \in SUBSET S |-> SumStep(f, g, s)]

(* What SumFunctionOnSet stands for: the value at S of a recursive         *)
(* function on the subsets of S.                                           *)
LEMMA SumUnfolds ==
    ASSUME NEW f, NEW S
    PROVE  SumFunctionOnSet(f, S) = (CHOOSE g : g = [s \in SUBSET S |-> SumStep(f, g, s)])[S]
BY DEF SumFunctionOnSet, FoldFunctionOnSet, MapThenFoldSet, SumStep

(* The recursion has a solution: there is one for the subsets of at most n *)
(* elements, for every n.                                                  *)
Small(S, n) == {s \in SUBSET S : Cardinality(s) <= n}

(* That recursive function exists.                                         *)
LEMMA SumExists ==
    ASSUME NEW S, IsFiniteSet(S), NEW f
    PROVE  \E g : g = [s \in SUBSET S |-> SumStep(f, g, s)]
<1>1. PICK N : N = {n \in Nat : ~\E g : g = [s \in Small(S, n) |-> SumStep(f, g, s)]}
  OBVIOUS
<1>2. N = {}
  <2> SUFFICES ASSUME N # {} PROVE FALSE
    OBVIOUS
  <2>1. PICK R : R = OpToRel(<, Nat)
    OBVIOUS
  <2>2. PICK n \in N : \A m \in N : <<m, n>> \notin R
    <3>1. IsWellFoundedOn(R, Nat) /\ N \subseteq Nat
      BY <1>1, <2>1, NatLessThanWellFounded
    <3> QED BY <3>1, WFMin
  <2>3. \A m \in Nat : m < n => m \notin N
    BY <1>1, <2>1, <2>2 DEF OpToRel
  <2>4. n \in Nat /\ ~\E g : g = [s \in Small(S, n) |-> SumStep(f, g, s)]
    BY <1>1
  <2>5. n # 0
    <3> SUFFICES ASSUME n = 0 PROVE FALSE
      OBVIOUS
    <3>1. Small(S, 0) = {{}}
      <4>1. \A s \in SUBSET S : IsFiniteSet(s) /\ Cardinality(s) \in Nat
        BY FS_Subset, FS_CardinalityType
      <4> QED BY <4>1, FS_EmptySet DEF Small
    <3>2. PICK g : g = [s \in {{}} |-> 0]
      OBVIOUS
    <3>3. g = [s \in Small(S, 0) |-> SumStep(f, g, s)]
      BY <3>1, <3>2 DEF SumStep
    <3> QED BY <2>4, <3>3
  <2>6. PICK h : h = [s \in Small(S, n - 1) |-> SumStep(f, h, s)]
    <3>1. n - 1 \in Nat /\ n - 1 \notin N
      BY <2>3, <2>4, <2>5
    <3> QED BY <1>1, <3>1
  <2>7. PICK g : g = [s \in Small(S, n) |-> SumStep(f, h, s)]
    OBVIOUS
  <2>8. ASSUME NEW s \in Small(S, n) PROVE SumStep(f, h, s) = SumStep(f, g, s)
    <3>1. CASE s = {}
      BY <3>1 DEF SumStep
    <3>2. CASE s # {}
      <4>1. PICK x : x = CHOOSE y \in s : TRUE
        OBVIOUS
      <4>2. x \in s
        BY <3>2, <4>1
      <4>3. IsFiniteSet(s) /\ Cardinality(s) \in Nat /\ Cardinality(s) <= n /\ s \in SUBSET S
        BY FS_Subset, FS_CardinalityType DEF Small
      <4>4. Cardinality(s \ {x}) = Cardinality(s) - 1
        BY <4>2, <4>3, FS_RemoveElement
      <4>5. s \ {x} \in Small(S, n - 1) /\ s \ {x} \in Small(S, n)
        BY <2>4, <4>3, <4>4 DEF Small
      <4>6. h[s \ {x}] = SumStep(f, h, s \ {x}) /\ g[s \ {x}] = SumStep(f, h, s \ {x})
        BY <2>6, <2>7, <4>5
      <4> QED BY <3>2, <4>1, <4>6 DEF SumStep
    <3> QED BY <3>1, <3>2
  <2>9. g = [s \in Small(S, n) |-> SumStep(f, g, s)]
    BY <2>7, <2>8
  <2> QED BY <2>4, <2>9
<1>3. Cardinality(S) \in Nat /\ Small(S, Cardinality(S)) = SUBSET S
  BY FS_CardinalityType, FS_Subset DEF Small
<1>4. PICK g : g = [s \in Small(S, Cardinality(S)) |-> SumStep(f, g, s)]
  <2>1. Cardinality(S) \notin N
    BY <1>2
  <2> QED BY <1>1, <1>3, <2>1
<1>5. g = [s \in SUBSET S |-> SumStep(f, g, s)]
  BY <1>3, <1>4
<1> QED BY <1>5

(* So that the sum over S is what some solution of the recursion says.     *)
LEMMA SumRecursion ==
    ASSUME NEW S, IsFiniteSet(S), NEW f
    PROVE  \E g : /\ Solves(g, f, S) /\ SumFunctionOnSet(f, S) = g[S]
<1>1. PICK g : g = CHOOSE h : h = [s \in SUBSET S |-> SumStep(f, h, s)]
  OBVIOUS
<1>2. g = [s \in SUBSET S |-> SumStep(f, g, s)]
  <2>1. \E h : h = [s \in SUBSET S |-> SumStep(f, h, s)]
    BY SumExists
  <2> QED BY <1>1, <2>1, Zenon
<1>3. SumFunctionOnSet(f, S) = g[S]
  BY <1>1, SumUnfolds
<1> QED BY <1>2, <1>3 DEF Solves

(* Two solutions agree where both are defined.                             *)
LEMMA SumUnique ==
    ASSUME NEW S, IsFiniteSet(S), NEW T \in SUBSET S, NEW f,
           NEW g, Solves(g, f, S), NEW h, Solves(h, f, T)
    PROVE  g[T] = h[T]
<1> SUFFICES ASSUME g[T] # h[T] PROVE FALSE
  OBVIOUS
<1>1. PICK B : B = {U \in SUBSET T : g[U] # h[U]}
  OBVIOUS
<1>2. PICK U \in B : \A V \in B : V \subseteq U => V = U
  <2>1. B \subseteq SUBSET T /\ B # {} /\ IsFiniteSet(T)
    BY <1>1, FS_Subset
  <2> QED BY <2>1, SmallestSubset
<1>3. U \in SUBSET T /\ U \in SUBSET S /\ g[U] # h[U]
  BY <1>1
<1>4. g[U] = SumStep(f, g, U) /\ h[U] = SumStep(f, h, U)
  BY <1>3 DEF Solves
<1>5. U # {}
  BY <1>3, <1>4 DEF SumStep
<1>6. PICK x : x = CHOOSE y \in U : TRUE
  OBVIOUS
<1>7. U \ {x} \in SUBSET T /\ ~(U \subseteq U \ {x})
  BY <1>3, <1>5, <1>6
<1>8. g[U \ {x}] = h[U \ {x}]
  BY <1>1, <1>2, <1>7
<1> QED BY <1>3, <1>4, <1>5, <1>6, <1>8 DEF SumStep

(* The sum of nothing, and a sum as its definition takes it apart.         *)
LEMMA SumTakesOne ==
    ASSUME NEW S, IsFiniteSet(S), S # {}
    PROVE  \E x \in S : \A f : SumFunctionOnSet(f, S) = f[x] + SumFunctionOnSet(f, S \ {x})
<1>1. PICK x : x = CHOOSE y \in S : TRUE
  OBVIOUS
<1>2. x \in S
  BY <1>1
<1>3. ASSUME NEW f PROVE SumFunctionOnSet(f, S) = f[x] + SumFunctionOnSet(f, S \ {x})
  <2>1. PICK g : Solves(g, f, S) /\ SumFunctionOnSet(f, S) = g[S]
    BY SumRecursion
  <2>2. S \ {x} \in SUBSET S /\ IsFiniteSet(S \ {x})
    BY FS_Subset
  <2>3. PICK h : Solves(h, f, S \ {x}) /\ SumFunctionOnSet(f, S \ {x}) = h[S \ {x}]
    BY <2>2, SumRecursion
  <2>4. g[S \ {x}] = h[S \ {x}]
    BY <2>1, <2>2, <2>3, SumUnique
  <2>5. g[S] = SumStep(f, g, S)
    BY <2>1 DEF Solves
  <2> QED BY <1>1, <2>1, <2>3, <2>4, <2>5 DEF SumStep
<1> QED BY <1>2, <1>3

(* The sum over nothing.                                                   *)
LEMMA SumEmpty ==
    ASSUME NEW f
    PROVE  SumFunctionOnSet(f, {}) = 0
<1>1. PICK g : Solves(g, f, {}) /\ SumFunctionOnSet(f, {}) = g[{}]
  BY SumRecursion, FS_EmptySet
<1>2. g[{}] = SumStep(f, g, {})
  BY <1>1 DEF Solves
<1> QED BY <1>1, <1>2 DEF SumStep

(* A function with integer values on S.                                    *)
Summable(f, S) == \A x \in S : f[x] \in Int

(* A sum of integers is an integer.                                        *)
LEMMA SumType ==
    ASSUME NEW S, IsFiniteSet(S), NEW f, Summable(f, S)
    PROVE  SumFunctionOnSet(f, S) \in Int
<1> SUFFICES ASSUME SumFunctionOnSet(f, S) \notin Int PROVE FALSE
  OBVIOUS
<1>1. PICK B : B = {T \in SUBSET S : SumFunctionOnSet(f, T) \notin Int}
  OBVIOUS
<1>2. PICK T \in B : \A U \in B : U \subseteq T => U = T
  BY <1>1, SmallestSubset
<1>3. T \in SUBSET S /\ IsFiniteSet(T) /\ SumFunctionOnSet(f, T) \notin Int
  BY <1>1, FS_Subset
<1>4. T # {}
  BY <1>3, SumEmpty
<1>5. PICK x \in T : \A e : SumFunctionOnSet(e, T) = e[x] + SumFunctionOnSet(e, T \ {x})
  BY <1>3, <1>4, SumTakesOne
<1>6. SumFunctionOnSet(f, T) = f[x] + SumFunctionOnSet(f, T \ {x})
  BY <1>5
<1>7. x \in T
  BY <1>4, <1>5
<1>8. f[x] \in Int /\ SumFunctionOnSet(f, T \ {x}) \in Int
  BY <1>1, <1>2, <1>3, <1>7 DEF Summable
<1> QED BY <1>3, <1>6, <1>8

(* Whichever element is taken out first, the sum is the same.              *)
LEMMA SumRemove ==
    ASSUME NEW S, IsFiniteSet(S), NEW f, Summable(f, S), NEW x \in S
    PROVE  SumFunctionOnSet(f, S) = f[x] + SumFunctionOnSet(f, S \ {x})
<1> SUFFICES ASSUME SumFunctionOnSet(f, S) # f[x] + SumFunctionOnSet(f, S \ {x}) PROVE FALSE
  OBVIOUS
<1>1. PICK B : B = {T \in SUBSET S :
                      \E z \in T : SumFunctionOnSet(f, T) # f[z] + SumFunctionOnSet(f, T \ {z})}
  OBVIOUS
<1>2. PICK T \in B : \A U \in B : U \subseteq T => U = T
  <2>1. B \subseteq SUBSET S /\ S \in B
    BY <1>1
  <2> QED BY <2>1, SmallestSubset
<1>3. PICK z \in T : SumFunctionOnSet(f, T) # f[z] + SumFunctionOnSet(f, T \ {z})
  BY <1>1
<1>4. T \in SUBSET S /\ IsFiniteSet(T) /\ Summable(f, T)
  BY <1>1, FS_Subset DEF Summable
<1>5. PICK y \in T : \A e : SumFunctionOnSet(e, T) = e[y] + SumFunctionOnSet(e, T \ {y})
  BY <1>3, <1>4, SumTakesOne
<1>6. SumFunctionOnSet(f, T) = f[y] + SumFunctionOnSet(f, T \ {y})
  BY <1>5
<1>7. y # z
  BY <1>3, <1>6
<1>8. T \ {y} \in SUBSET S /\ T \ {y} \notin B /\ T \ {z} \in SUBSET S /\ T \ {z} \notin B
  BY <1>2, <1>4, <1>6
<1>9. /\ SumFunctionOnSet(f, T \ {y}) = f[z] + SumFunctionOnSet(f, (T \ {y}) \ {z})
      /\ SumFunctionOnSet(f, T \ {z}) = f[y] + SumFunctionOnSet(f, (T \ {z}) \ {y})
  BY <1>1, <1>6, <1>7, <1>8
<1>10. PICK U : U = (T \ {y}) \ {z} /\ U = (T \ {z}) \ {y}
  OBVIOUS
<1>11. SumFunctionOnSet(f, U) \in Int /\ f[y] \in Int /\ f[z] \in Int
  <2>1. U \in SUBSET T /\ IsFiniteSet(U) /\ Summable(f, U)
    BY <1>4, <1>10, FS_Subset DEF Summable
  <2> QED BY <1>4, <1>6, <2>1, SumType DEF Summable
<1>12. /\ SumFunctionOnSet(f, T \ {y}) = f[z] + SumFunctionOnSet(f, U)
       /\ SumFunctionOnSet(f, T \ {z}) = f[y] + SumFunctionOnSet(f, U)
  <2>1. U = (T \ {y}) \ {z} /\ U = (T \ {z}) \ {y}
    BY <1>10
  <2> QED BY <1>9, <2>1, Zenon
<1> QED BY <1>3, <1>6, <1>11, <1>12

(* One more element adds its term, whichever one the recursion chooses     *)
(* first.                                                                  *)
LEMMA SumAdd ==
    ASSUME NEW S, IsFiniteSet(S), NEW f, Summable(f, S), NEW x, x \notin S, f[x] \in Int
    PROVE  SumFunctionOnSet(f, S \cup {x}) = SumFunctionOnSet(f, S) + f[x]
<1>1. PICK T : T = S \cup {x}
  OBVIOUS
<1>2. IsFiniteSet(T) /\ Summable(f, T) /\ x \in T /\ T \ {x} = S
  BY <1>1, FS_AddElement DEF Summable
<1>3. SumFunctionOnSet(f, T) = f[x] + SumFunctionOnSet(f, S)
  BY <1>2, SumRemove
<1>4. SumFunctionOnSet(f, S) \in Int
  BY SumType
<1> QED BY <1>1, <1>3, <1>4

(* Only the values on S matter.                                            *)
LEMMA SumSame ==
    ASSUME NEW S, IsFiniteSet(S), NEW f, NEW g, \A x \in S : f[x] = g[x]
    PROVE  SumFunctionOnSet(f, S) = SumFunctionOnSet(g, S)
<1> SUFFICES ASSUME SumFunctionOnSet(f, S) # SumFunctionOnSet(g, S) PROVE FALSE
  OBVIOUS
<1>1. PICK B : B = {T \in SUBSET S : SumFunctionOnSet(f, T) # SumFunctionOnSet(g, T)}
  OBVIOUS
<1>2. PICK T \in B : \A U \in B : U \subseteq T => U = T
  <2>1. B \subseteq SUBSET S /\ S \in B
    BY <1>1
  <2> QED BY <2>1, SmallestSubset
<1>3. T \in SUBSET S /\ IsFiniteSet(T) /\ SumFunctionOnSet(f, T) # SumFunctionOnSet(g, T)
  BY <1>1, FS_Subset
<1>4. T # {}
  BY <1>3, SumEmpty
<1>5. PICK x \in T : \A e : SumFunctionOnSet(e, T) = e[x] + SumFunctionOnSet(e, T \ {x})
  BY <1>3, <1>4, SumTakesOne
<1>6. /\ SumFunctionOnSet(f, T) = f[x] + SumFunctionOnSet(f, T \ {x})
      /\ SumFunctionOnSet(g, T) = g[x] + SumFunctionOnSet(g, T \ {x})
  BY <1>5
<1>7. T \ {x} \in SUBSET S /\ T \ {x} \notin B
  BY <1>2, <1>3, <1>6
<1> QED BY <1>1, <1>3, <1>6, <1>7

(* The sum after the value of x, and no other, has changed.                *)
LEMMA SumChange ==
    ASSUME NEW S, IsFiniteSet(S), NEW f, Summable(f, S), NEW x \in S,
           NEW g, g[x] \in Int, \A y \in S \ {x} : g[y] = f[y]
    PROVE  SumFunctionOnSet(g, S) = SumFunctionOnSet(f, S) - f[x] + g[x]
<1>1. Summable(g, S) /\ Summable(f, S \ {x}) /\ IsFiniteSet(S \ {x})
  BY FS_Subset DEF Summable
<1>2. /\ SumFunctionOnSet(f, S) = f[x] + SumFunctionOnSet(f, S \ {x})
      /\ SumFunctionOnSet(g, S) = g[x] + SumFunctionOnSet(g, S \ {x})
  BY <1>1, SumRemove
<1>3. SumFunctionOnSet(f, S \ {x}) = SumFunctionOnSet(g, S \ {x})
  BY <1>1, SumSame
<1>4. SumFunctionOnSet(f, S \ {x}) \in Int /\ f[x] \in Int
  BY <1>1, SumType DEF Summable
<1> QED BY <1>2, <1>3, <1>4

(* What adds nothing.                                                      *)
LEMMA SumZero ==
    ASSUME NEW S, IsFiniteSet(S), NEW f, \A x \in S : f[x] = 0
    PROVE  SumFunctionOnSet(f, S) = 0
<1>1. PICK G : G = {T \in SUBSET S : SumFunctionOnSet(f, T) = 0}
  OBVIOUS
<1>2. {} \in G
  BY <1>1, SumEmpty
<1>3. ASSUME NEW T \in SUBSET S, NEW x \in S, T \in G, x \notin T PROVE T \cup {x} \in G
  <2>1. IsFiniteSet(T) /\ Summable(f, T) /\ f[x] = 0 /\ SumFunctionOnSet(f, T) = 0
    BY <1>1, <1>3, FS_Subset DEF Summable
  <2>2. SumFunctionOnSet(f, T \cup {x}) = SumFunctionOnSet(f, T) + f[x]
    BY <1>3, <2>1, SumAdd
  <2> QED BY <1>1, <2>1, <2>2
<1>4. S \in G
  BY <1>2, <1>3, FiniteInduction
<1> QED BY <1>1, <1>4

(* The sum over two sets that share nothing.                               *)
LEMMA SumUnion ==
    ASSUME NEW S, IsFiniteSet(S), NEW T, IsFiniteSet(T), S \cap T = {},
           NEW f, Summable(f, S), Summable(f, T)
    PROVE  SumFunctionOnSet(f, S \cup T) = SumFunctionOnSet(f, S) + SumFunctionOnSet(f, T)
<1>1. PICK G : G = {U \in SUBSET T : SumFunctionOnSet(f, S \cup U)
                                        = SumFunctionOnSet(f, S) + SumFunctionOnSet(f, U)}
  OBVIOUS
<1>2. {} \in G
  <2>1. S \cup {} = S /\ SumFunctionOnSet(f, S) \in Int
    BY SumType
  <2> QED BY <1>1, <2>1, SumEmpty
<1>3. ASSUME NEW U \in SUBSET T, NEW x \in T, U \in G, x \notin U PROVE U \cup {x} \in G
  <2>1. IsFiniteSet(U) /\ Summable(f, U) /\ f[x] \in Int
    BY FS_Subset DEF Summable
  <2>2. PICK V : V = S \cup U
    OBVIOUS
  <2>3. IsFiniteSet(V) /\ Summable(f, V) /\ x \notin V /\ V \cup {x} = S \cup (U \cup {x})
    BY <1>3, <2>1, <2>2, FS_Union DEF Summable
  <2>4. SumFunctionOnSet(f, V \cup {x}) = SumFunctionOnSet(f, V) + f[x]
    BY <2>1, <2>3, SumAdd
  <2>5. SumFunctionOnSet(f, U \cup {x}) = SumFunctionOnSet(f, U) + f[x]
    BY <1>3, <2>1, SumAdd
  <2>6. SumFunctionOnSet(f, V) = SumFunctionOnSet(f, S) + SumFunctionOnSet(f, U)
    BY <1>1, <1>3, <2>2
  <2>7. SumFunctionOnSet(f, S) \in Int /\ SumFunctionOnSet(f, U) \in Int
    BY <2>1, SumType
  <2>8. SumFunctionOnSet(f, V \cup {x}) = SumFunctionOnSet(f, S) + SumFunctionOnSet(f, U \cup {x})
    BY <2>1, <2>4, <2>5, <2>6, <2>7
  <2>9. U \cup {x} \in SUBSET T
    OBVIOUS
  <2>10. SumFunctionOnSet(f, S \cup (U \cup {x})) = SumFunctionOnSet(f, S) + SumFunctionOnSet(f, U \cup {x})
    <3>1. V \cup {x} = S \cup (U \cup {x})
      BY <2>2
    <3> QED BY <2>8, <3>1, Zenon
  <2> QED BY <1>1, <2>9, <2>10
<1>4. T \in G
  BY <1>2, <1>3, FiniteInduction
<1> QED BY <1>1, <1>4

(* Naturals add up to a natural, and to no less than a part of them.       *)
LEMMA SumNat ==
    ASSUME NEW S, IsFiniteSet(S), NEW f, \A x \in S : f[x] \in Nat
    PROVE  SumFunctionOnSet(f, S) \in Nat
<1>1. PICK G : G = {T \in SUBSET S : SumFunctionOnSet(f, T) \in Nat}
  OBVIOUS
<1>2. {} \in G
  BY <1>1, SumEmpty
<1>3. ASSUME NEW T \in SUBSET S, NEW x \in S, T \in G, x \notin T PROVE T \cup {x} \in G
  <2>1. IsFiniteSet(T) /\ Summable(f, T) /\ f[x] \in Nat /\ SumFunctionOnSet(f, T) \in Nat
    BY <1>1, <1>3, FS_Subset DEF Summable
  <2>2. SumFunctionOnSet(f, T \cup {x}) = SumFunctionOnSet(f, T) + f[x]
    BY <1>3, <2>1, SumAdd
  <2> QED BY <1>1, <2>1, <2>2
<1>4. S \in G
  BY <1>2, <1>3, FiniteInduction
<1> QED BY <1>1, <1>4

(* A sum over a set is the sum over a part and the sum over the rest.      *)
LEMMA SumSplit ==
    ASSUME NEW S, IsFiniteSet(S), NEW T \in SUBSET S, NEW f, Summable(f, S)
    PROVE  /\ SumFunctionOnSet(f, S) = SumFunctionOnSet(f, T) + SumFunctionOnSet(f, S \ T)
           /\ SumFunctionOnSet(f, T) \in Int /\ SumFunctionOnSet(f, S \ T) \in Int
<1>1. PICK U : U = S \ T
  OBVIOUS
<1>2. IsFiniteSet(T) /\ IsFiniteSet(U) /\ T \cap U = {} /\ T \cup U = S /\ Summable(f, T) /\ Summable(f, U)
  BY <1>1, FS_Subset DEF Summable
<1>3. SumFunctionOnSet(f, T \cup U) = SumFunctionOnSet(f, T) + SumFunctionOnSet(f, U)
  BY <1>2, SumUnion
<1> QED BY <1>1, <1>2, <1>3, SumType

(* Of natural terms, a part has no larger a sum than the whole.            *)
LEMMA SumPart ==
    ASSUME NEW S, IsFiniteSet(S), NEW T \in SUBSET S, NEW f, \A x \in S : f[x] \in Nat
    PROVE  SumFunctionOnSet(f, T) <= SumFunctionOnSet(f, S)
<1>1. SumFunctionOnSet(f, S \ T) \in Nat
  BY FS_Subset, SumNat
<1> QED BY <1>1, SumSplit DEF Summable

(* The sum over an image: each of its elements comes from one of S, whose  *)
(* value h tells.                                                          *)
LEMMA SumImage ==
    ASSUME NEW S, IsFiniteSet(S), NEW g, \A x, y \in S : g[x] = g[y] => x = y,
           NEW f, NEW h, Summable(h, S), \A x \in S : f[g[x]] = h[x]
    PROVE  SumFunctionOnSet(f, {g[x] : x \in S}) = SumFunctionOnSet(h, S)
<1>1. PICK G : G = {T \in SUBSET S : /\ IsFiniteSet({g[x] : x \in T})
                                    /\ SumFunctionOnSet(f, {g[x] : x \in T}) = SumFunctionOnSet(h, T)}
  OBVIOUS
<1>2. {} \in G
  <2>1. {g[x] : x \in {}} = {}
    OBVIOUS
  <2> QED BY <1>1, <2>1, SumEmpty, FS_EmptySet
<1>3. ASSUME NEW T \in SUBSET S, NEW y \in S, T \in G, y \notin T PROVE T \cup {y} \in G
  <2>1. PICK I : I = {g[x] : x \in T}
    OBVIOUS
  <2>2. {g[x] : x \in T \cup {y}} = I \cup {g[y]}
    BY <2>1
  <2>3. IsFiniteSet(I) /\ Summable(f, I) /\ g[y] \notin I /\ f[g[y]] = h[y] /\ h[y] \in Int
        /\ SumFunctionOnSet(f, I) = SumFunctionOnSet(h, T)
    BY <1>1, <1>3, <2>1 DEF Summable
  <2>4. IsFiniteSet(T) /\ Summable(h, T)
    BY FS_Subset DEF Summable
  <2>5. SumFunctionOnSet(f, I \cup {g[y]}) = SumFunctionOnSet(f, I) + f[g[y]]
    BY <2>3, SumAdd
  <2>6. SumFunctionOnSet(h, T \cup {y}) = SumFunctionOnSet(h, T) + h[y]
    BY <1>3, <2>3, <2>4, SumAdd
  <2>7. IsFiniteSet(I \cup {g[y]})
    BY <2>3, FS_AddElement
  <2> QED BY <1>1, <2>2, <2>3, <2>5, <2>6, <2>7
<1>4. S \in G
  BY <1>2, <1>3, FiniteInduction
<1> QED BY <1>1, <1>4

(* The sum of the negated terms.                                           *)
LEMMA SumNegated ==
    ASSUME NEW S, IsFiniteSet(S), NEW f, Summable(f, S), NEW g, \A x \in S : g[x] = -f[x]
    PROVE  SumFunctionOnSet(g, S) = -SumFunctionOnSet(f, S)
<1>1. PICK G : G = {T \in SUBSET S : SumFunctionOnSet(g, T) = -SumFunctionOnSet(f, T)}
  OBVIOUS
<1>2. {} \in G
  BY <1>1, SumEmpty
<1>3. ASSUME NEW T \in SUBSET S, NEW x \in S, T \in G, x \notin T PROVE T \cup {x} \in G
  <2>1. IsFiniteSet(T) /\ Summable(f, T) /\ Summable(g, T) /\ f[x] \in Int /\ g[x] = -f[x]
        /\ SumFunctionOnSet(g, T) = -SumFunctionOnSet(f, T)
    BY <1>1, <1>3, FS_Subset DEF Summable
  <2>2. SumFunctionOnSet(f, T \cup {x}) = SumFunctionOnSet(f, T) + f[x]
    BY <1>3, <2>1, SumAdd
  <2>3. SumFunctionOnSet(g, T \cup {x}) = SumFunctionOnSet(g, T) + g[x]
    BY <1>3, <2>1, SumAdd
  <2> QED BY <1>1, <2>1, <2>2, <2>3, SumType
<1>4. S \in G
  BY <1>2, <1>3, FiniteInduction
<1> QED BY <1>1, <1>4

(* Where g is at least f, so is its sum.                                   *)
LEMMA SumMonotone ==
    ASSUME NEW S, IsFiniteSet(S), NEW f, Summable(f, S), NEW g, Summable(g, S),
           \A x \in S : f[x] <= g[x]
    PROVE  SumFunctionOnSet(f, S) <= SumFunctionOnSet(g, S)
<1>1. PICK G : G = {T \in SUBSET S : SumFunctionOnSet(f, T) <= SumFunctionOnSet(g, T)}
  OBVIOUS
<1>2. {} \in G
  BY <1>1, SumEmpty
<1>3. ASSUME NEW T \in SUBSET S, NEW x \in S, T \in G, x \notin T PROVE T \cup {x} \in G
  <2>1. IsFiniteSet(T) /\ Summable(f, T) /\ Summable(g, T) /\ f[x] \in Int /\ g[x] \in Int
        /\ f[x] <= g[x] /\ SumFunctionOnSet(f, T) <= SumFunctionOnSet(g, T)
    BY <1>1, <1>3, FS_Subset DEF Summable
  <2>2. SumFunctionOnSet(f, T \cup {x}) = SumFunctionOnSet(f, T) + f[x]
    BY <1>3, <2>1, SumAdd
  <2>3. SumFunctionOnSet(g, T \cup {x}) = SumFunctionOnSet(g, T) + g[x]
    BY <1>3, <2>1, SumAdd
  <2>4. SumFunctionOnSet(f, T) \in Int /\ SumFunctionOnSet(g, T) \in Int
    BY <2>1, SumType
  <2> QED BY <1>1, <2>1, <2>2, <2>3, <2>4
<1>4. S \in G
  BY <1>2, <1>3, FiniteInduction
<1> QED BY <1>1, <1>4

(* The sum over a part of S is the sum over S of what is 0 outside it.     *)
LEMMA SumFilter ==
    ASSUME NEW S, IsFiniteSet(S), NEW T \in SUBSET S, NEW f, Summable(f, T),
           NEW g, \A x \in T : g[x] = f[x], \A x \in S \ T : g[x] = 0
    PROVE  SumFunctionOnSet(g, S) = SumFunctionOnSet(f, T)
<1>1. Summable(g, S) /\ IsFiniteSet(T) /\ IsFiniteSet(S \ T)
  BY FS_Subset DEF Summable
<1>2. /\ SumFunctionOnSet(g, S) = SumFunctionOnSet(g, T) + SumFunctionOnSet(g, S \ T)
      /\ SumFunctionOnSet(g, T) \in Int
  BY <1>1, SumSplit
<1>3. SumFunctionOnSet(g, S \ T) = 0
  BY <1>1, SumZero
<1>4. SumFunctionOnSet(g, T) = SumFunctionOnSet(f, T)
  BY <1>1, SumSame
<1> QED BY <1>2, <1>3, <1>4

(* A sum written as a function on the set it is over.                      *)
LEMMA SumWritten ==
    ASSUME NEW S, IsFiniteSet(S), NEW T \in SUBSET S,
           NEW f, DOMAIN f = T, Summable(f, T),
           NEW g, \A x \in T : g[x] = f[x], \A x \in S \ T : g[x] = 0
    PROVE  SumFunction(f) = SumFunctionOnSet(g, S)
BY SumFilter DEF SumFunction

(* The sum after the values on T have become 0.                            *)
LEMMA SumDrop ==
    ASSUME NEW S, IsFiniteSet(S), NEW T \in SUBSET S, NEW f, Summable(f, S),
           NEW g, \A x \in T : g[x] = 0, \A x \in S \ T : g[x] = f[x]
    PROVE  SumFunctionOnSet(g, S) = SumFunctionOnSet(f, S) - SumFunctionOnSet(f, T)
<1>1. PICK U : U = S \ T
  OBVIOUS
<1>2. IsFiniteSet(U) /\ U \in SUBSET S /\ Summable(f, U) /\ S \ U = T
  BY <1>1, FS_Subset DEF Summable
<1>3. SumFunctionOnSet(g, S) = SumFunctionOnSet(f, U)
  <2>1. (\A x \in U : g[x] = f[x]) /\ \A x \in S \ U : g[x] = 0
    BY <1>1
  <2> QED BY <1>2, <2>1, SumFilter
<1>4. /\ SumFunctionOnSet(f, S) = SumFunctionOnSet(f, T) + SumFunctionOnSet(f, U)
      /\ SumFunctionOnSet(f, T) \in Int /\ SumFunctionOnSet(f, U) \in Int
  BY <1>1, SumSplit
<1> QED BY <1>3, <1>4

(* A finite set has finitely many images.                                  *)
LEMMA ImageFinite ==
    ASSUME NEW S, IsFiniteSet(S), NEW g
    PROVE  IsFiniteSet({g[x] : x \in S})
<1>1. PICK G : G = {T \in SUBSET S : IsFiniteSet({g[x] : x \in T})}
  OBVIOUS
<1>2. {} \in G
  <2>1. {g[x] : x \in {}} = {}
    OBVIOUS
  <2> QED BY <1>1, <2>1, FS_EmptySet
<1>3. ASSUME NEW T \in SUBSET S, NEW y \in S, T \in G, y \notin T PROVE T \cup {y} \in G
  <2>1. {g[x] : x \in T \cup {y}} = {g[x] : x \in T} \cup {g[y]}
    OBVIOUS
  <2>2. IsFiniteSet({g[x] : x \in T})
    BY <1>1, <1>3
  <2>3. IsFiniteSet({g[x] : x \in T \cup {y}})
    <3>1. IsFiniteSet({g[x] : x \in T} \cup {g[y]})
      BY <2>2, FS_AddElement
    <3> QED BY <2>1, <3>1
  <2> QED BY <1>1, <2>3
<1>4. S \in G
  BY <1>2, <1>3, FiniteInduction
<1> QED BY <1>1, <1>4

(* A set of naturals has a least element.                                  *)
LEMMA MinIs ==
    ASSUME NEW S \in SUBSET Nat, S # {}
    PROVE  Min(S) \in S /\ \A y \in S : Min(S) <= y
<1>1. PICK R : R = OpToRel(<, Nat)
  OBVIOUS
<1>2. IsWellFoundedOn(R, Nat)
  BY <1>1, NatLessThanWellFounded
<1>3. PICK m \in S : \A y \in S : <<y, m>> \notin R
  BY <1>2, WFMin
<1>4. \A y \in Nat : y < m => y \notin S
  BY <1>1, <1>3 DEF OpToRel
<1>5. \A y \in S : m <= y
  BY <1>3, <1>4
<1> QED BY <1>3, <1>5 DEF Min

-------------------------------------------------------------------------------
(* The sums that books are judged by.                                      *)

LiveStates == {"pending", "awaiting_bar"}
FillKinds == {"buy_fill", "sell_fill"}
OrderKinds == {"reserve", "release", "settlement"} \cup FillKinds
ActionKinds == {"split", "dividend_accrual", "dividend_payment"}
Columns == {"available", "reserved", "unsettled", "dividends"}
Moments == 0 .. CloseAt(Last) + 1

(* The terms of the sums over the ledger: an amount, and the shares of     *)
(* instrument i.                                                           *)
DeltaOf(f) == [e \in LedgerRows |-> e.delta[f]]
QuantityOf(e, i) == IF e.instrument = i THEN e.quantity ELSE 0
QuantityIn(i) == [e \in LedgerRows |-> QuantityOf(e, i)]

(* The rows that count as the events of time t begin: the splits come      *)
(* before the fills.                                                       *)
ComesBefore(e, i, t) == e.instrument = i /\ (e.at < t \/ (e.at = t /\ e.kind = "split"))
OpeningOf(e, i, t) == IF ComesBefore(e, i, t) THEN e.quantity ELSE 0
QuantityBefore(i, t) == [e \in LedgerRows |-> OpeningOf(e, i, t)]

ColumnSum(f, ledger) == SumFunctionOnSet(DeltaOf(f), ledger)
QuantitySum(i, ledger) == SumFunctionOnSet(QuantityIn(i), ledger)
OpeningSum(i, t, ledger) == SumFunctionOnSet(QuantityBefore(i, t), ledger)

(* The terms of the sums over the orders: reserved cash, reserved shares   *)
(* of i, and those of the orders that opened before t.                     *)
CashOf(orders) == [o \in OrderIds |-> orders[o].cash]
SharesOf(order, i) == IF order.instrument = i THEN order.shares ELSE 0
SharesIn(orders, i) == [o \in OrderIds |-> SharesOf(orders[o], i)]
OpensBefore(order, i, t) == order.instrument = i /\ OpenAt(order.session) < t
OpenedOf(order, i, t) == IF OpensBefore(order, i, t) THEN order.shares ELSE 0
SharesBefore(orders, i, t) == [o \in OrderIds |-> OpenedOf(orders[o], i, t)]

CashSum(orders) == SumFunctionOnSet(CashOf(orders), OrderIds)
SharesSum(orders, i) == SumFunctionOnSet(SharesIn(orders, i), OrderIds)
OpenedSum(orders, i, t) == SumFunctionOnSet(SharesBefore(orders, i, t), OrderIds)

(* The accruals that have not been paid.                                   *)
Owed(b) ==
    {e \in b.ledger : /\ e.kind = "dividend_accrual"
                      /\ ~\E r \in b.ledger : r.kind = "dividend_payment" /\ r.of = e.of}

-------------------------------------------------------------------------------
(* Only a live order has something reserved.                               *)
OrderFine(order) ==
    /\ order.state \notin LiveStates => order.cash = 0 /\ order.shares = 0
    /\ order.state \in LiveStates => order.instrument \in Instruments
    /\ order.side = "buy" => order.shares = 0
    /\ order.side = "sell" => order.cash = 0

(* A row of the ledger belongs to an order or an action in the state the   *)
(* row tells of.                                                           *)
RowFine(b, e) ==
    /\ e.kind = "initial_credit" => e.of = None
    /\ e.kind \in OrderKinds =>
          e.of \in OrderIds /\ b.orders[e.of].state # "none" /\ e.instrument = b.orders[e.of].instrument
    /\ e.kind = "release" => b.orders[e.of].state \in {"expired", "rejected", "cancelled"}
    /\ e.kind \in FillKinds \cup {"settlement"} =>
          b.orders[e.of].state \in {"filled", "partially_filled_cancelled"}
    /\ e.kind \in FillKinds => e.at = OpenAt(b.orders[e.of].session)
    /\ e.kind = "sell_fill" => e.delta.unsettled >= 0
    /\ e.kind \in ActionKinds =>
          e.of \in Actions /\ e.instrument = Security[e.of] /\ Recorded(b, e.of)
    /\ e.kind = "split" => e.at = EffectiveAt[e.of]
    /\ e.kind = "dividend_accrual" => Kind[e.of] = "dividend" /\ e.delta.dividends >= 0
    /\ e.kind \notin FillKinds \cup {"split"} => e.quantity = 0

(* A kind of row is recorded once of each order or action.                 *)
KeysApart(b) == \A e, r \in b.ledger : e.kind = r.kind /\ e.of = r.of => e = r
Accrued(b) ==
    \A a \in Actions : Recorded(b, a) /\ Kind[a] = "dividend" =>
        \E e \in b.ledger : e.kind = "dividend_accrual" /\ e.of = a

(* Everything about the books but the amounts.                             *)
BookTypes(b) ==
    /\ b \in Books /\ IsFiniteSet(b.ledger)
    /\ \A o \in OrderIds : OrderFine(b.orders[o])
    /\ \A e \in b.ledger : RowFine(b, e)
    /\ KeysApart(b) /\ Accrued(b)

(* The balances and holdings are what the ledger adds up to.               *)
Balanced(b) ==
    /\ \A f \in Columns : b.balances[f] = ColumnSum(f, b.ledger)
    /\ \A i \in Instruments : b.positions[i].quantity = QuantitySum(i, b.ledger)

(* What is reserved or owed is what orders, sales and accruals account for. *)
Backed(b) ==
    /\ b.balances.reserved = CashSum(b.orders)
    /\ \A i \in Instruments : b.positions[i].reserved = SharesSum(b.orders, i)
    /\ b.balances.unsettled = ColumnSum("unsettled", Unsettled(b))
    /\ b.balances.dividends = ColumnSum("dividends", Owed(b))
    /\ \A i \in Instruments : b.positions[i].quantity = 0 => b.positions[i].cost = 0

(* However late a fill or a split is recorded: of the shares held as the   *)
(* events of a time begin, the orders that opened before have reserved no  *)
(* more than are there.                                                    *)
Covered(b) ==
    \A i \in Instruments, t \in Moments : OpenedSum(b.orders, i, t) <= OpeningSum(i, t, b.ledger)

BookInv(b) == BookTypes(b) /\ Balanced(b) /\ Backed(b) /\ Covered(b)

-------------------------------------------------------------------------------
(* Sums over the ledger.                                                   *)

(* The terms of a ledger row are integers.                                 *)
LEMMA RowTerms ==
    ASSUME NEW e \in LedgerRows
    PROVE  /\ \A f \in Columns : DeltaOf(f)[e] = e.delta[f] /\ DeltaOf(f)[e] \in Int
           /\ \A i : /\ QuantityIn(i)[e] = QuantityOf(e, i)
                    /\ QuantityIn(i)[e] \in Int
           /\ \A i, t : /\ QuantityBefore(i, t)[e] = OpeningOf(e, i, t)
                       /\ QuantityBefore(i, t)[e] \in Int
<1>1. e.quantity \in Int /\ \A f \in Columns : e.delta[f] \in Int
  BY DEF LedgerRows, Columns
<1> QED BY <1>1 DEF DeltaOf, QuantityIn, QuantityBefore, QuantityOf, OpeningOf

(* So that the sums over a ledger are.                                     *)
LEMMA LedgerSummable ==
    ASSUME NEW L \in SUBSET LedgerRows, IsFiniteSet(L)
    PROVE  /\ \A f \in Columns : Summable(DeltaOf(f), L) /\ ColumnSum(f, L) \in Int
           /\ \A i : Summable(QuantityIn(i), L) /\ QuantitySum(i, L) \in Int
           /\ \A i, t : Summable(QuantityBefore(i, t), L) /\ OpeningSum(i, t, L) \in Int
<1>1. /\ \A f \in Columns : Summable(DeltaOf(f), L)
      /\ \A i : Summable(QuantityIn(i), L)
      /\ \A i, t : Summable(QuantityBefore(i, t), L)
  BY RowTerms DEF Summable
<1> QED BY <1>1, SumType DEF ColumnSum, QuantitySum, OpeningSum

(* A new row adds its own terms to the sums.                               *)
LEMMA RowAdds ==
    ASSUME NEW L \in SUBSET LedgerRows, IsFiniteSet(L), NEW e \in LedgerRows, e \notin L
    PROVE  /\ \A f \in Columns : ColumnSum(f, L \cup {e}) = ColumnSum(f, L) + e.delta[f]
           /\ \A i : QuantitySum(i, L \cup {e})
                       = QuantitySum(i, L) + QuantityOf(e, i)
           /\ \A i, t : OpeningSum(i, t, L \cup {e})
                          = OpeningSum(i, t, L) + OpeningOf(e, i, t)
<1>1. ASSUME NEW f \in Columns PROVE ColumnSum(f, L \cup {e}) = ColumnSum(f, L) + e.delta[f]
  <2>1. Summable(DeltaOf(f), L) /\ DeltaOf(f)[e] = e.delta[f] /\ DeltaOf(f)[e] \in Int
    BY RowTerms, LedgerSummable
  <2> QED BY <2>1, SumAdd DEF ColumnSum
<1>2. ASSUME NEW i
      PROVE  QuantitySum(i, L \cup {e}) = QuantitySum(i, L) + QuantityOf(e, i)
  <2>1. Summable(QuantityIn(i), L) /\ QuantityIn(i)[e] = QuantityOf(e, i)
        /\ QuantityIn(i)[e] \in Int
    BY RowTerms, LedgerSummable
  <2> QED BY <2>1, SumAdd DEF QuantitySum
<1>3. ASSUME NEW i, NEW t
      PROVE  OpeningSum(i, t, L \cup {e}) = OpeningSum(i, t, L) + OpeningOf(e, i, t)
  <2>1. Summable(QuantityBefore(i, t), L) /\ QuantityBefore(i, t)[e] \in Int
        /\ QuantityBefore(i, t)[e] = OpeningOf(e, i, t)
    BY RowTerms, LedgerSummable
  <2> QED BY <2>1, SumAdd DEF OpeningSum
<1> QED BY <1>1, <1>2, <1>3

(* Rows without shares change no holding.                                  *)
SameShares(L, M) ==
    /\ \A i : QuantitySum(i, M) = QuantitySum(i, L)
    /\ \A i, t : OpeningSum(i, t, M) = OpeningSum(i, t, L)

(* New rows without shares add to the amounts only.                        *)
LEMMA RowsWithoutShares ==
    ASSUME NEW L \in SUBSET LedgerRows, IsFiniteSet(L),
           NEW N \in SUBSET LedgerRows, IsFiniteSet(N), L \cap N = {}, \A e \in N : e.quantity = 0
    PROVE  /\ \A f \in Columns : ColumnSum(f, L \cup N) = ColumnSum(f, L) + ColumnSum(f, N)
           /\ SameShares(L, L \cup N)
<1>1. ASSUME NEW f \in Columns PROVE ColumnSum(f, L \cup N) = ColumnSum(f, L) + ColumnSum(f, N)
  <2>1. Summable(DeltaOf(f), L) /\ Summable(DeltaOf(f), N)
    BY LedgerSummable
  <2> QED BY <2>1, SumUnion DEF ColumnSum
<1>2. ASSUME NEW i PROVE QuantitySum(i, L \cup N) = QuantitySum(i, L)
  <2>1. Summable(QuantityIn(i), L) /\ Summable(QuantityIn(i), N) /\ QuantitySum(i, L) \in Int
        /\ \A e \in N : QuantityIn(i)[e] = 0
    BY RowTerms, LedgerSummable DEF QuantityOf
  <2>2. SumFunctionOnSet(QuantityIn(i), N) = 0
    BY <2>1, SumZero
  <2> QED BY <2>1, <2>2, SumUnion DEF QuantitySum
<1>3. ASSUME NEW i, NEW t PROVE OpeningSum(i, t, L \cup N) = OpeningSum(i, t, L)
  <2>1. Summable(QuantityBefore(i, t), L) /\ Summable(QuantityBefore(i, t), N)
        /\ OpeningSum(i, t, L) \in Int /\ \A e \in N : QuantityBefore(i, t)[e] = 0
    BY RowTerms, LedgerSummable DEF OpeningOf
  <2>2. SumFunctionOnSet(QuantityBefore(i, t), N) = 0
    BY <2>1, SumZero
  <2> QED BY <2>1, <2>2, SumUnion DEF OpeningSum
<1> QED BY <1>1, <1>2, <1>3 DEF SameShares

(* The same for one row.                                                   *)
LEMMA RowWithoutShares ==
    ASSUME NEW L \in SUBSET LedgerRows, IsFiniteSet(L), NEW e \in LedgerRows, e \notin L,
           e.quantity = 0
    PROVE  /\ \A f \in Columns : ColumnSum(f, L \cup {e}) = ColumnSum(f, L) + e.delta[f]
           /\ SameShares(L, L \cup {e})
<1>1. \A f \in Columns : ColumnSum(f, L \cup {e}) = ColumnSum(f, L) + e.delta[f]
  BY RowAdds
<1>2. IsFiniteSet({e}) /\ {e} \in SUBSET LedgerRows /\ L \cap {e} = {} /\ \A r \in {e} : r.quantity = 0
  BY FS_Singleton
<1>3. SameShares(L, L \cup {e})
  BY <1>2, RowsWithoutShares
<1> QED BY <1>1, <1>3

-------------------------------------------------------------------------------
(* Sums over the orders.                                                   *)

(* The terms of the orders are naturals.                                   *)
LEMMA OrderTerms ==
    ASSUME NEW orders \in [OrderIds -> OrderRows]
    PROVE  /\ \A o \in OrderIds : CashOf(orders)[o] = orders[o].cash /\ CashOf(orders)[o] \in Nat
           /\ \A i : \A o \in OrderIds :
                 /\ SharesIn(orders, i)[o] = SharesOf(orders[o], i)
                 /\ SharesIn(orders, i)[o] \in Nat
           /\ \A i, t : \A o \in OrderIds :
                 /\ SharesBefore(orders, i, t)[o]
                      = OpenedOf(orders[o], i, t)
                 /\ SharesBefore(orders, i, t)[o] \in Nat
           /\ Summable(CashOf(orders), OrderIds)
           /\ \A i : Summable(SharesIn(orders, i), OrderIds)
           /\ \A i, t : Summable(SharesBefore(orders, i, t), OrderIds)
<1>1. \A o \in OrderIds : orders[o].cash \in Nat /\ orders[o].shares \in Nat
  BY DEF OrderRows
<1> QED BY <1>1 DEF CashOf, SharesIn, SharesBefore, SharesOf, OpenedOf, Summable

(* So are the sums over the orders.                                        *)
LEMMA OrderSums ==
    ASSUME NEW orders \in [OrderIds -> OrderRows]
    PROVE  /\ CashSum(orders) \in Nat
           /\ \A i : SharesSum(orders, i) \in Nat
           /\ \A i, t : OpenedSum(orders, i, t) \in Nat
BY OrderTerms, SumNat, BookAssumption DEF CashSum, SharesSum, OpenedSum

(* One order changes.                                                      *)
Updated(orders, new, o, order) == new = [orders EXCEPT ![o] = order]

(* A change of one order changes the sums by the difference of its terms.  *)
LEMMA OrderChanges ==
    ASSUME NEW orders \in [OrderIds -> OrderRows], NEW o \in OrderIds, NEW order \in OrderRows,
           NEW new, Updated(orders, new, o, order)
    PROVE  /\ CashSum(new) = CashSum(orders) - orders[o].cash + order.cash
           /\ \A i : SharesSum(new, i) = SharesSum(orders, i)
                         - SharesOf(orders[o], i)
                         + SharesOf(order, i)
           /\ \A i, t : OpenedSum(new, i, t) = OpenedSum(orders, i, t)
                            - OpenedOf(orders[o], i, t)
                            + OpenedOf(order, i, t)
<1>1. new \in [OrderIds -> OrderRows] /\ new[o] = order /\ \A r \in OrderIds \ {o} : new[r] = orders[r]
  BY DEF Updated
<1>0. IsFiniteSet(OrderIds)
  BY BookAssumption
<1>2. CashSum(new) = CashSum(orders) - orders[o].cash + order.cash
  <2>0. PICK f, g : f = CashOf(orders) /\ g = CashOf(new)
    OBVIOUS
  <2>1. /\ g[o] = order.cash /\ f[o] = orders[o].cash
        /\ g[o] \in Int /\ Summable(f, OrderIds)
        /\ \A r \in OrderIds \ {o} : g[r] = f[r]
    BY <1>1, <2>0 DEF CashOf, Summable, OrderRows
  <2>2. SumFunctionOnSet(g, OrderIds) = SumFunctionOnSet(f, OrderIds) - f[o] + g[o]
    BY <1>0, <2>1, SumChange
  <2> QED BY <2>0, <2>1, <2>2 DEF CashSum
<1>3. ASSUME NEW i
      PROVE  SharesSum(new, i) = SharesSum(orders, i)
                 - SharesOf(orders[o], i)
                 + SharesOf(order, i)
  <2>0. PICK f, g : f = SharesIn(orders, i) /\ g = SharesIn(new, i)
    OBVIOUS
  <2>1. /\ g[o] = SharesOf(order, i)
        /\ f[o] = SharesOf(orders[o], i)
        /\ g[o] \in Int /\ Summable(f, OrderIds)
        /\ \A r \in OrderIds \ {o} : g[r] = f[r]
    BY <1>1, <2>0 DEF SharesIn, SharesOf, Summable, OrderRows
  <2>2. SumFunctionOnSet(g, OrderIds) = SumFunctionOnSet(f, OrderIds) - f[o] + g[o]
    BY <1>0, <2>1, SumChange
  <2> QED BY <2>0, <2>1, <2>2 DEF SharesSum
<1>4. ASSUME NEW i, NEW t
      PROVE  OpenedSum(new, i, t) = OpenedSum(orders, i, t)
                 - OpenedOf(orders[o], i, t)
                 + OpenedOf(order, i, t)
  <2>0. PICK f, g : f = SharesBefore(orders, i, t) /\ g = SharesBefore(new, i, t)
    OBVIOUS
  <2>1. /\ g[o] = OpenedOf(order, i, t)
        /\ f[o] = OpenedOf(orders[o], i, t)
        /\ g[o] \in Int /\ Summable(f, OrderIds)
        /\ \A r \in OrderIds \ {o} : g[r] = f[r]
    BY <1>1, <2>0 DEF SharesBefore, OpenedOf, Summable, OrderRows
  <2>2. SumFunctionOnSet(g, OrderIds) = SumFunctionOnSet(f, OrderIds) - f[o] + g[o]
    BY <1>0, <2>1, SumChange
  <2> QED BY <2>0, <2>1, <2>2 DEF OpenedSum
<1> QED BY <1>2, <1>3, <1>4
-------------------------------------------------------------------------------
(* Money and rows.                                                         *)

(* What a row's delta does to the balances, field by field.                *)
LEMMA PlusIs ==
    ASSUME NEW b \in Balances, NEW x \in Int, NEW y \in Int, NEW z \in Int, NEW w \in Int
    PROVE  Plus(b, Delta(x, y, z, w)) = [available |-> b.available + x, reserved |-> b.reserved + y,
                                         unsettled |-> b.unsettled + z, dividends |-> b.dividends + w]
BY DEF Balances, Plus, Delta

(* The balances n are m after a change of the four amounts.                *)
Gains(m, n, x, y, z, w) == n = Plus(m, Delta(x, y, z, w))

(* The same, each amount on its own; balances that stay at or above zero   *)
(* stay balances.                                                          *)
LEMMA GainsFields ==
    ASSUME NEW m \in Balances, NEW x \in Int, NEW y \in Int, NEW z \in Int, NEW w \in Int,
           NEW n, Gains(m, n, x, y, z, w)
    PROVE  /\ n["available"] = m["available"] + x /\ n["reserved"] = m["reserved"] + y
           /\ n["unsettled"] = m["unsettled"] + z /\ n["dividends"] = m["dividends"] + w
           /\ (\A f \in Columns : n[f] >= 0) => n \in Balances
<1>1. n = [available |-> m.available + x, reserved |-> m.reserved + y,
           unsettled |-> m.unsettled + z, dividends |-> m.dividends + w]
  <2>1. Plus(m, Delta(x, y, z, w))
          = [available |-> m.available + x, reserved |-> m.reserved + y,
             unsettled |-> m.unsettled + z, dividends |-> m.dividends + w]
    BY PlusIs
  <2> QED BY <2>1, Zenon DEF Gains
<1>2. m.available \in Nat /\ m.reserved \in Nat /\ m.unsettled \in Nat /\ m.dividends \in Nat
  BY DEF Balances
<1> QED BY <1>1, <1>2 DEF Balances, Columns

(* A cost is a natural, and a fee at least 1 (TradeFee rounds up from a    *)
(* minimum).                                                               *)
LEMMA MoneyTypes ==
    /\ \A num \in Nat, den \in Nat \ {0} : Rounded(num, den) \in Nat
    /\ \A p, q \in Nat : /\ GrossValue(p, q) \in Nat /\ TradeFee(GrossValue(p, q)) \in Nat \ {0}
                         /\ PurchaseCost(p, q) = GrossValue(p, q) + TradeFee(GrossValue(p, q))
<1>1. ASSUME NEW num \in Nat, NEW den \in Nat \ {0} PROVE Rounded(num, den) \in Nat
  BY DEF Rounded
<1>2. ASSUME NEW p \in Nat, NEW q \in Nat
      PROVE  /\ GrossValue(p, q) \in Nat /\ TradeFee(GrossValue(p, q)) \in Nat \ {0}
             /\ PurchaseCost(p, q) = GrossValue(p, q) + TradeFee(GrossValue(p, q))
  <2>1. GrossValue(p, q) \in Nat
    BY DEF GrossValue
  <2>2. ASSUME NEW g \in Nat PROVE TradeFee(g) \in Nat \ {0}
    BY DEF TradeFee
  <2> QED BY <2>1, <2>2 DEF PurchaseCost
<1> QED BY <1>1, <1>2

(* The kinds of LedgerRows.                                                *)
RowKinds == {"initial_credit", "reserve", "buy_fill", "sell_fill", "release",
             "settlement", "split", "dividend_accrual", "dividend_payment"}

(* A row built from its parts is a ledger row with those parts.            *)
LEMMA RowIs ==
    ASSUME NEW kind \in RowKinds, NEW of \in OrderIds \cup Actions \cup {None},
           NEW x \in Int, NEW y \in Int, NEW z \in Int, NEW w \in Int,
           NEW i \in Instruments \cup {None}, NEW q \in Int, NEW t \in Times,
           NEW e, e = Row(kind, of, Delta(x, y, z, w), i, q, t)
    PROVE  /\ e \in LedgerRows /\ e.kind = kind /\ e.of = of /\ e.instrument = i
           /\ e.quantity = q /\ e.at = t
           /\ e.delta["available"] = x /\ e.delta["reserved"] = y
           /\ e.delta["unsettled"] = z /\ e.delta["dividends"] = w
BY DEF Row, Delta, LedgerRows, RowKinds

-------------------------------------------------------------------------------
(* The books of a new account.                                             *)
LEMMA NewBooksFine ==
    ASSUME NEW b, b = NewBooks
    PROVE  BookInv(b)
<1>1. PICK e : e = Row("initial_credit", None, Delta(InitialCash, 0, 0, 0), None, 0, 0)
  OBVIOUS
<1>2. /\ e \in LedgerRows /\ e.kind = "initial_credit" /\ e.of = None /\ e.instrument = None
      /\ e.quantity = 0 /\ e.delta["available"] = InitialCash /\ e.delta["reserved"] = 0
      /\ e.delta["unsettled"] = 0 /\ e.delta["dividends"] = 0
  <2>1. 0 \in Times /\ InitialCash \in Int
    BY BookAssumption DEF Times, CloseAt
  <2> QED BY <1>1, <2>1 DEF Row, Delta, LedgerRows
<1>3. /\ b.ledger = {e} /\ b.balances = Delta(InitialCash, 0, 0, 0)
      /\ b.positions = [i \in Instruments |-> NoPosition] /\ b.orders = [o \in OrderIds |-> NoOrder]
      /\ b.recorded = [a \in Actions |-> "none"] /\ b.splits = [a \in Actions |-> {}]
  BY <1>1 DEF NewBooks
<1>4. NoOrder \in OrderRows /\ OrderFine(NoOrder) /\ NoOrder.cash = 0 /\ NoOrder.shares = 0
  BY BookAssumption DEF NoOrder, OrderRows, OrderStates, Sessions, OrderFine, LiveStates
<1>5. BookTypes(b)
  <2>1. b \in Books
    <3>1. b.balances \in Balances /\ b.positions \in Positions
      BY <1>3, BookAssumption DEF Balances, Delta, Positions, NoPosition
    <3>2. b.orders \in [OrderIds -> OrderRows] /\ b.ledger \in SUBSET LedgerRows
      BY <1>2, <1>3, <1>4
    <3>3. b.recorded \in [Actions -> Editions] /\ b.splits \in [Actions -> SUBSET Actions]
      BY <1>3 DEF Editions
    <3>4. b = [balances |-> b.balances, positions |-> b.positions, orders |-> b.orders,
               ledger |-> b.ledger, recorded |-> b.recorded, splits |-> b.splits]
      BY DEF NewBooks
    <3> QED BY <3>1, <3>2, <3>3, <3>4 DEF Books
  <2>2. IsFiniteSet(b.ledger)
    <3>1. IsFiniteSet({e})
      BY FS_Singleton
    <3> QED BY <1>3, <3>1
  <2>3. RowFine(b, e)
    BY <1>2 DEF RowFine, OrderKinds, FillKinds, ActionKinds
  <2>4. KeysApart(b) /\ Accrued(b)
    BY <1>3 DEF KeysApart, Accrued, Recorded
  <2> QED BY <1>3, <1>4, <2>1, <2>2, <2>3, <2>4 DEF BookTypes
<1>6. Balanced(b)
  <2>1. /\ \A f \in Columns : ColumnSum(f, {e}) = e.delta[f]
        /\ \A i : QuantitySum(i, {e}) = 0
    <3>1. PICK L : L = {}
      OBVIOUS
    <3>2. /\ L \in SUBSET LedgerRows /\ IsFiniteSet(L) /\ e \notin L /\ L \cup {e} = {e}
          /\ \A f : ColumnSum(f, L) = 0
          /\ \A i : QuantitySum(i, L) = 0
      BY <3>1, FS_EmptySet, SumEmpty DEF ColumnSum, QuantitySum
    <3>3. /\ \A f \in Columns : ColumnSum(f, L \cup {e}) = ColumnSum(f, L) + e.delta[f]
          /\ SameShares(L, L \cup {e})
      BY <1>2, <3>2, RowWithoutShares
    <3>4. \A f \in Columns : e.delta[f] \in Int
      BY <1>2 DEF LedgerRows, Columns
    <3>5. ASSUME NEW f \in Columns PROVE ColumnSum(f, {e}) = e.delta[f]
      <4>1. ColumnSum(f, {e}) = 0 + e.delta[f]
        BY <3>2, <3>3
      <4> QED BY <3>4, <4>1
    <3>6. \A i : QuantitySum(i, {e}) = 0
      BY <3>2, <3>3 DEF SameShares
    <3> QED BY <3>5, <3>6
  <2>2. \A f \in Columns : b.balances[f] = e.delta[f]
    <3>1. /\ b.balances["available"] = InitialCash /\ b.balances["reserved"] = 0
          /\ b.balances["unsettled"] = 0 /\ b.balances["dividends"] = 0
      BY <1>3 DEF Delta
    <3> QED BY <1>2, <3>1 DEF Columns
  <2>3. \A f \in Columns : b.balances[f] = ColumnSum(f, b.ledger)
    BY <1>3, <2>1, <2>2
  <2>4. \A i \in Instruments : b.positions[i].quantity = QuantitySum(i, b.ledger)
    BY <1>3, <2>1 DEF NoPosition
  <2> QED BY <2>3, <2>4 DEF Balanced
<1>7. /\ CashSum(b.orders) = 0
      /\ \A i : SharesSum(b.orders, i) = 0
      /\ \A i, t : OpenedSum(b.orders, i, t) = 0
  <2>1. /\ \A o \in OrderIds : CashOf(b.orders)[o] = 0
        /\ \A i : \A o \in OrderIds : SharesIn(b.orders, i)[o] = 0
        /\ \A i, t : \A o \in OrderIds : SharesBefore(b.orders, i, t)[o] = 0
    BY <1>3, <1>4 DEF CashOf, SharesIn, SharesBefore, SharesOf, OpenedOf
  <2> QED BY <2>1, SumZero, BookAssumption DEF CashSum, SharesSum, OpenedSum
<1>8. Backed(b)
  <2>1. Unsettled(b) = {} /\ Owed(b) = {}
    BY <1>2, <1>3 DEF Unsettled, Owed
  <2>2. \A f : ColumnSum(f, {}) = 0
    BY SumEmpty DEF ColumnSum
  <2> QED BY <1>3, <1>7, <2>1, <2>2 DEF Backed, Delta, NoPosition
<1>9. Covered(b)
  <2>1. \A i, t : OpeningSum(i, t, {e}) = 0
    <3>1. \A i, t : \A r \in {e} : QuantityBefore(i, t)[r] = 0
      BY <1>2, RowTerms DEF OpeningOf
    <3> QED BY <3>1, SumZero, FS_Singleton DEF OpeningSum
  <2> QED BY <1>3, <1>7, <2>1 DEF Covered
<1> QED BY <1>5, <1>6, <1>8, <1>9 DEF BookInv

-------------------------------------------------------------------------------
(* What the types of the books say of each part of them.                   *)
LEMMA BookFields ==
    ASSUME NEW b, BookTypes(b)
    PROVE  /\ b.balances \in Balances /\ b.positions \in Positions
           /\ b.orders \in [OrderIds -> OrderRows]
           /\ b.ledger \in SUBSET LedgerRows /\ IsFiniteSet(b.ledger)
           /\ b.recorded \in [Actions -> Editions] /\ b.splits \in [Actions -> SUBSET Actions]
           /\ \A f \in Columns : b.balances[f] \in Nat
           /\ \A i \in Instruments : /\ b.positions[i].quantity \in Nat
                                     /\ b.positions[i].reserved \in Nat
                                     /\ b.positions[i].cost \in Nat
           /\ \A o \in OrderIds : b.orders[o] \in OrderRows /\ OrderFine(b.orders[o])
           /\ \A e \in b.ledger : e \in LedgerRows /\ RowFine(b, e)
<1>1. /\ b.balances \in Balances /\ b.positions \in Positions
      /\ b.orders \in [OrderIds -> OrderRows]
      /\ b.ledger \in SUBSET LedgerRows /\ IsFiniteSet(b.ledger)
      /\ b.recorded \in [Actions -> Editions] /\ b.splits \in [Actions -> SUBSET Actions]
  BY DEF BookTypes, Books
<1>2. \A f \in Columns : b.balances[f] \in Nat
  BY <1>1 DEF Balances, Columns
<1>3. \A i \in Instruments : /\ b.positions[i].quantity \in Nat
                             /\ b.positions[i].reserved \in Nat
                             /\ b.positions[i].cost \in Nat
  BY <1>1 DEF Positions
<1>4. \A o \in OrderIds : b.orders[o] \in OrderRows /\ OrderFine(b.orders[o])
  BY <1>1 DEF BookTypes
<1>5. \A e \in b.ledger : e \in LedgerRows /\ RowFine(b, e)
  BY <1>1 DEF BookTypes
<1> QED BY <1>1, <1>2, <1>3, <1>4, <1>5

(* The fields of an order, of a row and of the four amounts of a change.   *)
LEMMA OrderFields ==
    ASSUME NEW order \in OrderRows
    PROVE  /\ order.state \in OrderStates /\ order.side \in {"buy", "sell"}
           /\ order.instrument \in Instruments \cup {None}
           /\ order.quantity \in Nat /\ order.capacity \in Nat /\ order.cash \in Nat
           /\ order.shares \in Nat /\ order.session \in Sessions
BY DEF OrderRows

(* What the type of a row says of each part of it.                         *)
LEMMA RowFields ==
    ASSUME NEW e \in LedgerRows
    PROVE  /\ e.kind \in RowKinds /\ e.of \in OrderIds \cup Actions \cup {None}
           /\ e.instrument \in Instruments \cup {None} /\ e.quantity \in Int /\ e.at \in Times
           /\ \A f \in Columns : e.delta[f] \in Int
           /\ e.delta.available = e.delta["available"] /\ e.delta.reserved = e.delta["reserved"]
           /\ e.delta.unsettled = e.delta["unsettled"] /\ e.delta.dividends = e.delta["dividends"]
BY DEF LedgerRows, RowKinds, Columns

(* A row that is not about o or a tells the same of books in which only    *)
(* order o or action a has changed.                                        *)
LEMMA RowStaysFine ==
    ASSUME NEW b, NEW c, NEW e, RowFine(b, e),
           e.kind \in OrderKinds => c.orders[e.of] = b.orders[e.of],
           e.kind \in ActionKinds => Recorded(c, e.of)
    PROVE  RowFine(c, e)
BY DEF RowFine, FillKinds, OrderKinds, ActionKinds

-------------------------------------------------------------------------------
(* Shares are reserved only for an opening that nothing recorded reaches.  *)
OpensLater(b, order) == order.shares # 0 => \A e \in b.ledger : e.at < OpenAt(order.session)

(* An order reserves what it needs, and has opened nothing yet.            *)
LEMMA ReserveKeeps ==
    ASSUME NEW b, BookInv(b), NEW o \in OrderIds, b.orders[o].state = "none",
           NEW order \in OrderRows, order.state = "pending", order.instrument \in Instruments,
           OrderFine(order), CanReserve(b, order),
           OpensLater(b, order),
           NEW c, c = Reserve(b, o, order)
    PROVE  BookInv(c)
<1>1. PICK e : e = Row("reserve", o, Delta(-order.cash, order.cash, 0, 0), order.instrument, 0, 0)
  OBVIOUS
<1>2. PICK i : i = order.instrument
  OBVIOUS
<1>3. BookTypes(b) /\ Balanced(b) /\ Backed(b) /\ Covered(b)
  BY DEF BookInv
<1>4. /\ order.cash \in Nat /\ order.shares \in Nat /\ order.session \in Sessions
      /\ order.side \in {"buy", "sell"} /\ order.quantity \in Nat
  BY OrderFields
<1>5. /\ e \in LedgerRows /\ e.kind = "reserve" /\ e.of = o /\ e.instrument = i
      /\ e.quantity = 0 /\ e.delta["available"] = -order.cash /\ e.delta["reserved"] = order.cash
      /\ e.delta["unsettled"] = 0 /\ e.delta["dividends"] = 0
  <2>1. 0 \in Times
    BY BookAssumption DEF Times, CloseAt
  <2> QED BY <1>1, <1>2, <1>4, <2>1 DEF Row, Delta, LedgerRows
<1>6. /\ c.balances = Plus(b.balances, Delta(-order.cash, order.cash, 0, 0))
      /\ c.positions = [b.positions EXCEPT ![i].reserved = @ + order.shares]
      /\ c.orders = [b.orders EXCEPT ![o] = order] /\ c.ledger = b.ledger \cup {e}
      /\ c.recorded = b.recorded /\ c.splits = b.splits
  BY <1>1, <1>2, <1>3 DEF Reserve, BookTypes, Books
<1>7. e \notin b.ledger /\ \A r \in b.ledger : r.kind \in OrderKinds => r.of # o
  BY <1>3, <1>5, BookFields DEF RowFine, OrderKinds
<1>8. c.orders[o] = order /\ \A r \in OrderIds \ {o} : c.orders[r] = b.orders[r]
  BY <1>3, <1>6, BookFields
<1>9. order.cash <= b.balances.available
  BY <1>3, <1>4, BookFields DEF CanReserve, OrderFine, Columns
<1>10. /\ c.balances["available"] = b.balances["available"] - order.cash
       /\ c.balances["reserved"] = b.balances["reserved"] + order.cash
       /\ c.balances["unsettled"] = b.balances["unsettled"]
       /\ c.balances["dividends"] = b.balances["dividends"]
       /\ c.balances \in Balances
  <2>1. b.balances \in Balances /\ \A f \in Columns : b.balances[f] \in Nat
    BY <1>3, BookFields
  <2>2. Gains(b.balances, c.balances, -order.cash, order.cash, 0, 0) /\ -order.cash \in Int
    BY <1>4, <1>6 DEF Gains
  <2> QED BY <1>4, <1>9, <2>1, <2>2, GainsFields DEF Columns
<1>11. BookTypes(c)
  <2>2. c.positions \in Positions
    BY <1>2, <1>3, <1>4, <1>6, BookFields DEF Positions
  <2>3. c.orders \in [OrderIds -> OrderRows] /\ c.ledger \in SUBSET LedgerRows
        /\ IsFiniteSet(c.ledger)
    <3>1. b.ledger \in SUBSET LedgerRows /\ IsFiniteSet(b.ledger)
          /\ b.orders \in [OrderIds -> OrderRows]
      BY <1>3, BookFields
    <3>2. IsFiniteSet(b.ledger \cup {e})
      BY <3>1, FS_AddElement
    <3> QED BY <1>5, <1>6, <3>1, <3>2
  <2>4. c \in Books
    BY <1>3, <1>6, <1>10, <2>2, <2>3 DEF BookTypes, Books, Reserve
  <2>5. \A r \in OrderIds : OrderFine(c.orders[r])
    BY <1>3, <1>8, BookFields
  <2>6. \A r \in c.ledger : RowFine(c, r)
    <3>1. RowFine(c, e)
      BY <1>2, <1>5, <1>8 DEF RowFine, OrderKinds, FillKinds, ActionKinds
    <3>2. ASSUME NEW r \in b.ledger PROVE RowFine(c, r)
      <4>1. RowFine(b, r)
        BY <1>3, BookFields
      <4>2. r.kind \in OrderKinds => c.orders[r.of] = b.orders[r.of]
        BY <1>7, <1>8, <4>1 DEF RowFine
      <4>3. r.kind \in ActionKinds => Recorded(c, r.of)
        BY <1>6, <4>1 DEF RowFine, Recorded
      <4> QED BY <4>1, <4>2, <4>3, RowStaysFine
    <3> QED BY <1>6, <3>1, <3>2
  <2>7. KeysApart(c)
    BY <1>3, <1>5, <1>6, <1>7 DEF BookTypes, KeysApart, OrderKinds
  <2>8. Accrued(c)
    BY <1>3, <1>6 DEF BookTypes, Accrued, Recorded
  <2> QED BY <2>3, <2>4, <2>5, <2>6, <2>7, <2>8 DEF BookTypes
<1>12. /\ \A f \in Columns : ColumnSum(f, c.ledger) = ColumnSum(f, b.ledger) + e.delta[f]
       /\ SameShares(b.ledger, c.ledger)
  <2>1. b.ledger \in SUBSET LedgerRows /\ IsFiniteSet(b.ledger)
    BY <1>3, BookFields
  <2>2. /\ \A f \in Columns : ColumnSum(f, b.ledger \cup {e}) = ColumnSum(f, b.ledger) + e.delta[f]
        /\ SameShares(b.ledger, b.ledger \cup {e})
    BY <1>5, <1>7, <2>1, RowWithoutShares
  <2> QED BY <1>6, <2>2
<1>13. Balanced(c)
  <2>1. \A f \in Columns : c.balances[f] = ColumnSum(f, c.ledger)
    <3>1. \A f \in Columns : b.balances[f] \in Nat /\ b.balances[f] = ColumnSum(f, b.ledger)
      BY <1>3, BookFields DEF Balanced
    <3>2. \A f \in Columns : b.balances[f] + e.delta[f] = ColumnSum(f, c.ledger)
      BY <1>12, <3>1
    <3>3. /\ c.balances["available"] = b.balances["available"] + e.delta["available"]
          /\ c.balances["reserved"] = b.balances["reserved"] + e.delta["reserved"]
          /\ c.balances["unsettled"] = b.balances["unsettled"] + e.delta["unsettled"]
          /\ c.balances["dividends"] = b.balances["dividends"] + e.delta["dividends"]
      BY <1>4, <1>5, <1>10, <3>1 DEF Columns
    <3>4. \A f \in Columns : c.balances[f] = b.balances[f] + e.delta[f]
      BY <3>3 DEF Columns
    <3> QED BY <3>2, <3>4
  <2>2. \A j \in Instruments : c.positions[j].quantity = b.positions[j].quantity
    BY <1>3, <1>6, BookFields DEF Positions
  <2> QED BY <1>3, <1>12, <2>1, <2>2 DEF Balanced, SameShares
<1>14. /\ CashSum(c.orders) = CashSum(b.orders) + order.cash
       /\ \A j : SharesSum(c.orders, j) = SharesSum(b.orders, j) + SharesOf(order, j)
       /\ \A j, t : OpenedSum(c.orders, j, t)
                      = OpenedSum(b.orders, j, t) + OpenedOf(order, j, t)
  <2>1. b.orders[o].cash = 0 /\ b.orders[o].shares = 0 /\ b.orders \in [OrderIds -> OrderRows]
    BY <1>3, BookFields DEF OrderFine, LiveStates
  <2>2. /\ CashSum(b.orders) \in Nat /\ \A j : SharesSum(b.orders, j) \in Nat
        /\ \A j, t : OpenedSum(b.orders, j, t) \in Nat
    BY <2>1, OrderSums
  <2>4. Updated(b.orders, c.orders, o, order)
    BY <1>6 DEF Updated
  <2>3. /\ CashSum(c.orders) = CashSum(b.orders) - b.orders[o].cash + order.cash
        /\ \A j : SharesSum(c.orders, j) = SharesSum(b.orders, j)
                      - SharesOf(b.orders[o], j)
                      + SharesOf(order, j)
        /\ \A j, t : OpenedSum(c.orders, j, t) = OpenedSum(b.orders, j, t)
                         - OpenedOf(b.orders[o], j, t)
                         + OpenedOf(order, j, t)
    BY <2>1, <2>4, OrderChanges
  <2>5. /\ \A j : SharesOf(b.orders[o], j) = 0 /\ SharesOf(order, j) \in Nat
        /\ \A j, t : OpenedOf(b.orders[o], j, t) = 0 /\ OpenedOf(order, j, t) \in Nat
    BY <1>4, <2>1 DEF SharesOf, OpenedOf
  <2>6. CashSum(c.orders) = CashSum(b.orders) + order.cash
    BY <1>4, <2>1, <2>2, <2>3
  <2>7. ASSUME NEW j PROVE SharesSum(c.orders, j) = SharesSum(b.orders, j) + SharesOf(order, j)
    BY <2>2, <2>3, <2>5
  <2>8. ASSUME NEW j, NEW t
        PROVE  OpenedSum(c.orders, j, t) = OpenedSum(b.orders, j, t) + OpenedOf(order, j, t)
    BY <2>2, <2>3, <2>5
  <2> QED BY <2>6, <2>7, <2>8
<1>15. Backed(c)
  <2>1. Unsettled(c) = Unsettled(b) /\ Owed(c) = Owed(b)
    BY <1>5, <1>6 DEF Unsettled, Owed
  <2>2. c.balances.reserved = CashSum(c.orders)
    BY <1>3, <1>10, <1>14 DEF Backed
  <2>3. ASSUME NEW j \in Instruments
        PROVE  /\ c.positions[j].reserved = SharesSum(c.orders, j)
               /\ c.positions[j].quantity = 0 => c.positions[j].cost = 0
    <3>1. /\ c.positions[j].reserved = b.positions[j].reserved + SharesOf(order, j)
          /\ c.positions[j].quantity = b.positions[j].quantity /\ c.positions[j].cost = b.positions[j].cost
      BY <1>2, <1>3, <1>4, <1>6, BookFields DEF Positions, SharesOf
    <3> QED BY <1>3, <1>14, <3>1 DEF Backed
  <2> QED BY <1>3, <1>10, <2>1, <2>2, <2>3 DEF Backed, Columns
<1>16. Covered(c)
  <2> SUFFICES ASSUME NEW j \in Instruments, NEW t \in Moments
               PROVE  OpenedSum(c.orders, j, t) <= OpeningSum(j, t, c.ledger)
    BY DEF Covered
  <2>1. OpenedSum(b.orders, j, t) <= OpeningSum(j, t, b.ledger)
    BY <1>3 DEF Covered
  <2>2. CASE ~OpensBefore(order, j, t) \/ order.shares = 0
    <3>1. OpenedSum(b.orders, j, t) \in Nat
      BY <1>3, BookFields, OrderSums
    <3> QED BY <1>12, <1>14, <2>1, <2>2, <3>1 DEF SameShares, OpenedOf
  <2>3. CASE OpensBefore(order, j, t) /\ order.shares # 0
    <3>1. i = j /\ OpenAt(order.session) < t /\ t \in Int /\ OpenAt(order.session) \in Int
      BY <1>2, <1>4, <2>3, BookAssumption DEF OpensBefore, Moments, OpenAt, CloseAt, Sessions
    <3>2. OpeningSum(j, t, b.ledger) = QuantitySum(j, b.ledger)
      <4>1. ASSUME NEW r \in b.ledger PROVE QuantityBefore(j, t)[r] = QuantityIn(j)[r]
        <5>1. r \in LedgerRows /\ r.at \in Int /\ r.at < OpenAt(order.session)
          BY <1>3, <2>3, BookFields, RowFields, BookAssumption DEF Times, CloseAt, OpensLater
        <5>2. ComesBefore(r, j, t) <=> r.instrument = j
          BY <3>1, <5>1 DEF ComesBefore
        <5> QED BY <5>1, <5>2, RowTerms DEF QuantityOf, OpeningOf
      <4> QED BY <1>3, <4>1, BookFields, SumSame DEF OpeningSum, QuantitySum
    <3>3. OpenedSum(b.orders, j, t) <= SharesSum(b.orders, j)
      <4>1. b.orders \in [OrderIds -> OrderRows]
        BY <1>3, BookFields
      <4>2. \A r \in OrderIds : SharesBefore(b.orders, j, t)[r] <= SharesIn(b.orders, j)[r]
        BY <4>1, OrderFields DEF SharesBefore, SharesIn, OpensBefore, SharesOf, OpenedOf
      <4> QED BY <4>1, <4>2, OrderTerms, SumMonotone, BookAssumption DEF OpenedSum, SharesSum
    <3>4. order.shares <= b.positions[j].quantity - b.positions[j].reserved
      <4>1. b.positions[j].quantity \in Nat /\ b.positions[j].reserved \in Nat
        BY <1>3, BookFields
      <4>2. order.side = "sell"
        BY <1>4, <2>3 DEF OrderFine
      <4> QED BY <1>2, <3>1, <4>1, <4>2 DEF CanReserve
    <3>5. /\ OpenedSum(b.orders, j, t) \in Nat /\ SharesSum(b.orders, j) \in Nat
          /\ b.positions[j].quantity \in Nat /\ b.positions[j].reserved \in Nat
          /\ b.positions[j].quantity = QuantitySum(j, b.ledger)
          /\ b.positions[j].reserved = SharesSum(b.orders, j)
      BY <1>3, BookFields, OrderSums DEF Balanced, Backed
    <3> QED BY <1>4, <1>12, <1>14, <2>3, <3>1, <3>2, <3>3, <3>4, <3>5 DEF SameShares, OpenedOf
  <2> QED BY <2>2, <2>3
<1> QED BY <1>11, <1>13, <1>15, <1>16 DEF BookInv

-------------------------------------------------------------------------------
(* Orders end without a fill, and free what they had reserved.             *)
ReleaseRow(b, o) ==
    Row("release", o, Delta(b.orders[o].cash, -b.orders[o].cash, 0, 0), b.orders[o].instrument, 0, 0)

RowsOfRelease(b, S) == {ReleaseRow(b, o) : o \in S}

(* Releasing the orders of S writes one row for each, which together free  *)
(* what these orders had reserved.                                         *)
LEMMA ReleaseRows ==
    ASSUME NEW b, BookTypes(b), NEW S \in SUBSET OrderIds, NEW N, N = RowsOfRelease(b, S)
    PROVE  /\ N \in SUBSET LedgerRows /\ IsFiniteSet(N)
           /\ \A e \in N : /\ e.kind = "release" /\ e.of \in S /\ e.quantity = 0
                           /\ e.instrument = b.orders[e.of].instrument /\ e = ReleaseRow(b, e.of)
           /\ ColumnSum("available", N) = SumFunctionOnSet(CashOf(b.orders), S)
           /\ ColumnSum("reserved", N) = -SumFunctionOnSet(CashOf(b.orders), S)
           /\ ColumnSum("unsettled", N) = 0 /\ ColumnSum("dividends", N) = 0
           /\ SumFunctionOnSet(CashOf(b.orders), S) \in Nat
<1>1. b.orders \in [OrderIds -> OrderRows] /\ IsFiniteSet(S)
  BY BookFields, BookAssumption, FS_Subset
<1>2. ASSUME NEW o \in S, NEW e, e = ReleaseRow(b, o)
      PROVE  /\ e \in LedgerRows /\ e.kind = "release" /\ e.of = o /\ e.quantity = 0
             /\ e.instrument = b.orders[o].instrument
             /\ e.delta["available"] = b.orders[o].cash /\ e.delta["reserved"] = -b.orders[o].cash
             /\ e.delta["unsettled"] = 0 /\ e.delta["dividends"] = 0
  <2>1. 0 \in Times
    BY BookAssumption DEF Times, CloseAt
  <2>2. b.orders[o].cash \in Nat /\ b.orders[o].instrument \in Instruments \cup {None}
    BY <1>1, OrderFields
  <2> QED BY <1>2, <2>1, <2>2 DEF ReleaseRow, Row, Delta, LedgerRows
<1>3. PICK g : g = [o \in S |-> ReleaseRow(b, o)]
  OBVIOUS
<1>4. N = {g[o] : o \in S} /\ \A o \in S : g[o] = ReleaseRow(b, o)
  BY <1>3 DEF RowsOfRelease
<1>5. /\ N \in SUBSET LedgerRows
      /\ \A e \in N : /\ e.kind = "release" /\ e.of \in S /\ e.quantity = 0
                      /\ e.instrument = b.orders[e.of].instrument /\ e = ReleaseRow(b, e.of)
  BY <1>2 DEF RowsOfRelease
<1>6. IsFiniteSet(N)
  <2>1. IsFiniteSet({g[o] : o \in S})
    BY <1>1, ImageFinite
  <2> QED BY <1>4, <2>1
<1>7. \A o, r \in S : g[o] = g[r] => o = r
  BY <1>2, <1>4
<1>8. Summable(CashOf(b.orders), S) /\ SumFunctionOnSet(CashOf(b.orders), S) \in Nat
  <2>1. \A o \in S : CashOf(b.orders)[o] \in Nat
    BY <1>1, OrderTerms
  <2> QED BY <1>1, <2>1, SumNat DEF Summable
<1>9. ColumnSum("available", N) = SumFunctionOnSet(CashOf(b.orders), S)
  <2>1. \A o \in S : DeltaOf("available")[g[o]] = CashOf(b.orders)[o]
    BY <1>2, <1>4, RowTerms DEF CashOf, Columns
  <2> QED BY <1>1, <1>4, <1>7, <1>8, <2>1, SumImage DEF ColumnSum
<1>10. ColumnSum("reserved", N) = -SumFunctionOnSet(CashOf(b.orders), S)
  <2>1. PICK h : h = [o \in S |-> -CashOf(b.orders)[o]]
    OBVIOUS
  <2>2. \A o \in S : h[o] = -CashOf(b.orders)[o] /\ h[o] \in Int
    BY <1>8, <2>1 DEF Summable
  <2>3. SumFunctionOnSet(h, S) = -SumFunctionOnSet(CashOf(b.orders), S)
    BY <1>1, <1>8, <2>2, SumNegated
  <2>4. \A o \in S : DeltaOf("reserved")[g[o]] = h[o]
    <3> SUFFICES ASSUME NEW o \in S PROVE DeltaOf("reserved")[g[o]] = h[o]
      OBVIOUS
    <3>1. h[o] = -b.orders[o].cash
      BY <2>2 DEF CashOf
    <3>2. g[o] \in LedgerRows /\ g[o].delta["reserved"] = -b.orders[o].cash
      BY <1>2, <1>4
    <3> QED BY <3>1, <3>2, RowTerms DEF Columns
  <2>5. Summable(h, S)
    BY <2>2 DEF Summable
  <2>6. SumFunctionOnSet(DeltaOf("reserved"), {g[o] : o \in S}) = SumFunctionOnSet(h, S)
    BY <1>1, <1>7, <2>4, <2>5, SumImage
  <2> QED BY <1>4, <2>3, <2>6 DEF ColumnSum
<1>11. ColumnSum("unsettled", N) = 0 /\ ColumnSum("dividends", N) = 0
  <2>1. \A e \in N : DeltaOf("unsettled")[e] = 0 /\ DeltaOf("dividends")[e] = 0
    BY <1>2, RowTerms DEF Columns, RowsOfRelease
  <2> QED BY <1>6, <2>1, SumZero DEF ColumnSum
<1> QED BY <1>5, <1>6, <1>8, <1>9, <1>10, <1>11

(* What a release changes: freed is the cash, shares the shares of each    *)
(* instrument that S had reserved.                                         *)
Released(b, S, state, c, N, freed, shares) ==
    /\ N = RowsOfRelease(b, S)
    /\ freed = SumFunctionOnSet(CashOf(b.orders), S)
    /\ \A i \in Instruments : shares[i] = SumFunctionOnSet(SharesIn(b.orders, i), S)
    /\ c = [b EXCEPT
              !.balances = Plus(b.balances, Delta(freed, -freed, 0, 0)),
              !.positions = [i \in Instruments |-> [b.positions[i] EXCEPT !.reserved = @ - shares[i]]],
              !.orders = [o \in OrderIds |-> IF o \in S THEN Closed(b.orders[o], state) ELSE b.orders[o]],
              !.ledger = b.ledger \cup N]

(* An order that is closed has nothing reserved and keeps its target.      *)
LEMMA ClosedFields ==
    ASSUME NEW order \in OrderRows, NEW state \in OrderStates \ LiveStates,
           NEW closed, closed = Closed(order, state)
    PROVE  /\ closed \in OrderRows /\ OrderFine(closed)
           /\ closed.state = state /\ closed.cash = 0 /\ closed.shares = 0
           /\ closed.instrument = order.instrument /\ closed.session = order.session
           /\ closed.side = order.side /\ closed.capacity = order.capacity
BY DEF Closed, OrderRows, OrderFine

(* Release does that.                                                      *)
LEMMA ReleaseFields ==
    ASSUME NEW b, BookTypes(b), NEW S \in SUBSET OrderIds, NEW state
    PROVE  \E N, freed, shares : Released(b, S, state, Release(b, S, state), N, freed, shares)
<1>1. PICK N : N = RowsOfRelease(b, S)
  OBVIOUS
<1>2. PICK freed : freed = SumFunction([o \in S |-> b.orders[o].cash])
  OBVIOUS
<1>3. PICK shares : shares = [i \in Instruments |->
            SumFunction([o \in {r \in S : b.orders[r].instrument = i} |-> b.orders[o].shares])]
  OBVIOUS
<1>4. IsFiniteSet(S) /\ b.orders \in [OrderIds -> OrderRows]
  BY BookFields, BookAssumption, FS_Subset
<1>5. \A o \in S : b.orders[o].cash \in Nat /\ b.orders[o].shares \in Nat
  BY <1>4, OrderFields
<1>6. freed = SumFunctionOnSet(CashOf(b.orders), S)
  <2>1. PICK f : f = [o \in S |-> b.orders[o].cash]
    OBVIOUS
  <2>2. DOMAIN f = S /\ \A o \in S : f[o] = CashOf(b.orders)[o]
    BY <2>1 DEF CashOf
  <2>3. SumFunctionOnSet(f, S) = SumFunctionOnSet(CashOf(b.orders), S)
    BY <1>4, <2>2, SumSame
  <2> QED BY <1>2, <2>1, <2>2, <2>3 DEF SumFunction
<1>7. ASSUME NEW i \in Instruments PROVE shares[i] = SumFunctionOnSet(SharesIn(b.orders, i), S)
  <2>1. PICK T : T = {r \in S : b.orders[r].instrument = i}
    OBVIOUS
  <2>2. PICK f : f = [o \in T |-> b.orders[o].shares]
    OBVIOUS
  <2>3. DOMAIN f = T /\ T \in SUBSET S /\ Summable(f, T)
    BY <1>5, <2>1, <2>2 DEF Summable
  <2>4. (\A o \in T : SharesIn(b.orders, i)[o] = f[o]) /\ \A o \in S \ T : SharesIn(b.orders, i)[o] = 0
    BY <2>1, <2>2 DEF SharesIn, SharesOf
  <2>5. SumFunction(f) = SumFunctionOnSet(SharesIn(b.orders, i), S)
    BY <1>4, <2>3, <2>4, SumWritten
  <2>6. shares[i] = SumFunction(f)
    BY <1>3, <2>1, <2>2
  <2> QED BY <2>5, <2>6
<1>8. Release(b, S, state) = [b EXCEPT !.balances = Plus(b.balances, Delta(freed, -freed, 0, 0)),
                    !.positions = [i \in Instruments |->
                                     [b.positions[i] EXCEPT !.reserved = @ - shares[i]]],
                    !.orders = [o \in OrderIds |-> IF o \in S THEN Closed(b.orders[o], state)
                                                              ELSE b.orders[o]],
                    !.ledger = b.ledger \cup N]
  BY <1>1, <1>2, <1>3 DEF Release, ReleaseRow, RowsOfRelease
<1>9. Released(b, S, state, Release(b, S, state), N, freed, shares)
  BY <1>1, <1>6, <1>7, <1>8 DEF Released
<1> QED BY <1>9

(* Ending live orders without a fill keeps the invariant.                  *)
LEMMA ReleaseKeeps ==
    ASSUME NEW b, BookInv(b), NEW S \in SUBSET OrderIds,
           \A o \in S : b.orders[o].state \in LiveStates,
           NEW state \in {"expired", "rejected", "cancelled"},
           NEW c, c = Release(b, S, state)
    PROVE  BookInv(c)
<1>1. BookTypes(b) /\ Balanced(b) /\ Backed(b) /\ Covered(b)
  BY DEF BookInv
<1>2. PICK N, freed, shares : Released(b, S, state, c, N, freed, shares)
  BY <1>1, ReleaseFields
<1>3. /\ c.balances = Plus(b.balances, Delta(freed, -freed, 0, 0))
      /\ c.positions = [i \in Instruments |-> [b.positions[i] EXCEPT !.reserved = @ - shares[i]]]
      /\ c.orders = [o \in OrderIds |-> IF o \in S THEN Closed(b.orders[o], state) ELSE b.orders[o]]
      /\ c.ledger = b.ledger \cup N /\ c.recorded = b.recorded /\ c.splits = b.splits
  BY <1>1, <1>2 DEF Released, BookTypes, Books
<1>4. /\ N \in SUBSET LedgerRows /\ IsFiniteSet(N)
      /\ \A e \in N : /\ e.kind = "release" /\ e.of \in S /\ e.quantity = 0
                      /\ e.instrument = b.orders[e.of].instrument /\ e = ReleaseRow(b, e.of)
      /\ ColumnSum("available", N) = freed /\ ColumnSum("reserved", N) = -freed
      /\ ColumnSum("unsettled", N) = 0 /\ ColumnSum("dividends", N) = 0 /\ freed \in Nat
  <2>1. N = RowsOfRelease(b, S) /\ freed = SumFunctionOnSet(CashOf(b.orders), S)
    BY <1>2 DEF Released
  <2> QED BY <1>1, <2>1, ReleaseRows
<1>5. /\ \A o \in S : /\ c.orders[o].state = state /\ c.orders[o].cash = 0 /\ c.orders[o].shares = 0
                      /\ c.orders[o].instrument = b.orders[o].instrument
                      /\ c.orders[o] \in OrderRows /\ OrderFine(c.orders[o])
      /\ \A o \in OrderIds \ S : c.orders[o] = b.orders[o]
      /\ c.orders \in [OrderIds -> OrderRows]
  <2>1. \A o \in OrderIds \ S : c.orders[o] = b.orders[o]
    BY <1>3
  <2>2. ASSUME NEW o \in S
        PROVE  /\ c.orders[o].state = state /\ c.orders[o].cash = 0 /\ c.orders[o].shares = 0
               /\ c.orders[o].instrument = b.orders[o].instrument
               /\ c.orders[o] \in OrderRows /\ OrderFine(c.orders[o])
    <3>1. PICK r : r = b.orders[o] /\ r \in OrderRows
      BY <1>1, BookFields
    <3>2. c.orders[o] = Closed(r, state)
      BY <1>3, <3>1
    <3>3. state \in OrderStates \ LiveStates
      BY DEF OrderStates, LiveStates
    <3> QED BY <3>1, <3>2, <3>3, ClosedFields
  <2>3. \A o \in OrderIds : c.orders[o] \in OrderRows
    BY <1>1, <2>1, <2>2, BookFields
  <2>4. c.orders \in [OrderIds -> OrderRows]
    <3>1. DOMAIN c.orders = OrderIds /\ c.orders = [o \in OrderIds |-> c.orders[o]]
      BY <1>3
    <3> QED BY <2>3, <3>1
  <2> QED BY <2>1, <2>2, <2>4
<1>6. b.ledger \cap N = {} /\ \A e \in b.ledger : e.kind \in OrderKinds => e.of \in OrderIds
  BY <1>1, <1>4, BookFields DEF RowFine, LiveStates, OrderKinds
<1>7. b.orders \in [OrderIds -> OrderRows] /\ IsFiniteSet(OrderIds)
  BY <1>1, BookFields, BookAssumption
<1>8. CashSum(c.orders) = CashSum(b.orders) - freed
  <2>1. PICK f, g : f = CashOf(b.orders) /\ g = CashOf(c.orders)
    OBVIOUS
  <2>2. (\A o \in S : g[o] = 0) /\ (\A o \in OrderIds \ S : g[o] = f[o]) /\ Summable(f, OrderIds)
    <3>1. Summable(f, OrderIds)
      BY <1>7, <2>1, OrderTerms
    <3>2. \A o \in OrderIds : f[o] = b.orders[o].cash /\ g[o] = c.orders[o].cash
      BY <2>1 DEF CashOf
    <3> QED BY <1>5, <3>1, <3>2
  <2>3. SumFunctionOnSet(g, OrderIds) = SumFunctionOnSet(f, OrderIds) - SumFunctionOnSet(f, S)
    BY <1>7, <2>2, SumDrop
  <2> QED BY <1>2, <2>1, <2>3 DEF CashSum, Released
<1>9. ASSUME NEW i \in Instruments PROVE SharesSum(c.orders, i) = SharesSum(b.orders, i) - shares[i]
  <2>1. PICK f, g : f = SharesIn(b.orders, i) /\ g = SharesIn(c.orders, i)
    OBVIOUS
  <2>2. (\A o \in S : g[o] = 0) /\ (\A o \in OrderIds \ S : g[o] = f[o]) /\ Summable(f, OrderIds)
    <3>1. Summable(f, OrderIds)
      BY <1>7, <2>1, OrderTerms
    <3>2. \A o \in OrderIds : f[o] = SharesOf(b.orders[o], i) /\ g[o] = SharesOf(c.orders[o], i)
      BY <2>1 DEF SharesIn
    <3>3. \A o \in S : SharesOf(c.orders[o], i) = 0
      BY <1>5 DEF SharesOf
    <3> QED BY <1>5, <3>1, <3>2, <3>3
  <2>3. SumFunctionOnSet(g, OrderIds) = SumFunctionOnSet(f, OrderIds) - SumFunctionOnSet(f, S)
    BY <1>7, <2>2, SumDrop
  <2> QED BY <1>2, <2>1, <2>3 DEF SharesSum, Released
<1>10. ASSUME NEW i, NEW t PROVE OpenedSum(c.orders, i, t) <= OpenedSum(b.orders, i, t)
  <2>1. PICK f, g : f = SharesBefore(b.orders, i, t) /\ g = SharesBefore(c.orders, i, t)
    OBVIOUS
  <2>2. \A o \in OrderIds : f[o] \in Nat
    BY <1>7, <2>1, OrderTerms
  <2>3. \A o \in OrderIds : g[o] = 0 \/ g[o] = f[o]
    BY <1>5, <2>1 DEF SharesBefore, OpenedOf
  <2>4. Summable(f, OrderIds) /\ Summable(g, OrderIds) /\ \A o \in OrderIds : g[o] <= f[o]
    BY <2>2, <2>3 DEF Summable
  <2>5. SumFunctionOnSet(g, OrderIds) <= SumFunctionOnSet(f, OrderIds)
    BY <1>7, <2>4, SumMonotone
  <2> QED BY <2>1, <2>5 DEF OpenedSum
<1>11. /\ \A f \in Columns : ColumnSum(f, c.ledger) = ColumnSum(f, b.ledger) + ColumnSum(f, N)
       /\ SameShares(b.ledger, c.ledger)
  <2>1. b.ledger \in SUBSET LedgerRows /\ IsFiniteSet(b.ledger)
    BY <1>1, BookFields
  <2>2. /\ \A f \in Columns : ColumnSum(f, b.ledger \cup N) = ColumnSum(f, b.ledger) + ColumnSum(f, N)
        /\ SameShares(b.ledger, b.ledger \cup N)
    BY <1>4, <1>6, <2>1, RowsWithoutShares
  <2> QED BY <1>3, <2>2
<1>12. /\ CashSum(c.orders) \in Nat /\ CashSum(b.orders) \in Nat
       /\ \A i : SharesSum(c.orders, i) \in Nat /\ SharesSum(b.orders, i) \in Nat
       /\ \A i, t : OpenedSum(c.orders, i, t) \in Nat /\ OpenedSum(b.orders, i, t) \in Nat
  BY <1>5, <1>7, OrderSums
<1>13. /\ c.balances["available"] = b.balances["available"] + freed
       /\ c.balances["reserved"] = b.balances["reserved"] - freed
       /\ c.balances["unsettled"] = b.balances["unsettled"]
       /\ c.balances["dividends"] = b.balances["dividends"]
       /\ c.balances \in Balances
  <2>1. b.balances \in Balances /\ \A f \in Columns : b.balances[f] \in Nat
    BY <1>1, BookFields
  <2>2. Gains(b.balances, c.balances, freed, -freed, 0, 0) /\ -freed \in Int /\ freed \in Int
    BY <1>3, <1>4 DEF Gains
  <2>3. b.balances["reserved"] - freed >= 0
    BY <1>1, <1>8, <1>12 DEF Backed
  <2> QED BY <1>4, <2>1, <2>2, <2>3, GainsFields DEF Columns
<1>14. ASSUME NEW i \in Instruments
       PROVE  /\ c.positions[i].quantity = b.positions[i].quantity
              /\ c.positions[i].cost = b.positions[i].cost
              /\ c.positions[i].reserved = SharesSum(c.orders, i)
              /\ c.positions[i] \in [quantity : Nat, reserved : Nat, cost : Nat]
  <2>1. b.positions[i].reserved = SharesSum(b.orders, i)
    BY <1>1 DEF Backed
  <2>2. b.positions[i] \in [quantity : Nat, reserved : Nat, cost : Nat]
    BY <1>1, BookFields DEF Positions
  <2>3. c.positions[i] = [b.positions[i] EXCEPT !.reserved = @ - shares[i]]
    BY <1>3
  <2>4. c.positions[i].reserved = SharesSum(c.orders, i)
    BY <1>9, <2>1, <2>2, <2>3
  <2> QED BY <1>12, <2>2, <2>3, <2>4
<1>15. BookTypes(c)
  <2>1. c.positions \in Positions
    BY <1>3, <1>14 DEF Positions
  <2>2. c.ledger \in SUBSET LedgerRows /\ IsFiniteSet(c.ledger)
    <3>1. b.ledger \in SUBSET LedgerRows /\ IsFiniteSet(b.ledger)
      BY <1>1, BookFields
    <3>2. IsFiniteSet(b.ledger \cup N)
      BY <1>4, <3>1, FS_Union
    <3> QED BY <1>3, <1>4, <3>1, <3>2
  <2>3. c \in Books
    BY <1>1, <1>2, <1>3, <1>5, <1>13, <2>1, <2>2 DEF BookTypes, Books, Released
  <2>4. \A o \in OrderIds : OrderFine(c.orders[o])
    BY <1>1, <1>5, BookFields
  <2>5. ASSUME NEW e \in N PROVE RowFine(c, e)
    BY <1>4, <1>5 DEF RowFine, OrderKinds, FillKinds, ActionKinds
  <2>6. ASSUME NEW e \in b.ledger PROVE RowFine(c, e)
    <3>1. RowFine(b, e)
      BY <1>1, BookFields
    <3>2. CASE e.kind = "reserve"
      BY <1>5, <3>1, <3>2 DEF RowFine, OrderKinds, FillKinds, ActionKinds
    <3>3. CASE e.kind # "reserve"
      <4>1. e.kind \in OrderKinds => e.of \in OrderIds \ S
        BY <3>1, <3>3 DEF RowFine, OrderKinds, FillKinds, LiveStates
      <4>2. e.kind \in ActionKinds => Recorded(c, e.of)
        BY <1>3, <3>1 DEF RowFine, Recorded
      <4> QED BY <1>5, <3>1, <4>1, <4>2, RowStaysFine
    <3> QED BY <3>2, <3>3
  <2>7. KeysApart(c)
    <3> SUFFICES ASSUME NEW e \in c.ledger, NEW r \in c.ledger, e.kind = r.kind, e.of = r.of
                 PROVE  e = r
      BY DEF KeysApart
    <3>1. \A n \in N, m \in b.ledger : m.kind = n.kind => m.of # n.of
      BY <1>1, <1>4, BookFields DEF RowFine, OrderKinds, LiveStates
    <3>2. \A n, m \in N : m.of = n.of => m = n
      BY <1>4
    <3> QED BY <1>1, <1>3, <3>1, <3>2 DEF BookTypes, KeysApart
  <2>8. Accrued(c)
    BY <1>1, <1>3, <1>4 DEF BookTypes, Accrued, Recorded
  <2> QED BY <1>3, <2>2, <2>3, <2>4, <2>5, <2>6, <2>7, <2>8 DEF BookTypes
<1>16. Balanced(c)
  <2>1. \A f \in Columns : b.balances[f] \in Nat /\ b.balances[f] = ColumnSum(f, b.ledger)
    BY <1>1, BookFields DEF Balanced
  <2>2. \A f \in Columns : c.balances[f] = b.balances[f] + ColumnSum(f, N)
    BY <1>4, <1>13, <2>1 DEF Columns
  <2>3. \A f \in Columns : c.balances[f] = ColumnSum(f, c.ledger)
    BY <1>11, <2>1, <2>2
  <2> QED BY <1>1, <1>11, <1>14, <2>3 DEF Balanced, SameShares
<1>17. Backed(c)
  <2>1. Unsettled(c) = Unsettled(b) /\ Owed(c) = Owed(b)
    BY <1>3, <1>4 DEF Unsettled, Owed
  <2> QED BY <1>1, <1>8, <1>13, <1>14, <2>1 DEF Backed
<1>18. Covered(c)
  <2> SUFFICES ASSUME NEW i \in Instruments, NEW t \in Moments
               PROVE  OpenedSum(c.orders, i, t) <= OpeningSum(i, t, c.ledger)
    BY DEF Covered
  <2>1. OpenedSum(b.orders, i, t) <= OpeningSum(i, t, b.ledger) /\ OpeningSum(i, t, b.ledger) \in Int
    BY <1>1, BookFields, LedgerSummable DEF Covered
  <2>2. OpeningSum(i, t, c.ledger) = OpeningSum(i, t, b.ledger)
    BY <1>11 DEF SameShares
  <2> QED BY <1>10, <1>12, <2>1, <2>2
<1> QED BY <1>15, <1>16, <1>17, <1>18 DEF BookInv

-------------------------------------------------------------------------------
(* Live orders wait for the bar of their session.                          *)
LEMMA AdvanceOrders ==
    ASSUME NEW b, BookTypes(b), NEW S \in SUBSET OrderIds,
           \A o \in S : b.orders[o].state \in LiveStates,
           NEW c, c = Advance(b, S)
    PROVE  /\ c.balances = b.balances /\ c.positions = b.positions /\ c.ledger = b.ledger
           /\ c.recorded = b.recorded /\ c.splits = b.splits
           /\ c.orders \in [OrderIds -> OrderRows]
           /\ \A o \in S : c.orders[o] = [b.orders[o] EXCEPT !.state = "awaiting_bar"]
           /\ \A o \in OrderIds \ S : c.orders[o] = b.orders[o]
           /\ \A o \in OrderIds :
                 /\ c.orders[o].cash = b.orders[o].cash /\ c.orders[o].shares = b.orders[o].shares
                 /\ c.orders[o].instrument = b.orders[o].instrument
                 /\ c.orders[o].session = b.orders[o].session
                 /\ OrderFine(c.orders[o])
<1>1. /\ c.orders = [o \in OrderIds |-> IF o \in S THEN [b.orders[o] EXCEPT !.state = "awaiting_bar"]
                                                   ELSE b.orders[o]]
      /\ c.balances = b.balances /\ c.positions = b.positions /\ c.ledger = b.ledger
      /\ c.recorded = b.recorded /\ c.splits = b.splits
  BY DEF Advance, BookTypes, Books
<1>2. ASSUME NEW o \in S, NEW r \in OrderRows, r = b.orders[o], OrderFine(r),
             NEW n, n = [r EXCEPT !.state = "awaiting_bar"]
      PROVE  /\ n \in OrderRows /\ n.cash = r.cash /\ n.shares = r.shares
             /\ n.instrument = r.instrument /\ n.session = r.session /\ OrderFine(n)
  <2>1. r.state \in LiveStates
    BY <1>2
  <2> QED BY <1>2, <2>1 DEF OrderRows, OrderStates, OrderFine, LiveStates
<1>3. ASSUME NEW o \in OrderIds
      PROVE  /\ c.orders[o].cash = b.orders[o].cash /\ c.orders[o].shares = b.orders[o].shares
             /\ c.orders[o].instrument = b.orders[o].instrument
             /\ c.orders[o].session = b.orders[o].session
             /\ c.orders[o] \in OrderRows /\ OrderFine(c.orders[o])
  <2>1. b.orders[o] \in OrderRows /\ OrderFine(b.orders[o])
    BY BookFields
  <2>2. CASE o \in S
    BY <1>1, <1>2, <2>1, <2>2
  <2>3. CASE o \notin S
    BY <1>1, <2>1, <2>3
  <2> QED BY <2>2, <2>3
<1>4. c.orders \in [OrderIds -> OrderRows]
  <2>1. c.orders = [o \in OrderIds |-> c.orders[o]]
    BY <1>1
  <2> QED BY <1>3, <2>1
<1> QED BY <1>1, <1>3, <1>4

(* Marking live orders as waiting for their bar does.                      *)
LEMMA AdvanceKeeps ==
    ASSUME NEW b, BookInv(b), NEW S \in SUBSET OrderIds,
           \A o \in S : b.orders[o].state \in LiveStates,
           NEW c, c = Advance(b, S)
    PROVE  BookInv(c)
<1>1. BookTypes(b) /\ Balanced(b) /\ Backed(b) /\ Covered(b)
  BY DEF BookInv
<1>2. /\ c.balances = b.balances /\ c.positions = b.positions /\ c.ledger = b.ledger
      /\ c.recorded = b.recorded /\ c.splits = b.splits
      /\ c.orders \in [OrderIds -> OrderRows]
      /\ \A o \in S : c.orders[o] = [b.orders[o] EXCEPT !.state = "awaiting_bar"]
      /\ \A o \in OrderIds \ S : c.orders[o] = b.orders[o]
  BY <1>1, AdvanceOrders
<1>3. \A o \in OrderIds :
         /\ c.orders[o].cash = b.orders[o].cash /\ c.orders[o].shares = b.orders[o].shares
         /\ c.orders[o].instrument = b.orders[o].instrument
         /\ c.orders[o].session = b.orders[o].session
         /\ OrderFine(c.orders[o])
  BY <1>1, AdvanceOrders
<1>4. BookTypes(c)
  <2>1. c \in Books
    BY <1>1, <1>2 DEF BookTypes, Books, Advance
  <2>2. ASSUME NEW e \in b.ledger PROVE RowFine(c, e)
    <3>1. RowFine(b, e)
      BY <1>1, BookFields
    <3>2. CASE e.kind \in {"reserve"}
      <4>1. e.of \in OrderIds /\ b.orders[e.of].state # "none" /\ e.instrument = b.orders[e.of].instrument
            /\ e.quantity = 0
        BY <3>1, <3>2 DEF RowFine, OrderKinds, FillKinds
      <4>2. c.orders[e.of].state # "none"
        <5>1. PICK r \in OrderRows : r = b.orders[e.of]
          BY <1>1, <4>1, BookFields
        <5>2. [r EXCEPT !.state = "awaiting_bar"].state = "awaiting_bar"
          BY DEF OrderRows
        <5> QED BY <1>2, <4>1, <5>1, <5>2
      <4> QED BY <1>3, <3>2, <4>1, <4>2 DEF RowFine, OrderKinds, FillKinds, ActionKinds
    <3>3. CASE e.kind \notin {"reserve"}
      <4>1. e.kind \in OrderKinds => e.of \in OrderIds \ S
        BY <3>1, <3>3 DEF RowFine, OrderKinds, FillKinds, LiveStates
      <4>2. e.kind \in ActionKinds => Recorded(c, e.of)
        BY <1>2, <3>1 DEF RowFine, Recorded
      <4> QED BY <1>2, <3>1, <4>1, <4>2, RowStaysFine
    <3> QED BY <3>2, <3>3
  <2>3. KeysApart(c) /\ Accrued(c)
    BY <1>1, <1>2 DEF BookTypes, KeysApart, Accrued, Recorded
  <2>4. IsFiniteSet(c.ledger)
    BY <1>1, <1>2, BookFields
  <2> QED BY <1>2, <1>3, <2>1, <2>2, <2>3, <2>4 DEF BookTypes
<1>5. /\ CashSum(c.orders) = CashSum(b.orders)
      /\ \A i : SharesSum(c.orders, i) = SharesSum(b.orders, i)
      /\ \A i, t : OpenedSum(c.orders, i, t) = OpenedSum(b.orders, i, t)
  <2>1. CashOf(c.orders) = CashOf(b.orders)
    BY <1>3 DEF CashOf
  <2>2. ASSUME NEW i PROVE SharesIn(c.orders, i) = SharesIn(b.orders, i)
    <3>1. \A o \in OrderIds : SharesOf(c.orders[o], i) = SharesOf(b.orders[o], i)
      BY <1>3 DEF SharesOf
    <3> QED BY <3>1 DEF SharesIn
  <2>3. ASSUME NEW i, NEW t PROVE SharesBefore(c.orders, i, t) = SharesBefore(b.orders, i, t)
    <3>1. \A o \in OrderIds : OpenedOf(c.orders[o], i, t) = OpenedOf(b.orders[o], i, t)
      BY <1>3 DEF OpenedOf, OpensBefore
    <3> QED BY <3>1 DEF SharesBefore
  <2> QED BY <2>1, <2>2, <2>3 DEF CashSum, SharesSum, OpenedSum
<1>6. Balanced(c)
  BY <1>1, <1>2 DEF Balanced
<1>7. Backed(c)
  <2>1. Unsettled(c) = Unsettled(b) /\ Owed(c) = Owed(b)
    BY <1>2 DEF Unsettled, Owed
  <2> QED BY <1>1, <1>2, <1>5, <2>1 DEF Backed
<1>8. Covered(c)
  BY <1>1, <1>2, <1>5 DEF Covered
<1> QED BY <1>4, <1>6, <1>7, <1>8 DEF BookInv

-------------------------------------------------------------------------------
(* The part of an amount that a part of a holding takes with it.           *)
LEMMA RoundedPart ==
    ASSUME NEW c \in Nat, NEW q \in Nat, NEW n \in Nat \ {0}, q <= n
    PROVE  Rounded(c * q, n) <= c /\ Rounded(c * q, n) \in Nat /\ (q = n => Rounded(c * q, n) = c)
<1>1. c * q \in Nat /\ c * n \in Nat /\ c * q <= c * n
  OBVIOUS
<1>2. PICK d : d = 2 * n
  OBVIOUS
<1>3. PICK u \in Nat : u = 2 * (c * q) + n
  BY <1>1
<1>4. d \in Nat /\ d > 0 /\ u < d * (c + 1) /\ (q = n => d * c <= u)
  BY <1>1, <1>2, <1>3
<1>5. u \div d <= c /\ u \div d \in Nat /\ (q = n => u \div d = c)
  BY <1>4
<1> QED BY <1>2, <1>3, <1>5 DEF Rounded

(* Books have no other field than those.                                   *)
Whole(c) == c = [balances |-> c.balances, positions |-> c.positions, orders |-> c.orders,
                 ledger |-> c.ledger, recorded |-> c.recorded, splits |-> c.splits]

(* What a fill changes: x and z are the cash and the receivable it brings, *)
(* signed the shares.                                                      *)
Filling(b, o, p, q, c, e, x, z, signed) ==
    LET order == b.orders[o]
        i == order.instrument
        gross == GrossValue(p, q)
        paid == PurchaseCost(p, q) IN
    /\ order.side = "buy" => x = order.cash - paid /\ z = 0 /\ signed = q
    /\ order.side = "sell" => x = 0 /\ z = gross - TradeFee(gross) /\ signed = -q
    /\ e = Row(IF order.side = "buy" THEN "buy_fill" ELSE "sell_fill", o,
               Delta(x, -order.cash, z, 0), i, signed, OpenAt(order.session))
    /\ c.balances = Plus(b.balances, Delta(x, -order.cash, z, 0))
    /\ c.positions = [b.positions EXCEPT
                        ![i] = [quantity |-> @.quantity + signed, reserved |-> @.reserved - order.shares,
                                cost |-> CostAfter(b, order, paid, q)]]
    /\ c.orders = [b.orders EXCEPT
                     ![o] = Closed(order, IF q < order.quantity THEN "partially_filled_cancelled"
                                                                ELSE "filled")]
    /\ c.ledger = b.ledger \cup {e}
    /\ c.recorded = b.recorded /\ c.splits = b.splits /\ Whole(c)

(* Fill does that.                                                         *)
LEMMA FillFields ==
    ASSUME NEW b, BookTypes(b), NEW o \in OrderIds, NEW p, NEW q
    PROVE  \E e, x, z, signed : Filling(b, o, p, q, Fill(b, o, p, q), e, x, z, signed)
<1>0. PICK c : c = Fill(b, o, p, q)
  OBVIOUS
<1>1. PICK order : order = b.orders[o] /\ order \in OrderRows /\ OrderFine(order)
  BY BookFields
<1>2. PICK gross : gross = GrossValue(p, q)
  OBVIOUS
<1>3. PICK x, z, signed :
         /\ order.side = "buy" => x = order.cash - PurchaseCost(p, q) /\ z = 0 /\ signed = q
         /\ order.side # "buy" => x = 0 /\ z = gross - TradeFee(gross) /\ signed = -q
  <2>1. CASE order.side = "buy"
    BY <2>1
  <2>2. CASE order.side # "buy"
    BY <2>2
  <2> QED BY <2>1, <2>2
<1>4. PICK e : e = Row(IF order.side = "buy" THEN "buy_fill" ELSE "sell_fill", o,
               Delta(x, -order.cash, z, 0), order.instrument, signed, OpenAt(order.session))
  OBVIOUS
<1>5. (IF order.side = "buy" THEN Delta(order.cash - (gross + TradeFee(gross)), -order.cash, 0, 0)
                             ELSE Delta(0, 0, gross - TradeFee(gross), 0))
        = Delta(x, -order.cash, z, 0)
  <2>1. PurchaseCost(p, q) = gross + TradeFee(gross)
    BY <1>2 DEF PurchaseCost
  <2>2. order.side # "buy" => order.cash = 0 /\ -order.cash = 0
    BY <1>1 DEF OrderFine, OrderRows
  <2> QED BY <1>3, <2>1, <2>2 DEF Delta
<1>6. (IF order.side = "buy" THEN q ELSE -q) = signed
  BY <1>3
<1>7. PurchaseCost(p, q) = gross + TradeFee(gross)
  BY <1>2 DEF PurchaseCost
<1>8. c = [b EXCEPT
        !.balances = Plus(@, Delta(x, -order.cash, z, 0)),
        !.positions[order.instrument] =
            [quantity |-> @.quantity + signed, reserved |-> @.reserved - order.shares,
             cost |-> CostAfter(b, order, PurchaseCost(p, q), q)],
        !.orders[o] = Closed(order, IF q < order.quantity
                                    THEN "partially_filled_cancelled" ELSE "filled"),
        !.ledger = @ \cup {e}]
  BY <1>1, <1>2, <1>4, <1>0, <1>5, <1>6, <1>7, Zenon DEF Fill
<1>9. /\ c.balances = Plus(b.balances, Delta(x, -order.cash, z, 0))
      /\ c.positions = [b.positions EXCEPT ![order.instrument] =
            [quantity |-> @.quantity + signed, reserved |-> @.reserved - order.shares,
             cost |-> CostAfter(b, order, PurchaseCost(p, q), q)]]
      /\ c.orders = [b.orders EXCEPT ![o] = Closed(order, IF q < order.quantity
                                    THEN "partially_filled_cancelled" ELSE "filled")]
      /\ c.ledger = b.ledger \cup {e} /\ c.recorded = b.recorded /\ c.splits = b.splits
  BY <1>8 DEF BookTypes, Books
<1>10. (order.side = "sell" => order.side # "buy") /\ Whole(c)
  BY <1>8 DEF BookTypes, Books, Whole
<1>11. Filling(b, o, p, q, c, e, x, z, signed)
  BY <1>1, <1>2, <1>3, <1>4, <1>9, <1>10 DEF Filling
<1> QED BY <1>0, <1>11

(* So does a fill of a live order within what CanFill admits: the cash or  *)
(* shares it takes are those the order had reserved.                       *)
LEMMA FillKeeps ==
    ASSUME NEW b, BookInv(b), NEW o \in OrderIds, b.orders[o].state \in LiveStates,
           OpenAt(b.orders[o].session) \in Times,
           NEW p \in Nat, NEW q \in Nat \ {0}, CanFill(b, o, p, q),
           NEW c, c = Fill(b, o, p, q)
    PROVE  BookInv(c)
<1>1. BookTypes(b) /\ Balanced(b) /\ Backed(b) /\ Covered(b)
  BY DEF BookInv
<1>2. PICK order \in OrderRows : order = b.orders[o] /\ OrderFine(order)
  BY <1>1, BookFields
<1>3. PICK i \in Instruments : i = order.instrument
  BY <1>2 DEF OrderFine
<1>4. PICK gross, fee, paid : /\ gross = GrossValue(p, q) /\ fee = TradeFee(gross)
                              /\ paid = PurchaseCost(p, q)
  OBVIOUS
<1>5. gross \in Nat /\ fee \in Nat \ {0} /\ paid \in Nat /\ paid = gross + fee
  <2>1. /\ GrossValue(p, q) \in Nat /\ TradeFee(GrossValue(p, q)) \in Nat \ {0}
        /\ PurchaseCost(p, q) = GrossValue(p, q) + TradeFee(GrossValue(p, q))
    BY MoneyTypes
  <2> QED BY <1>4, <2>1
<1>6. PICK e, x, z, signed : Filling(b, o, p, q, c, e, x, z, signed)
  <2>1. PICK e, x, z, signed : Filling(b, o, p, q, Fill(b, o, p, q), e, x, z, signed)
    BY <1>1, FillFields
  <2> QED BY <2>1
<1>7. /\ order.side \in {"buy", "sell"} /\ order.quantity \in Nat /\ order.cash \in Nat
      /\ order.shares \in Nat /\ order.session \in Sessions /\ OpenAt(order.session) \in Times
  BY <1>2, OrderFields
<1>8. PICK had : had = b.positions[i]
  OBVIOUS
<1>9. had.quantity \in Nat /\ had.reserved \in Nat /\ had.cost \in Nat
  BY <1>1, <1>3, <1>8, BookFields
<1>10. PICK end : end = IF q < order.quantity THEN "partially_filled_cancelled" ELSE "filled"
  OBVIOUS
<1>11. /\ order.side = "buy" => x = order.cash - paid /\ z = 0 /\ signed = q
       /\ order.side = "sell" => x = 0 /\ z = gross - fee /\ signed = -q
       /\ e = Row(IF order.side = "buy" THEN "buy_fill" ELSE "sell_fill", o,
                  Delta(x, -order.cash, z, 0), i, signed, OpenAt(order.session))
       /\ c.balances = Plus(b.balances, Delta(x, -order.cash, z, 0))
       /\ c.positions = [b.positions EXCEPT
                           ![i] = [quantity |-> @.quantity + signed,
                                   reserved |-> @.reserved - order.shares,
                                   cost |-> CostAfter(b, order, paid, q)]]
       /\ c.orders = [b.orders EXCEPT ![o] = Closed(order, end)]
       /\ c.ledger = b.ledger \cup {e}
       /\ c.recorded = b.recorded /\ c.splits = b.splits /\ Whole(c)
  BY <1>2, <1>3, <1>4, <1>6, <1>10 DEF Filling
<1>12. /\ order.side = "buy" => paid <= order.cash
       /\ order.side = "sell" => /\ q <= had.quantity /\ order.shares <= had.reserved
                                 /\ q <= order.shares /\ fee <= gross
  BY <1>2, <1>3, <1>4, <1>8 DEF CanFill
<1>13. x \in Nat /\ z \in Nat /\ signed \in Int /\ had.quantity + signed \in Nat /\ -order.cash \in Int
       /\ order.shares + signed >= 0
  BY <1>2, <1>5, <1>7, <1>9, <1>11, <1>12 DEF OrderFine
<1>14. /\ e \in LedgerRows /\ e.of = o /\ e.instrument = i /\ e.quantity = signed
       /\ e.at = OpenAt(order.session) /\ e.kind \in FillKinds
       /\ e.kind = "sell_fill" <=> order.side = "sell"
       /\ e.delta["available"] = x /\ e.delta["reserved"] = -order.cash
       /\ e.delta["unsettled"] = z /\ e.delta["dividends"] = 0 /\ e.delta.unsettled = z
  BY <1>7, <1>11, <1>13 DEF Row, Delta, LedgerRows, FillKinds
<1>15. PICK closed : /\ closed = Closed(order, end) /\ closed \in OrderRows /\ OrderFine(closed)
                     /\ closed.state = end /\ closed.cash = 0 /\ closed.shares = 0
                     /\ closed.instrument = i /\ closed.session = order.session
  <2>1. end \in OrderStates \ LiveStates
    BY <1>10 DEF OrderStates, LiveStates
  <2> QED BY <1>3, <2>1, ClosedFields
<1>16. c.orders[o] = closed /\ \A r \in OrderIds \ {o} : c.orders[r] = b.orders[r]
  BY <1>1, <1>11, <1>15, BookFields
<1>17. \A r \in b.ledger : /\ r.kind \in {"settlement"} \cup FillKinds => r.of # o
                           /\ r.kind = "release" => r.of # o
  <2>1. order.state \in LiveStates
    BY <1>2
  <2> QED BY <1>1, <1>2, <2>1, BookFields DEF RowFine, LiveStates, FillKinds
<1>18. e \notin b.ledger
  BY <1>14, <1>17
<1>19. b.ledger \in SUBSET LedgerRows /\ IsFiniteSet(b.ledger) /\ b.orders \in [OrderIds -> OrderRows]
  BY <1>1, BookFields
<1>20. /\ \A f \in Columns : ColumnSum(f, c.ledger) = ColumnSum(f, b.ledger) + e.delta[f]
       /\ \A j : QuantitySum(j, c.ledger) = QuantitySum(j, b.ledger) + QuantityOf(e, j)
       /\ \A j, t : OpeningSum(j, t, c.ledger) = OpeningSum(j, t, b.ledger) + OpeningOf(e, j, t)
  <2>1. /\ \A f \in Columns : ColumnSum(f, b.ledger \cup {e}) = ColumnSum(f, b.ledger) + e.delta[f]
        /\ \A j : QuantitySum(j, b.ledger \cup {e}) = QuantitySum(j, b.ledger) + QuantityOf(e, j)
        /\ \A j, t : OpeningSum(j, t, b.ledger \cup {e})
                       = OpeningSum(j, t, b.ledger) + OpeningOf(e, j, t)
    BY <1>14, <1>18, <1>19, RowAdds
  <2>2. c.ledger = b.ledger \cup {e}
    BY <1>11
  <2> QED BY <2>1, <2>2
<1>21. /\ CashSum(c.orders) = CashSum(b.orders) - order.cash
       /\ \A j : SharesSum(c.orders, j) = SharesSum(b.orders, j) - SharesOf(order, j)
       /\ \A j, t : OpenedSum(c.orders, j, t) = OpenedSum(b.orders, j, t) - OpenedOf(order, j, t)
  <2>1. Updated(b.orders, c.orders, o, closed)
    BY <1>11, <1>15 DEF Updated
  <2>2. /\ CashSum(c.orders) = CashSum(b.orders) - b.orders[o].cash + closed.cash
        /\ \A j : SharesSum(c.orders, j) = SharesSum(b.orders, j)
                      - SharesOf(b.orders[o], j) + SharesOf(closed, j)
        /\ \A j, t : OpenedSum(c.orders, j, t) = OpenedSum(b.orders, j, t)
                         - OpenedOf(b.orders[o], j, t) + OpenedOf(closed, j, t)
    <3>1. closed \in OrderRows
      BY <1>15
    <3> QED BY <1>19, <2>1, <3>1, OrderChanges
  <2>3. /\ CashSum(b.orders) \in Nat /\ \A j : SharesSum(b.orders, j) \in Nat
        /\ \A j, t : OpenedSum(b.orders, j, t) \in Nat
    BY <1>19, OrderSums
  <2>4. /\ \A j : SharesOf(closed, j) = 0 /\ SharesOf(order, j) \in Nat
        /\ \A j, t : OpenedOf(closed, j, t) = 0 /\ OpenedOf(order, j, t) \in Nat
    BY <1>7, <1>15 DEF SharesOf, OpenedOf
  <2>5. CashSum(c.orders) = CashSum(b.orders) - order.cash
    BY <1>2, <1>7, <1>15, <2>2, <2>3
  <2>6. ASSUME NEW j PROVE SharesSum(c.orders, j) = SharesSum(b.orders, j) - SharesOf(order, j)
    BY <1>2, <2>2, <2>3, <2>4
  <2>7. ASSUME NEW j, NEW t
        PROVE  OpenedSum(c.orders, j, t) = OpenedSum(b.orders, j, t) - OpenedOf(order, j, t)
    BY <1>2, <2>2, <2>3, <2>4
  <2> QED BY <2>5, <2>6, <2>7
<1>22. c.orders \in [OrderIds -> OrderRows]
  BY <1>11, <1>15, <1>19
<1>23. /\ CashSum(c.orders) \in Nat /\ CashSum(b.orders) \in Nat
       /\ \A j : SharesSum(c.orders, j) \in Nat /\ SharesSum(b.orders, j) \in Nat
       /\ \A j, t : OpenedSum(c.orders, j, t) \in Nat /\ OpenedSum(b.orders, j, t) \in Nat
  BY <1>19, <1>22, OrderSums
<1>24. /\ c.balances["available"] = b.balances["available"] + x
       /\ c.balances["reserved"] = b.balances["reserved"] - order.cash
       /\ c.balances["unsettled"] = b.balances["unsettled"] + z
       /\ c.balances["dividends"] = b.balances["dividends"]
       /\ c.balances \in Balances
  <2>1. b.balances \in Balances /\ \A f \in Columns : b.balances[f] \in Nat
    BY <1>1, BookFields
  <2>2. Gains(b.balances, c.balances, x, -order.cash, z, 0) /\ x \in Int /\ z \in Int
    BY <1>11, <1>13 DEF Gains
  <2>3. b.balances["reserved"] - order.cash >= 0
    BY <1>1, <1>21, <1>23 DEF Backed
  <2> QED BY <1>7, <1>13, <2>1, <2>2, <2>3, GainsFields DEF Columns
<1>25. PICK cost : cost = CostAfter(b, order, paid, q)
  OBVIOUS
<1>26. cost \in Nat /\ (had.quantity + signed = 0 => cost = 0)
  <2>1. CASE order.side = "buy"
    <3>1. cost = had.cost + paid
      BY <1>3, <1>8, <1>25, <2>1 DEF CostAfter
    <3> QED BY <1>5, <1>9, <1>11, <2>1, <3>1
  <2>2. CASE order.side = "sell"
    <3>1. cost = had.cost - Rounded(had.cost * q, had.quantity)
      BY <1>3, <1>8, <1>25, <2>2 DEF CostAfter
    <3>2. q <= had.quantity /\ had.quantity \in Nat \ {0} /\ signed = -q
      BY <1>9, <1>11, <1>12, <2>2
    <3>3. /\ Rounded(had.cost * q, had.quantity) <= had.cost
          /\ Rounded(had.cost * q, had.quantity) \in Nat
          /\ q = had.quantity => Rounded(had.cost * q, had.quantity) = had.cost
      BY <1>9, <3>2, RoundedPart
    <3> QED BY <1>9, <3>1, <3>2, <3>3
  <2> QED BY <1>7, <2>1, <2>2
<1>27. /\ c.positions[i] = [quantity |-> had.quantity + signed, reserved |-> had.reserved - order.shares,
                            cost |-> cost]
       /\ \A j \in Instruments \ {i} : c.positions[j] = b.positions[j]
  <2>1. b.positions \in Positions
    BY <1>1, BookFields
  <2> QED BY <1>8, <1>11, <1>25, <2>1 DEF Positions
<1>28. had.reserved = SharesSum(b.orders, i) /\ had.reserved - order.shares = SharesSum(c.orders, i)
  <2>1. SharesOf(order, i) = order.shares
    BY <1>3 DEF SharesOf
  <2> QED BY <1>1, <1>8, <1>21, <2>1 DEF Backed
<1>29. BookTypes(c)
  <2>1. c.positions \in Positions
    <3>1. c.positions[i] \in [quantity : Nat, reserved : Nat, cost : Nat]
      BY <1>13, <1>23, <1>26, <1>27, <1>28
    <3>2. b.positions \in Positions
      BY <1>1, BookFields
    <3>3. DOMAIN c.positions = Instruments /\ c.positions = [j \in Instruments |-> c.positions[j]]
      BY <1>11, <3>2 DEF Positions
    <3> QED BY <1>27, <3>1, <3>2, <3>3 DEF Positions
  <2>2. c.ledger \in SUBSET LedgerRows /\ IsFiniteSet(c.ledger)
    <3>1. IsFiniteSet(b.ledger \cup {e})
      BY <1>19, FS_AddElement
    <3> QED BY <1>11, <1>14, <1>19, <3>1
  <2>3. c \in Books
    <3>1. b.recorded \in [Actions -> Editions] /\ b.splits \in [Actions -> SUBSET Actions]
      BY <1>1, BookFields
    <3>2. Whole(c) /\ c.recorded = b.recorded /\ c.splits = b.splits
      BY <1>11
    <3> QED BY <1>22, <1>24, <2>1, <2>2, <3>1, <3>2 DEF Whole, Books
  <2>4. \A r \in OrderIds : OrderFine(c.orders[r])
    BY <1>1, <1>15, <1>16, BookFields
  <2>5. RowFine(c, e)
    BY <1>10, <1>13, <1>14, <1>15, <1>16 DEF RowFine, OrderKinds, FillKinds, ActionKinds
  <2>6. ASSUME NEW r \in b.ledger PROVE RowFine(c, r)
    <3>1. RowFine(b, r)
      BY <1>1, BookFields
    <3>2. CASE r.kind = "reserve" /\ r.of = o
      <4>1. r.instrument = i /\ r.quantity = 0
        BY <1>2, <1>3, <3>1, <3>2 DEF RowFine, OrderKinds, FillKinds
      <4>2. c.orders[o].state # "none"
        BY <1>10, <1>15, <1>16
      <4> QED BY <1>15, <1>16, <3>2, <4>1, <4>2 DEF RowFine, OrderKinds, FillKinds, ActionKinds
    <3>3. CASE ~(r.kind = "reserve" /\ r.of = o)
      <4>1. r.kind \in OrderKinds => r.of \in OrderIds \ {o}
        BY <1>17, <3>1, <3>3 DEF RowFine, OrderKinds, FillKinds
      <4>2. r.kind \in ActionKinds => Recorded(c, r.of)
        BY <1>11, <3>1 DEF RowFine, Recorded
      <4> QED BY <1>16, <3>1, <4>1, <4>2, RowStaysFine
    <3> QED BY <3>2, <3>3
  <2>7. KeysApart(c)
    BY <1>1, <1>11, <1>14, <1>17 DEF BookTypes, KeysApart
  <2>8. Accrued(c)
    BY <1>1, <1>11 DEF BookTypes, Accrued, Recorded
  <2> QED BY <1>11, <2>2, <2>3, <2>4, <2>5, <2>6, <2>7, <2>8 DEF BookTypes
<1>30. Balanced(c)
  <2>1. \A f \in Columns : b.balances[f] \in Nat /\ b.balances[f] = ColumnSum(f, b.ledger)
    BY <1>1, BookFields DEF Balanced
  <2>2. \A f \in Columns : c.balances[f] = b.balances[f] + e.delta[f]
    BY <1>7, <1>14, <1>24, <2>1 DEF Columns
  <2>3. \A f \in Columns : c.balances[f] = ColumnSum(f, c.ledger)
    BY <1>20, <2>1, <2>2
  <2>4. ASSUME NEW j \in Instruments PROVE c.positions[j].quantity = QuantitySum(j, c.ledger)
    <3>1. b.positions[j].quantity = QuantitySum(j, b.ledger) /\ b.positions[j].quantity \in Nat
      BY <1>1, BookFields DEF Balanced
    <3>2. QuantityOf(e, j) = IF j = i THEN signed ELSE 0
      BY <1>14 DEF QuantityOf
    <3>3. QuantitySum(j, c.ledger) = QuantitySum(j, b.ledger) + QuantityOf(e, j)
      BY <1>20
    <3> QED BY <1>8, <1>27, <3>1, <3>2, <3>3
  <2> QED BY <2>3, <2>4 DEF Balanced
<1>31. ColumnSum("unsettled", Unsettled(c)) = ColumnSum("unsettled", Unsettled(b)) + z
  <2>1. CASE order.side = "buy"
    <3>1. Unsettled(c) = Unsettled(b)
      BY <1>11, <1>14, <2>1 DEF Unsettled, FillKinds
    <3>2. Unsettled(b) \in SUBSET LedgerRows /\ IsFiniteSet(Unsettled(b))
      BY <1>19, FS_Subset DEF Unsettled
    <3>3. ColumnSum("unsettled", Unsettled(b)) \in Int /\ z = 0
      BY <1>11, <2>1, <3>2, LedgerSummable DEF Columns
    <3> QED BY <3>1, <3>3
  <2>2. CASE order.side = "sell"
    <3>1. PICK U : U = Unsettled(b)
      OBVIOUS
    <3>2. Unsettled(c) = U \cup {e}
      BY <1>11, <1>14, <1>17, <2>2, <3>1 DEF Unsettled
    <3>3. U \in SUBSET LedgerRows /\ IsFiniteSet(U) /\ e \notin U
      BY <1>18, <1>19, <3>1, FS_Subset DEF Unsettled
    <3>4. \A f \in Columns : ColumnSum(f, U \cup {e}) = ColumnSum(f, U) + e.delta[f]
      BY <1>14, <3>3, RowAdds
    <3> QED BY <1>14, <3>1, <3>2, <3>4 DEF Columns
  <2> QED BY <1>7, <2>1, <2>2
<1>32. Backed(c)
  <2>1. Owed(c) = Owed(b)
    BY <1>11, <1>14 DEF Owed, FillKinds
  <2>2. ASSUME NEW j \in Instruments
        PROVE  /\ c.positions[j].reserved = SharesSum(c.orders, j)
               /\ c.positions[j].quantity = 0 => c.positions[j].cost = 0
    <3>1. CASE j = i
      BY <1>26, <1>27, <1>28, <3>1
    <3>2. CASE j # i
      <4>1. SharesOf(order, j) = 0
        BY <1>3, <3>2 DEF SharesOf
      <4> QED BY <1>1, <1>21, <1>23, <1>27, <3>2, <4>1 DEF Backed
    <3> QED BY <3>1, <3>2
  <2> QED BY <1>1, <1>21, <1>24, <1>31, <2>1, <2>2 DEF Backed
<1>33. Covered(c)
  <2> SUFFICES ASSUME NEW j \in Instruments, NEW t \in Moments
               PROVE  OpenedSum(c.orders, j, t) <= OpeningSum(j, t, c.ledger)
    BY DEF Covered
  <2>1. OpenedSum(b.orders, j, t) <= OpeningSum(j, t, b.ledger) /\ OpeningSum(j, t, b.ledger) \in Int
    BY <1>1, BookFields, LedgerSummable DEF Covered
  <2>2. OpenedOf(order, j, t) + OpeningOf(e, j, t) >= 0
        /\ OpenedOf(order, j, t) \in Int /\ OpeningOf(e, j, t) \in Int
    <3>1. ComesBefore(e, j, t) <=> OpensBefore(order, j, t)
      BY <1>3, <1>14 DEF ComesBefore, OpensBefore, FillKinds
    <3> QED BY <1>7, <1>13, <1>14, <3>1 DEF OpenedOf, OpeningOf
  <2> QED BY <1>20, <1>21, <1>23, <2>1, <2>2
<1> QED BY <1>29, <1>30, <1>32, <1>33 DEF BookInv

-------------------------------------------------------------------------------
(* Sales are settled: what each brings becomes available.                  *)
SettleRow(e) ==
    Row("settlement", e.of, Delta(e.delta.unsettled, 0, -e.delta.unsettled, 0), e.instrument, 0, 0)
RowsOfSettlement(D) == {SettleRow(e) : e \in D}

(* Settling the sales of D writes one row for each, which together move    *)
(* what these sales brought.                                               *)
LEMMA SettleRows ==
    ASSUME NEW b, BookTypes(b), NEW D \in SUBSET Unsettled(b), NEW N, N = RowsOfSettlement(D)
    PROVE  /\ N \in SUBSET LedgerRows /\ IsFiniteSet(N)
           /\ \A r \in N : r.kind = "settlement" /\ r.quantity = 0
           /\ \A r \in N : \E e \in D : r.of = e.of /\ r.instrument = e.instrument /\ r = SettleRow(e)
           /\ \A e \in D : \E r \in N : r.of = e.of
           /\ ColumnSum("available", N) = ColumnSum("unsettled", D)
           /\ ColumnSum("unsettled", N) = -ColumnSum("unsettled", D)
           /\ ColumnSum("reserved", N) = 0 /\ ColumnSum("dividends", N) = 0
           /\ ColumnSum("unsettled", D) \in Nat
<1>1. /\ D \in SUBSET b.ledger /\ D \in SUBSET LedgerRows /\ IsFiniteSet(D)
      /\ \A e \in D : e.kind = "sell_fill"
  <2>1. b.ledger \in SUBSET LedgerRows /\ IsFiniteSet(b.ledger)
    BY BookFields
  <2> QED BY <2>1, FS_Subset DEF Unsettled
<1>2. ASSUME NEW e \in D, NEW r, r = SettleRow(e)
      PROVE  /\ r \in LedgerRows /\ r.kind = "settlement" /\ r.of = e.of /\ r.quantity = 0
             /\ r.instrument = e.instrument
             /\ r.delta["available"] = e.delta["unsettled"]
             /\ r.delta["unsettled"] = -e.delta["unsettled"]
             /\ r.delta["reserved"] = 0 /\ r.delta["dividends"] = 0
             /\ e.delta["unsettled"] \in Nat
  <2>1. 0 \in Times
    BY BookAssumption DEF Times, CloseAt
  <2>2. PICK u : u = e.delta["unsettled"]
    OBVIOUS
  <2>3. u \in Nat /\ e.of \in OrderIds \cup Actions \cup {None} /\ e.instrument \in Instruments \cup {None}
    <3>1. e \in LedgerRows /\ RowFine(b, e) /\ e.kind = "sell_fill"
      BY <1>1, BookFields
    <3>2. e.delta["unsettled"] \in Int /\ e.delta["unsettled"] >= 0
      BY <3>1, RowFields DEF RowFine, Columns
    <3> QED BY <2>2, <3>1, <3>2, RowFields
  <2>4. r = Row("settlement", e.of, Delta(u, 0, -u, 0), e.instrument, 0, 0)
    BY <1>2, <2>2 DEF SettleRow
  <2>5. /\ r \in LedgerRows /\ r.kind = "settlement" /\ r.of = e.of /\ r.quantity = 0
        /\ r.instrument = e.instrument
        /\ r.delta["available"] = u /\ r.delta["unsettled"] = -u
        /\ r.delta["reserved"] = 0 /\ r.delta["dividends"] = 0
    BY <2>1, <2>3, <2>4 DEF Row, Delta, LedgerRows
  <2> QED BY <2>2, <2>3, <2>5
<1>3. PICK g : g = [e \in D |-> SettleRow(e)]
  OBVIOUS
<1>4. N = {g[e] : e \in D} /\ \A e \in D : g[e] = SettleRow(e)
  BY <1>3 DEF RowsOfSettlement
<1>5. /\ N \in SUBSET LedgerRows
      /\ \A r \in N : r.kind = "settlement" /\ r.quantity = 0
      /\ \A r \in N : r.delta["reserved"] = 0 /\ r.delta["dividends"] = 0
      /\ \A r \in N : \E e \in D : r.of = e.of /\ r.instrument = e.instrument /\ r = SettleRow(e)
      /\ \A e \in D : \E r \in N : r.of = e.of
  BY <1>2 DEF RowsOfSettlement
<1>6. IsFiniteSet(N)
  <2>1. IsFiniteSet({g[e] : e \in D})
    BY <1>1, ImageFinite
  <2> QED BY <1>4, <2>1
<1>7. \A e, r \in D : g[e] = g[r] => e = r
  <2> SUFFICES ASSUME NEW e \in D, NEW r \in D, g[e] = g[r] PROVE e = r
    OBVIOUS
  <2>1. e.of = r.of
    BY <1>2, <1>4
  <2> QED BY <1>1, <2>1 DEF BookTypes, KeysApart
<1>8. Summable(DeltaOf("unsettled"), D) /\ ColumnSum("unsettled", D) \in Nat
  <2>1. \A e \in D : DeltaOf("unsettled")[e] \in Nat
    BY <1>1, <1>2, RowTerms DEF Columns
  <2> QED BY <1>1, <2>1, SumNat DEF Summable, ColumnSum
<1>9. ColumnSum("available", N) = ColumnSum("unsettled", D)
  <2>1. \A e \in D : DeltaOf("available")[g[e]] = DeltaOf("unsettled")[e]
    BY <1>1, <1>2, <1>4, RowTerms DEF Columns
  <2>2. SumFunctionOnSet(DeltaOf("available"), {g[e] : e \in D}) = SumFunctionOnSet(DeltaOf("unsettled"), D)
    BY <1>1, <1>7, <1>8, <2>1, SumImage
  <2> QED BY <1>4, <2>2 DEF ColumnSum
<1>10. ColumnSum("unsettled", N) = -ColumnSum("unsettled", D)
  <2>1. PICK h : h = [e \in D |-> -DeltaOf("unsettled")[e]]
    OBVIOUS
  <2>2. (\A e \in D : h[e] = -DeltaOf("unsettled")[e]) /\ Summable(h, D)
    BY <1>8, <2>1 DEF Summable
  <2>3. SumFunctionOnSet(h, D) = -SumFunctionOnSet(DeltaOf("unsettled"), D)
    BY <1>1, <1>8, <2>2, SumNegated
  <2>4. ASSUME NEW e \in D PROVE DeltaOf("unsettled")[g[e]] = h[e]
    <3>1. g[e] \in LedgerRows /\ g[e].delta["unsettled"] = -e.delta["unsettled"] /\ e \in LedgerRows
      BY <1>1, <1>2, <1>4
    <3> QED BY <2>2, <3>1, RowTerms DEF Columns
  <2>5. SumFunctionOnSet(DeltaOf("unsettled"), {g[e] : e \in D}) = SumFunctionOnSet(h, D)
    BY <1>1, <1>7, <2>2, <2>4, SumImage
  <2> QED BY <1>4, <2>3, <2>5 DEF ColumnSum
<1>11. ColumnSum("reserved", N) = 0 /\ ColumnSum("dividends", N) = 0
  <2>1. \A r \in N : DeltaOf("reserved")[r] = 0 /\ DeltaOf("dividends")[r] = 0
    BY <1>5, RowTerms DEF Columns
  <2> QED BY <1>6, <2>1, SumZero DEF ColumnSum
<1> QED BY <1>5, <1>6, <1>8, <1>9, <1>10, <1>11

(* What a settlement changes, D being the sales that are due.              *)
Settling(b, c, D, N) ==
    LET sum == ColumnSum("unsettled", D) IN
    /\ D \in SUBSET Unsettled(b) /\ N = RowsOfSettlement(D)
    /\ c.balances = Plus(b.balances, Delta(sum, 0, -sum, 0))
    /\ c.ledger = b.ledger \cup N /\ c.positions = b.positions /\ c.orders = b.orders
    /\ c.recorded = b.recorded /\ c.splits = b.splits /\ Whole(c)

(* Settle does that.                                                       *)
LEMMA SettleFields ==
    ASSUME NEW b, BookTypes(b), NEW through
    PROVE  \E D, N : Settling(b, Settle(b, through), D, N)
<1>0. PICK c : c = Settle(b, through)
  OBVIOUS
<1>1. PICK D : D = {e \in Unsettled(b) : SettlementStart(b.orders[e.of].session) <= through}
  OBVIOUS
<1>2. PICK f : f = [e \in D |-> e.delta.unsettled]
  OBVIOUS
<1>3. PICK sum : sum = SumFunction(f)
  OBVIOUS
<1>4. PICK N : N = RowsOfSettlement(D)
  OBVIOUS
<1>5. sum = ColumnSum("unsettled", D)
  <2>1. D \in SUBSET LedgerRows /\ IsFiniteSet(D)
    <3>1. b.ledger \in SUBSET LedgerRows /\ IsFiniteSet(b.ledger)
      BY BookFields
    <3> QED BY <1>1, <3>1, FS_Subset DEF Unsettled
  <2>2. \A e \in D : f[e] = DeltaOf("unsettled")[e]
    BY <1>2, <2>1 DEF DeltaOf
  <2>3. SumFunctionOnSet(f, D) = SumFunctionOnSet(DeltaOf("unsettled"), D)
    BY <2>1, <2>2, SumSame
  <2> QED BY <1>2, <1>3, <2>3 DEF SumFunction, ColumnSum
<1>6. c = [b EXCEPT !.balances = Plus(@, Delta(sum, 0, -sum, 0)), !.ledger = @ \cup N]
  BY <1>0, <1>1, <1>2, <1>3, <1>4 DEF Settle, RowsOfSettlement, SettleRow
<1>7. /\ c.balances = Plus(b.balances, Delta(sum, 0, -sum, 0))
      /\ c.ledger = b.ledger \cup N /\ c.positions = b.positions /\ c.orders = b.orders
      /\ c.recorded = b.recorded /\ c.splits = b.splits /\ Whole(c)
  BY <1>6 DEF BookTypes, Books, Whole
<1>8. Settling(b, c, D, N)
  BY <1>1, <1>4, <1>5, <1>7 DEF Settling
<1> QED BY <1>0, <1>8

(* Settling the sales that are due keeps the invariant.                    *)
LEMMA SettleKeeps ==
    ASSUME NEW b, BookInv(b), NEW through, NEW c, c = Settle(b, through)
    PROVE  BookInv(c)
<1>1. BookTypes(b) /\ Balanced(b) /\ Backed(b) /\ Covered(b)
  BY DEF BookInv
<1>2. PICK D, N : Settling(b, c, D, N)
  <2>1. PICK D, N : Settling(b, Settle(b, through), D, N)
    BY <1>1, SettleFields
  <2> QED BY <2>1
<1>3. PICK sum : sum = ColumnSum("unsettled", D)
  OBVIOUS
<1>4. /\ D \in SUBSET Unsettled(b) /\ N = RowsOfSettlement(D)
      /\ c.balances = Plus(b.balances, Delta(sum, 0, -sum, 0))
      /\ c.positions = b.positions /\ c.orders = b.orders
      /\ c.recorded = b.recorded /\ c.splits = b.splits /\ Whole(c)
  BY <1>2, <1>3 DEF Settling
<1>5. c.ledger = b.ledger \cup N
  BY <1>2 DEF Settling
<1>6. /\ N \in SUBSET LedgerRows /\ IsFiniteSet(N)
      /\ \A r \in N : r.kind = "settlement" /\ r.quantity = 0
      /\ \A r \in N : \E e \in D : r.of = e.of /\ r.instrument = e.instrument /\ r = SettleRow(e)
      /\ \A e \in D : \E r \in N : r.of = e.of
  BY <1>1, <1>4, SettleRows
<1>7. /\ ColumnSum("available", N) = sum /\ ColumnSum("unsettled", N) = -sum
      /\ ColumnSum("reserved", N) = 0 /\ ColumnSum("dividends", N) = 0 /\ sum \in Nat
  BY <1>1, <1>3, <1>4, SettleRows
<1>8. b.ledger \in SUBSET LedgerRows /\ IsFiniteSet(b.ledger)
  BY <1>1, BookFields
<1>9. \A r \in b.ledger, e \in D : r.kind = "settlement" => r.of # e.of
  BY <1>4 DEF Unsettled
<1>10. b.ledger \cap N = {}
  BY <1>6, <1>9
<1>11. /\ \A f \in Columns : ColumnSum(f, c.ledger) = ColumnSum(f, b.ledger) + ColumnSum(f, N)
       /\ SameShares(b.ledger, c.ledger)
  <2>1. /\ \A f \in Columns : ColumnSum(f, b.ledger \cup N) = ColumnSum(f, b.ledger) + ColumnSum(f, N)
        /\ SameShares(b.ledger, b.ledger \cup N)
    BY <1>6, <1>8, <1>10, RowsWithoutShares
  <2> QED BY <1>5, <2>1
<1>12. /\ ColumnSum("unsettled", Unsettled(c)) = ColumnSum("unsettled", Unsettled(b)) - sum
       /\ ColumnSum("unsettled", Unsettled(c)) \in Nat
  <2>1. PICK U : U = Unsettled(b)
    OBVIOUS
  <2>2. Unsettled(c) = U \ D
    BY <1>5, <1>6, <2>1, <1>1, <1>4 DEF Unsettled, BookTypes, KeysApart
  <2>3. U \in SUBSET LedgerRows /\ IsFiniteSet(U) /\ D \in SUBSET U
    BY <1>4, <1>8, <2>1, FS_Subset DEF Unsettled
  <2>4. /\ ColumnSum("unsettled", U) = ColumnSum("unsettled", D) + ColumnSum("unsettled", U \ D)
        /\ ColumnSum("unsettled", D) \in Int /\ ColumnSum("unsettled", U \ D) \in Int
    <3>1. Summable(DeltaOf("unsettled"), U)
      BY <2>3, LedgerSummable DEF Columns
    <3> QED BY <2>3, <3>1, SumSplit DEF ColumnSum
  <2>5. ColumnSum("unsettled", U \ D) \in Nat
    <3>1. U \ D \in SUBSET Unsettled(b)
      BY <2>1
    <3> QED BY <1>1, <3>1, SettleRows
  <2> QED BY <1>3, <2>1, <2>2, <2>4, <2>5
<1>13. /\ c.balances["available"] = b.balances["available"] + sum
       /\ c.balances["reserved"] = b.balances["reserved"]
       /\ c.balances["unsettled"] = b.balances["unsettled"] - sum
       /\ c.balances["dividends"] = b.balances["dividends"]
       /\ c.balances \in Balances
  <2>1. b.balances \in Balances /\ \A f \in Columns : b.balances[f] \in Nat
    BY <1>1, BookFields
  <2>2. Gains(b.balances, c.balances, sum, 0, -sum, 0) /\ -sum \in Int /\ sum \in Int
    BY <1>4, <1>7 DEF Gains
  <2>3. b.balances["unsettled"] - sum >= 0
    BY <1>1, <1>12 DEF Backed
  <2> QED BY <1>7, <2>1, <2>2, <2>3, GainsFields DEF Columns
<1>14. BookTypes(c)
  <2>1. c.ledger \in SUBSET LedgerRows /\ IsFiniteSet(c.ledger)
    <3>1. IsFiniteSet(b.ledger \cup N)
      BY <1>6, <1>8, FS_Union
    <3> QED BY <1>5, <1>6, <1>8, <3>1
  <2>2. c \in Books
    <3>1. /\ b.positions \in Positions /\ b.orders \in [OrderIds -> OrderRows]
          /\ b.recorded \in [Actions -> Editions] /\ b.splits \in [Actions -> SUBSET Actions]
      BY <1>1, BookFields
    <3> QED BY <1>4, <1>13, <2>1, <3>1 DEF Whole, Books
  <2>3. \A o \in OrderIds : OrderFine(c.orders[o])
    BY <1>1, <1>4, BookFields
  <2>4. ASSUME NEW r \in b.ledger PROVE RowFine(c, r)
    <3>1. RowFine(b, r)
      BY <1>1, BookFields
    <3>2. r.kind \in ActionKinds => Recorded(c, r.of)
      BY <1>4, <3>1 DEF RowFine, Recorded
    <3> QED BY <1>4, <3>1, <3>2, RowStaysFine
  <2>5. ASSUME NEW r \in N PROVE RowFine(c, r)
    <3>1. PICK e \in D : r.of = e.of /\ r.instrument = e.instrument
      BY <1>6
    <3>2. RowFine(c, e) /\ e.kind = "sell_fill"
      BY <1>4, <2>4, <3>1 DEF Unsettled
    <3> QED BY <1>6, <3>1, <3>2 DEF RowFine, OrderKinds, FillKinds, ActionKinds
  <2>6. KeysApart(c)
    <3> SUFFICES ASSUME NEW e \in c.ledger, NEW r \in c.ledger, e.kind = r.kind, e.of = r.of
                 PROVE  e = r
      BY DEF KeysApart
    <3>1. \A n \in N, m \in b.ledger : m.kind = n.kind => m.of # n.of
      BY <1>6, <1>9
    <3>2. ASSUME NEW n \in N, NEW m \in N, n.of = m.of PROVE n = m
      <4>1. PICK d \in D : n.of = d.of /\ n = SettleRow(d)
        BY <1>6
      <4>2. PICK g \in D : m.of = g.of /\ m = SettleRow(g)
        BY <1>6
      <4>3. d = g
        BY <1>1, <1>4, <3>2, <4>1, <4>2 DEF BookTypes, KeysApart, Unsettled
      <4> QED BY <4>1, <4>2, <4>3
    <3> QED BY <1>1, <1>5, <3>1, <3>2 DEF BookTypes, KeysApart
  <2>7. Accrued(c)
    BY <1>1, <1>4, <1>5 DEF BookTypes, Accrued, Recorded
  <2> QED BY <1>5, <2>1, <2>2, <2>3, <2>4, <2>5, <2>6, <2>7 DEF BookTypes
<1>15. Balanced(c)
  <2>1. \A f \in Columns : b.balances[f] \in Nat /\ b.balances[f] = ColumnSum(f, b.ledger)
    BY <1>1, BookFields DEF Balanced
  <2>2. \A f \in Columns : c.balances[f] = b.balances[f] + ColumnSum(f, N)
    BY <1>7, <1>13, <2>1 DEF Columns
  <2>3. \A f \in Columns : c.balances[f] = ColumnSum(f, c.ledger)
    BY <1>11, <2>1, <2>2
  <2> QED BY <1>1, <1>4, <1>11, <2>3 DEF Balanced, SameShares
<1>16. Backed(c)
  <2>1. Owed(c) = Owed(b)
    BY <1>5, <1>6 DEF Owed
  <2> QED BY <1>1, <1>4, <1>12, <1>13, <2>1 DEF Backed
<1>17. Covered(c)
  BY <1>1, <1>4, <1>11 DEF Covered, SameShares
<1> QED BY <1>14, <1>15, <1>16, <1>17 DEF BookInv

-------------------------------------------------------------------------------
(* A dividend is paid, the amount its accrual tells.                       *)
Paying(b, c, a, e, r) ==
    LET paid == e.delta.dividends IN
    /\ e \in b.ledger /\ e.kind = "dividend_accrual" /\ e.of = a
    /\ r = Row("dividend_payment", a, Delta(paid, 0, 0, -paid), Security[a], 0, 0)
    /\ c.balances = Plus(b.balances, Delta(paid, 0, 0, -paid))
    /\ c.ledger = b.ledger \cup {r} /\ c.positions = b.positions /\ c.orders = b.orders
    /\ c.recorded = b.recorded /\ c.splits = b.splits /\ Whole(c)

(* PayDividend does that: a recorded dividend has its accrual.             *)
LEMMA PayFields ==
    ASSUME NEW b, BookTypes(b), NEW a \in Actions, Kind[a] = "dividend", Recorded(b, a)
    PROVE  \E e, r : Paying(b, PayDividend(b, a), a, e, r)
<1>0. PICK c : c = PayDividend(b, a)
  OBVIOUS
<1>1. PICK e : e = CHOOSE n \in b.ledger : n.kind = "dividend_accrual" /\ n.of = a
  OBVIOUS
<1>2. e \in b.ledger /\ e.kind = "dividend_accrual" /\ e.of = a
  <2>1. \E n \in b.ledger : n.kind = "dividend_accrual" /\ n.of = a
    BY DEF BookTypes, Accrued
  <2> QED BY <1>1, <2>1
<1>3. PICK paid : paid = e.delta.dividends
  OBVIOUS
<1>4. PICK r : r = Row("dividend_payment", a, Delta(paid, 0, 0, -paid), Security[a], 0, 0)
  OBVIOUS
<1>5. c = [b EXCEPT !.balances = Plus(@, Delta(paid, 0, 0, -paid)), !.ledger = @ \cup {r}]
  BY <1>0, <1>1, <1>3, <1>4 DEF PayDividend
<1>6. /\ c.balances = Plus(b.balances, Delta(paid, 0, 0, -paid))
      /\ c.ledger = b.ledger \cup {r} /\ c.positions = b.positions /\ c.orders = b.orders
      /\ c.recorded = b.recorded /\ c.splits = b.splits /\ Whole(c)
  BY <1>5 DEF BookTypes, Books, Whole
<1>7. Paying(b, c, a, e, r)
  BY <1>2, <1>3, <1>4, <1>6 DEF Paying
<1> QED BY <1>0, <1>7

(* Paying a dividend once keeps the invariant.                             *)
LEMMA PayKeeps ==
    ASSUME NEW b, BookInv(b), NEW a \in Actions, Kind[a] = "dividend", Recorded(b, a),
           ~\E r \in b.ledger : r.kind = "dividend_payment" /\ r.of = a,
           NEW c, c = PayDividend(b, a)
    PROVE  BookInv(c)
<1>1. BookTypes(b) /\ Balanced(b) /\ Backed(b) /\ Covered(b)
  BY DEF BookInv
<1>2. PICK e, r : Paying(b, c, a, e, r)
  <2>1. PICK e, r : Paying(b, PayDividend(b, a), a, e, r)
    BY <1>1, PayFields
  <2> QED BY <2>1
<1>3. PICK paid : paid = e.delta.dividends
  OBVIOUS
<1>4. /\ e \in b.ledger /\ e.kind = "dividend_accrual" /\ e.of = a
      /\ r = Row("dividend_payment", a, Delta(paid, 0, 0, -paid), Security[a], 0, 0)
      /\ c.balances = Plus(b.balances, Delta(paid, 0, 0, -paid))
      /\ c.positions = b.positions /\ c.orders = b.orders
      /\ c.recorded = b.recorded /\ c.splits = b.splits /\ Whole(c)
  BY <1>2, <1>3 DEF Paying
<1>5. c.ledger = b.ledger \cup {r}
  BY <1>2 DEF Paying
<1>6. b.ledger \in SUBSET LedgerRows /\ IsFiniteSet(b.ledger)
  BY <1>1, BookFields
<1>7. paid \in Nat /\ e.delta["dividends"] = paid /\ e \in LedgerRows
  <2>1. e \in LedgerRows /\ RowFine(b, e)
    BY <1>1, <1>4, BookFields
  <2>2. paid \in Int /\ e.delta["dividends"] = paid
    BY <1>3, <2>1, RowFields DEF Columns
  <2> QED BY <1>3, <1>4, <2>1, <2>2 DEF RowFine
<1>8. /\ r \in LedgerRows /\ r.kind = "dividend_payment" /\ r.of = a /\ r.instrument = Security[a]
      /\ r.quantity = 0 /\ r.delta["available"] = paid /\ r.delta["reserved"] = 0
      /\ r.delta["unsettled"] = 0 /\ r.delta["dividends"] = -paid
  <2>1. 0 \in Times /\ Security[a] \in Instruments
    BY BookAssumption, ActionAssumption DEF Times, CloseAt
  <2> QED BY <1>4, <1>7, <2>1 DEF Row, Delta, LedgerRows
<1>9. r \notin b.ledger
  BY <1>8
<1>10. /\ \A f \in Columns : ColumnSum(f, c.ledger) = ColumnSum(f, b.ledger) + r.delta[f]
       /\ SameShares(b.ledger, c.ledger)
  <2>1. /\ \A f \in Columns : ColumnSum(f, b.ledger \cup {r}) = ColumnSum(f, b.ledger) + r.delta[f]
        /\ SameShares(b.ledger, b.ledger \cup {r})
    BY <1>6, <1>8, <1>9, RowWithoutShares
  <2> QED BY <1>5, <2>1
<1>11. /\ ColumnSum("dividends", Owed(c)) = ColumnSum("dividends", Owed(b)) - paid
       /\ ColumnSum("dividends", Owed(c)) \in Nat
  <2>1. PICK U : U = Owed(b)
    OBVIOUS
  <2>2. Owed(c) = U \ {e} /\ e \in U
    BY <1>1, <1>4, <1>5, <1>8, <2>1 DEF Owed, BookTypes, KeysApart
  <2>3. U \in SUBSET LedgerRows /\ IsFiniteSet(U) /\ IsFiniteSet(U \ {e})
    BY <1>6, <2>1, FS_Subset DEF Owed
  <2>4. \A n \in U : DeltaOf("dividends")[n] \in Nat
    <3>1. \A n \in U : n \in LedgerRows /\ n.delta["dividends"] >= 0 /\ n.delta["dividends"] \in Int
      BY <1>1, <2>1, BookFields, RowFields DEF Owed, RowFine, Columns
    <3> QED BY <3>1, RowTerms DEF Columns
  <2>5. SumFunctionOnSet(DeltaOf("dividends"), U)
          = DeltaOf("dividends")[e] + SumFunctionOnSet(DeltaOf("dividends"), U \ {e})
    <3>1. Summable(DeltaOf("dividends"), U)
      BY <2>4 DEF Summable
    <3> QED BY <2>2, <2>3, <3>1, SumRemove
  <2>6. SumFunctionOnSet(DeltaOf("dividends"), U \ {e}) \in Nat
    BY <2>3, <2>4, SumNat
  <2>7. DeltaOf("dividends")[e] = paid
    BY <1>7, RowTerms DEF Columns
  <2> QED BY <1>7, <2>1, <2>2, <2>5, <2>6, <2>7 DEF ColumnSum
<1>12. /\ c.balances["available"] = b.balances["available"] + paid
       /\ c.balances["reserved"] = b.balances["reserved"]
       /\ c.balances["unsettled"] = b.balances["unsettled"]
       /\ c.balances["dividends"] = b.balances["dividends"] - paid
       /\ c.balances \in Balances
  <2>1. b.balances \in Balances /\ \A f \in Columns : b.balances[f] \in Nat
    BY <1>1, BookFields
  <2>2. Gains(b.balances, c.balances, paid, 0, 0, -paid) /\ -paid \in Int /\ paid \in Int
    BY <1>4, <1>7 DEF Gains
  <2>3. b.balances["dividends"] - paid >= 0
    BY <1>1, <1>11 DEF Backed
  <2> QED BY <1>7, <2>1, <2>2, <2>3, GainsFields DEF Columns
<1>13. BookTypes(c)
  <2>1. c.ledger \in SUBSET LedgerRows /\ IsFiniteSet(c.ledger)
    <3>1. IsFiniteSet(b.ledger \cup {r})
      BY <1>6, FS_AddElement
    <3> QED BY <1>5, <1>6, <1>8, <3>1
  <2>2. c \in Books
    <3>1. /\ b.positions \in Positions /\ b.orders \in [OrderIds -> OrderRows]
          /\ b.recorded \in [Actions -> Editions] /\ b.splits \in [Actions -> SUBSET Actions]
      BY <1>1, BookFields
    <3> QED BY <1>4, <1>12, <2>1, <3>1 DEF Whole, Books
  <2>3. \A o \in OrderIds : OrderFine(c.orders[o])
    BY <1>1, <1>4, BookFields
  <2>4. ASSUME NEW n \in b.ledger PROVE RowFine(c, n)
    <3>1. RowFine(b, n)
      BY <1>1, BookFields
    <3>2. n.kind \in ActionKinds => Recorded(c, n.of)
      BY <1>4, <3>1 DEF RowFine, Recorded
    <3> QED BY <1>4, <3>1, <3>2, RowStaysFine
  <2>5. RowFine(c, r)
    BY <1>4, <1>8 DEF RowFine, Recorded, OrderKinds, FillKinds, ActionKinds
  <2>6. KeysApart(c)
    BY <1>1, <1>5, <1>8 DEF BookTypes, KeysApart
  <2>7. Accrued(c)
    BY <1>1, <1>4, <1>5 DEF BookTypes, Accrued, Recorded
  <2> QED BY <1>5, <2>1, <2>2, <2>3, <2>4, <2>5, <2>6, <2>7 DEF BookTypes
<1>14. Balanced(c)
  <2>1. \A f \in Columns : b.balances[f] \in Nat /\ b.balances[f] = ColumnSum(f, b.ledger)
    BY <1>1, BookFields DEF Balanced
  <2>2. \A f \in Columns : c.balances[f] = b.balances[f] + r.delta[f]
    BY <1>7, <1>8, <1>12, <2>1 DEF Columns
  <2>3. \A f \in Columns : c.balances[f] = ColumnSum(f, c.ledger)
    BY <1>10, <2>1, <2>2
  <2> QED BY <1>1, <1>4, <1>10, <2>3 DEF Balanced, SameShares
<1>15. Backed(c)
  <2>1. Unsettled(c) = Unsettled(b)
    BY <1>5, <1>8 DEF Unsettled
  <2> QED BY <1>1, <1>4, <1>11, <1>12, <2>1 DEF Backed
<1>16. Covered(c)
  BY <1>1, <1>4, <1>10 DEF Covered, SameShares
<1> QED BY <1>13, <1>14, <1>15, <1>16 DEF BookInv

-------------------------------------------------------------------------------
(* A corporate action is applied.                                          *)
(* What num/den makes of the shares held and of their cost basis.          *)
SplitParts(held, basis, num, den, lost, after, cost) ==
    /\ lost = (held * num) % den /\ after = (held * num) \div den
    /\ cost = IF lost # 0 THEN Rounded(basis * lost, held * num) ELSE 0

(* A split leaves naturals, costs no more than the basis, and takes the    *)
(* whole basis of a holding of which nothing is left.                      *)
LEMMA SplitArithmetic ==
    ASSUME NEW held \in Nat, NEW basis \in Nat, NEW num \in Nat \ {0}, NEW den \in Nat \ {0},
           NEW lost, NEW after, NEW cost, SplitParts(held, basis, num, den, lost, after, cost)
    PROVE  /\ lost \in Nat /\ after \in Nat /\ cost \in Nat /\ cost <= basis
           /\ after = 0 /\ (held = 0 => basis = 0) => cost = basis
<1>0. /\ lost = (held * num) % den /\ after = (held * num) \div den
      /\ cost = IF lost # 0 THEN Rounded(basis * lost, held * num) ELSE 0
  BY Zenon DEF SplitParts
<1>1. PICK n \in Nat : n = held * num /\ (n = 0 => held = 0)
  OBVIOUS
<1>2. /\ n % den \in Nat /\ n \div den \in Nat /\ n % den <= n
      /\ n \div den = 0 => n % den = n
  OBVIOUS
<1>3. lost \in Nat /\ after \in Nat /\ lost <= n /\ (after = 0 => lost = n)
  BY <1>0, <1>1, <1>2
<1>4. CASE lost = 0
  BY <1>0, <1>1, <1>3, <1>4
<1>5. CASE lost # 0
  <2>1. n \in Nat \ {0} /\ cost = Rounded(basis * lost, n)
    BY <1>0, <1>1, <1>3, <1>5
  <2>2. /\ Rounded(basis * lost, n) <= basis /\ Rounded(basis * lost, n) \in Nat
        /\ lost = n => Rounded(basis * lost, n) = basis
    BY <1>3, <2>1, RoundedPart
  <2> QED BY <1>3, <2>1, <2>2
<1> QED BY <1>4, <1>5

(* The shares a dividend is due on are those held as the events of its     *)
(* date begin, and never less than none.                                   *)
LEMMA EligibleIs ==
    ASSUME NEW b, BookInv(b), NEW a \in Actions
    PROVE  Eligible(b, a) = OpeningSum(Security[a], EffectiveAt[a], b.ledger)
           /\ Eligible(b, a) \in Nat
<1>1. PICK i, t : i = Security[a] /\ t = EffectiveAt[a]
  OBVIOUS
<1>2. i \in Instruments /\ t \in Moments
  BY <1>1, ActionAssumption, BookAssumption DEF Moments, CloseAt
<1>3. BookTypes(b) /\ b.ledger \in SUBSET LedgerRows /\ IsFiniteSet(b.ledger)
      /\ b.orders \in [OrderIds -> OrderRows]
  BY BookFields DEF BookInv
<1>4. PICK L, T : L = b.ledger /\ T = {e \in L : ComesBefore(e, i, t)}
  OBVIOUS
<1>5. PICK f, g : f = [e \in T |-> e.quantity] /\ g = QuantityBefore(i, t)
  OBVIOUS
<1>6. Eligible(b, a) = SumFunction(f)
  <2>1. T = {e \in b.ledger : /\ e.instrument = Security[a]
                              /\ \/ e.at < EffectiveAt[a]
                                 \/ e.at = EffectiveAt[a] /\ e.kind = "split"}
    BY <1>1, <1>4 DEF ComesBefore
  <2> QED BY <1>5, <2>1 DEF Eligible
<1>7. /\ T \in SUBSET L /\ DOMAIN f = T /\ Summable(f, T)
      /\ \A e \in T : g[e] = f[e]
      /\ \A e \in L \ T : g[e] = 0
  <2>1. \A e \in L : e \in LedgerRows /\ e.quantity \in Int /\ g[e] = OpeningOf(e, i, t)
    BY <1>3, <1>4, <1>5, RowTerms, RowFields
  <2> QED BY <1>4, <1>5, <2>1 DEF Summable, OpeningOf
<1>8. SumFunction(f) = SumFunctionOnSet(g, L)
  BY <1>3, <1>4, <1>7, SumWritten
<1>9. OpenedSum(b.orders, i, t) \in Nat /\ OpenedSum(b.orders, i, t) <= OpeningSum(i, t, b.ledger)
      /\ OpeningSum(i, t, b.ledger) \in Int
  BY <1>2, <1>3, OrderSums, LedgerSummable DEF BookInv, Covered
<1> QED BY <1>1, <1>4, <1>5, <1>6, <1>8, <1>9 DEF OpeningSum

(* x is the cash a split brings, w what a dividend accrues, cost the part  *)
(* of the basis lost with the fraction.                                    *)
Applying(b, c, a, e, r, x, w, gained, cost) ==
    LET i == Security[a]
        held == b.positions[i].quantity
        lost == (held * Ratio[a][1]) % Ratio[a][2] IN
    /\ Split(a) => /\ x = CashInLieu(a, held) /\ w = 0 /\ gained = AfterSplit(a, held) - held
                   /\ cost = IF lost # 0 THEN Rounded(b.positions[i].cost * lost, held * Ratio[a][1]) ELSE 0
    /\ ~Split(a) => x = 0 /\ w = Amount[a] * Eligible(b, a) /\ gained = 0 /\ cost = 0
    /\ r = Row(IF Split(a) THEN "split" ELSE "dividend_accrual", a, Delta(x, 0, 0, w), i, gained,
               EffectiveAt[a])
    /\ c.balances = Plus(b.balances, Delta(x, 0, 0, w))
    /\ c.positions = [b.positions EXCEPT
                        ![i] = [@ EXCEPT !.quantity = held + gained, !.cost = b.positions[i].cost - cost]]
    /\ c.ledger = b.ledger \cup {r} /\ c.orders = b.orders
    /\ c.recorded = [b.recorded EXCEPT ![a] = e]
    /\ c.splits = [b.splits EXCEPT ![a] = {s \in Actions : Split(s) /\ Recorded(b, s)}]
    /\ Whole(c)

(* ApplyCorporateAction does that.                                         *)
LEMMA ApplyFields ==
    ASSUME NEW b, BookTypes(b), NEW a \in Actions, NEW e
    PROVE  \E r, x, w, gained, cost :
              Applying(b, ApplyCorporateAction(b, a, e), a, e, r, x, w, gained, cost)
<1>0. PICK c : c = ApplyCorporateAction(b, a, e)
  OBVIOUS
<1>1. PICK i, held : i = Security[a] /\ held = b.positions[i].quantity
  OBVIOUS
<1>2. PICK lost : lost = (held * Ratio[a][1]) % Ratio[a][2]
  OBVIOUS
<1>3. PICK x, w, gained, cost :
        /\ Split(a) => /\ x = CashInLieu(a, held) /\ w = 0 /\ gained = AfterSplit(a, held) - held
                       /\ cost = IF lost # 0 THEN Rounded(b.positions[i].cost * lost, held * Ratio[a][1])
                                 ELSE 0
        /\ ~Split(a) => x = 0 /\ w = Amount[a] * Eligible(b, a) /\ gained = 0 /\ cost = 0
  <2>1. CASE Split(a)
    BY <2>1
  <2>2. CASE ~Split(a)
    BY <2>2
  <2> QED BY <2>1, <2>2
<1>4. PICK r : r = Row(IF Split(a) THEN "split" ELSE "dividend_accrual", a, Delta(x, 0, 0, w), i,
                       gained, EffectiveAt[a])
  OBVIOUS
<1>5. (IF Split(a) THEN Delta(CashInLieu(a, held), 0, 0, 0) ELSE Delta(0, 0, 0, Amount[a] * Eligible(b, a)))
        = Delta(x, 0, 0, w)
  BY <1>3
<1>6. (IF Split(a) THEN AfterSplit(a, held) - held ELSE 0) = gained
  BY <1>3
<1>7. (IF Split(a) /\ lost # 0 THEN Rounded(b.positions[i].cost * lost, held * Ratio[a][1]) ELSE 0) = cost
  BY <1>3
<1>8. c = [b EXCEPT
              !.balances = Plus(@, Delta(x, 0, 0, w)),
              !.positions[i] = [@ EXCEPT !.quantity = held + gained, !.cost = b.positions[i].cost - cost],
              !.ledger = @ \cup {r},
              !.recorded[a] = e,
              !.splits[a] = {s \in Actions : Split(s) /\ Recorded(b, s)}]
  BY <1>0, <1>1, <1>2, <1>4, <1>5, <1>6, <1>7, Zenon DEF ApplyCorporateAction
<1>9. /\ c.balances = Plus(b.balances, Delta(x, 0, 0, w))
      /\ c.positions = [b.positions EXCEPT
                          ![i] = [@ EXCEPT !.quantity = held + gained, !.cost = b.positions[i].cost - cost]]
      /\ c.ledger = b.ledger \cup {r} /\ c.orders = b.orders
      /\ c.recorded = [b.recorded EXCEPT ![a] = e]
      /\ c.splits = [b.splits EXCEPT ![a] = {s \in Actions : Split(s) /\ Recorded(b, s)}]
      /\ Whole(c)
  BY <1>8 DEF BookTypes, Books, Whole
<1>10. Applying(b, c, a, e, r, x, w, gained, cost)
  BY <1>1, <1>2, <1>3, <1>4, <1>9 DEF Applying
<1> QED BY <1>0, <1>10

(* A split must find no share of its instrument reserved, and no fill      *)
(* after it, nor a later split.                                            *)
SplitFits(b, a) ==
    Split(a) =>
        /\ b.positions[Security[a]].reserved = 0
        /\ \A r \in b.ledger : r.instrument = Security[a] =>
              /\ r.kind \in FillKinds => r.at < EffectiveAt[a]
              /\ r.kind = "split" => r.at <= EffectiveAt[a]

(* When a split is recorded, nobody has traded after it: the shares held   *)
(* are those held at any time since.                                       *)
LEMMA HeldAsSplitBegins ==
    ASSUME NEW b, BookInv(b), NEW a \in Actions, Split(a), SplitFits(b, a),
           NEW t \in Moments, EffectiveAt[a] <= t
    PROVE  /\ OpeningSum(Security[a], t, b.ledger) = b.positions[Security[a]].quantity
           /\ OpenedSum(b.orders, Security[a], t) = 0
<1>1. PICK i : i = Security[a] /\ i \in Instruments
  BY ActionAssumption
<1>2. BookTypes(b) /\ b.ledger \in SUBSET LedgerRows /\ IsFiniteSet(b.ledger)
      /\ b.orders \in [OrderIds -> OrderRows]
  BY BookFields DEF BookInv
<1>3. OpeningSum(i, t, b.ledger) = QuantitySum(i, b.ledger)
  <2>1. ASSUME NEW r \in b.ledger PROVE QuantityBefore(i, t)[r] = QuantityIn(i)[r]
    <3>1. r \in LedgerRows /\ RowFine(b, r) /\ r.at \in Int /\ EffectiveAt[a] \in Int /\ t \in Int
      BY <1>2, BookFields, RowFields, ActionAssumption, BookAssumption DEF Moments, Times, CloseAt
    <3>2. QuantityBefore(i, t)[r] = OpeningOf(r, i, t) /\ QuantityIn(i)[r] = QuantityOf(r, i)
      BY <3>1, RowTerms
    <3>3. CASE r.instrument = i /\ r.kind \in FillKinds \cup {"split"}
      <4>1. ComesBefore(r, i, t)
        <5>1. r.kind \in FillKinds => r.at < EffectiveAt[a]
          BY <1>1, <3>3 DEF SplitFits
        <5>2. r.kind = "split" => r.at <= EffectiveAt[a]
          BY <1>1, <3>3 DEF SplitFits
        <5> QED BY <3>1, <3>3, <5>1, <5>2 DEF ComesBefore
      <4> QED BY <3>2, <3>3, <4>1 DEF OpeningOf, QuantityOf
    <3>4. CASE r.instrument # i
      BY <3>2, <3>4 DEF OpeningOf, QuantityOf, ComesBefore
    <3>5. CASE r.kind \notin FillKinds \cup {"split"}
      <4>1. r.quantity = 0
        BY <3>1, <3>5 DEF RowFine
      <4> QED BY <3>2, <4>1 DEF OpeningOf, QuantityOf
    <3> QED BY <3>3, <3>4, <3>5
  <2>2. Summable(QuantityBefore(i, t), b.ledger) /\ Summable(QuantityIn(i), b.ledger)
    BY <1>2, LedgerSummable
  <2> QED BY <1>2, <2>1, <2>2, SumSame DEF OpeningSum, QuantitySum
<1>4. QuantitySum(i, b.ledger) = b.positions[i].quantity
  BY <1>1 DEF BookInv, Balanced
<1>5. OpenedSum(b.orders, i, t) <= SharesSum(b.orders, i)
  <2>1. PICK f, g : f = SharesBefore(b.orders, i, t) /\ g = SharesIn(b.orders, i)
    OBVIOUS
  <2>2. Summable(f, OrderIds) /\ Summable(g, OrderIds) /\ IsFiniteSet(OrderIds)
    BY <1>2, <2>1, OrderTerms, BookAssumption
  <2>3. \A o \in OrderIds : f[o] <= g[o]
    <3>1. \A o \in OrderIds : b.orders[o].shares \in Nat
      BY <1>2 DEF OrderRows
    <3> QED BY <2>1, <3>1 DEF SharesBefore, SharesIn, OpenedOf, SharesOf, OpensBefore
  <2>4. SumFunctionOnSet(f, OrderIds) <= SumFunctionOnSet(g, OrderIds)
    BY <2>2, <2>3, SumMonotone
  <2> QED BY <2>1, <2>4 DEF OpenedSum, SharesSum
<1>6. OpenedSum(b.orders, i, t) \in Nat /\ SharesSum(b.orders, i) = 0
  BY <1>1, <1>2, OrderSums DEF BookInv, Backed, SplitFits
<1> QED BY <1>1, <1>3, <1>4, <1>5, <1>6

(* Applying a corporate action keeps the invariant, if a split fits.       *)
LEMMA ApplyKeeps ==
    ASSUME NEW b, BookInv(b), NEW a \in Actions, NEW e \in Editions \ {"none"}, ~Recorded(b, a),
           SplitFits(b, a), NEW c, c = ApplyCorporateAction(b, a, e)
    PROVE  BookInv(c)
<1>1. BookTypes(b) /\ Balanced(b) /\ Backed(b) /\ Covered(b)
  BY DEF BookInv
<1>2. PICK r, x, w, gained, cost : Applying(b, c, a, e, r, x, w, gained, cost)
  <2>1. PICK r, x, w, gained, cost :
           Applying(b, ApplyCorporateAction(b, a, e), a, e, r, x, w, gained, cost)
    BY <1>1, ApplyFields
  <2> QED BY <2>1
<1>3. PICK i \in Instruments : i = Security[a]
  BY ActionAssumption
<1>4. PICK had : had = b.positions[i]
  OBVIOUS
<1>5. had.quantity \in Nat /\ had.reserved \in Nat /\ had.cost \in Nat
      /\ (had.quantity = 0 => had.cost = 0)
  BY <1>1, <1>3, <1>4, BookFields DEF Backed
<1>6. PICK num, den : /\ num = Ratio[a][1] /\ den = Ratio[a][2]
                      /\ num \in Nat \ {0} /\ den \in Nat \ {0} /\ Amount[a] \in Nat
  BY ActionAssumption
<1>7. PICK lost : lost = (had.quantity * num) % den
  OBVIOUS
<1>8. /\ Split(a) => /\ x = Rounded(Amount[a] * lost, den) /\ w = 0
                     /\ gained = ((had.quantity * num) \div den) - had.quantity
                     /\ cost = IF lost # 0 THEN Rounded(had.cost * lost, had.quantity * num) ELSE 0
      /\ ~Split(a) => x = 0 /\ w = Amount[a] * Eligible(b, a) /\ gained = 0 /\ cost = 0
  BY <1>2, <1>3, <1>4, <1>6, <1>7 DEF Applying, CashInLieu, AfterSplit
<1>9. /\ r = Row(IF Split(a) THEN "split" ELSE "dividend_accrual", a, Delta(x, 0, 0, w), i, gained,
                 EffectiveAt[a])
      /\ c.balances = Plus(b.balances, Delta(x, 0, 0, w))
      /\ c.positions = [b.positions EXCEPT
                          ![i] = [@ EXCEPT !.quantity = had.quantity + gained,
                                           !.cost = had.cost - cost]]
      /\ c.orders = b.orders
      /\ c.recorded = [b.recorded EXCEPT ![a] = e]
      /\ c.splits = [b.splits EXCEPT ![a] = {s \in Actions : Split(s) /\ Recorded(b, s)}]
      /\ Whole(c)
  BY <1>2, <1>3, <1>4 DEF Applying
<1>10. c.ledger = b.ledger \cup {r}
  BY <1>2 DEF Applying
<1>11. /\ x \in Nat /\ w \in Nat /\ gained \in Int /\ had.quantity + gained \in Nat
       /\ had.cost - cost \in Nat /\ (had.quantity + gained = 0 => had.cost - cost = 0)
       /\ (Split(a) => w = 0)
  <2>1. CASE Split(a)
    <3>1. PICK after : after = (had.quantity * num) \div den
      OBVIOUS
    <3>2. PICK part : part = IF lost # 0 THEN Rounded(had.cost * lost, had.quantity * num) ELSE 0
      OBVIOUS
    <3>3. /\ lost \in Nat /\ after \in Nat /\ part \in Nat /\ part <= had.cost
          /\ after = 0 /\ (had.quantity = 0 => had.cost = 0) => part = had.cost
      <4>1. SplitParts(had.quantity, had.cost, num, den, lost, after, part)
        BY <1>7, <3>1, <3>2, Zenon DEF SplitParts
      <4>2. had.quantity \in Nat /\ had.cost \in Nat /\ num \in Nat \ {0} /\ den \in Nat \ {0}
        BY <1>5, <1>6
      <4> QED BY <4>1, <4>2, SplitArithmetic, SMT
    <3>4. Amount[a] * lost \in Nat
      BY <1>6, <3>3
    <3>5. Rounded(Amount[a] * lost, den) \in Nat
      BY <1>6, <3>4, MoneyTypes
    <3>6. x \in Nat /\ w = 0 /\ gained = after - had.quantity /\ cost = part
      BY <1>8, <2>1, <3>1, <3>2, <3>5
    <3> QED BY <1>5, <3>3, <3>6
  <2>2. CASE ~Split(a)
    <3>1. Eligible(b, a) \in Nat
      BY EligibleIs
    <3> QED BY <1>5, <1>6, <1>8, <2>2, <3>1
  <2> QED BY <2>1, <2>2
<1>12. EffectiveAt[a] \in Times /\ EffectiveAt[a] \in Int
  BY ActionAssumption, BookAssumption DEF Times, CloseAt
<1>13. PICK kind : kind = IF Split(a) THEN "split" ELSE "dividend_accrual"
  OBVIOUS
<1>14. /\ r \in LedgerRows /\ r.kind = kind /\ r.of = a /\ r.instrument = i /\ r.quantity = gained
       /\ r.at = EffectiveAt[a] /\ r.delta["available"] = x /\ r.delta["reserved"] = 0
       /\ r.delta["unsettled"] = 0 /\ r.delta["dividends"] = w /\ r.delta.dividends = w
  BY <1>9, <1>11, <1>12, <1>13 DEF Row, Delta, LedgerRows
<1>15. kind \in {"split", "dividend_accrual"} /\ (kind = "split" <=> Split(a))
  BY <1>13
<1>16. b.ledger \in SUBSET LedgerRows /\ IsFiniteSet(b.ledger) /\ b.orders \in [OrderIds -> OrderRows]
  BY <1>1, BookFields
<1>17. \A n \in b.ledger : n.kind \in ActionKinds => n.of # a
  <2>1. ASSUME NEW n \in b.ledger, n.kind \in ActionKinds, n.of = a PROVE FALSE
    <3>1. RowFine(b, n)
      BY <1>1, BookFields
    <3> QED BY <2>1, <3>1 DEF RowFine
  <2> QED BY <2>1
<1>18. r \notin b.ledger
  BY <1>14, <1>15, <1>17 DEF ActionKinds
<1>19. /\ \A f \in Columns : ColumnSum(f, c.ledger) = ColumnSum(f, b.ledger) + r.delta[f]
       /\ \A j : QuantitySum(j, c.ledger) = QuantitySum(j, b.ledger) + QuantityOf(r, j)
       /\ \A j, t : OpeningSum(j, t, c.ledger) = OpeningSum(j, t, b.ledger) + OpeningOf(r, j, t)
  <2>1. /\ \A f \in Columns : ColumnSum(f, b.ledger \cup {r}) = ColumnSum(f, b.ledger) + r.delta[f]
        /\ \A j : QuantitySum(j, b.ledger \cup {r}) = QuantitySum(j, b.ledger) + QuantityOf(r, j)
        /\ \A j, t : OpeningSum(j, t, b.ledger \cup {r})
                       = OpeningSum(j, t, b.ledger) + OpeningOf(r, j, t)
    BY <1>14, <1>16, <1>18, RowAdds
  <2> QED BY <1>10, <2>1
<1>20. /\ c.balances["available"] = b.balances["available"] + x
       /\ c.balances["reserved"] = b.balances["reserved"]
       /\ c.balances["unsettled"] = b.balances["unsettled"]
       /\ c.balances["dividends"] = b.balances["dividends"] + w
       /\ c.balances \in Balances
  <2>1. b.balances \in Balances /\ \A f \in Columns : b.balances[f] \in Nat
    BY <1>1, BookFields
  <2>2. Gains(b.balances, c.balances, x, 0, 0, w) /\ x \in Int /\ w \in Int
    BY <1>9, <1>11 DEF Gains
  <2> QED BY <1>11, <2>1, <2>2, GainsFields DEF Columns
<1>21. /\ c.positions[i].quantity = had.quantity + gained /\ c.positions[i].reserved = had.reserved
       /\ c.positions[i].cost = had.cost - cost
       /\ \A j \in Instruments \ {i} : c.positions[j] = b.positions[j]
       /\ c.positions \in Positions
  <2>1. b.positions \in Positions
    BY <1>1, BookFields
  <2>2. PICK p : p = [had EXCEPT !.quantity = had.quantity + gained, !.cost = had.cost - cost]
    OBVIOUS
  <2>3. had \in [quantity : Nat, reserved : Nat, cost : Nat]
    BY <1>4, <2>1 DEF Positions
  <2>4. /\ p.quantity = had.quantity + gained /\ p.reserved = had.reserved /\ p.cost = had.cost - cost
        /\ p \in [quantity : Nat, reserved : Nat, cost : Nat]
    BY <1>11, <2>2, <2>3
  <2>5. c.positions = [b.positions EXCEPT ![i] = p]
    BY <1>4, <1>9, <2>1, <2>2 DEF Positions
  <2> QED BY <2>1, <2>4, <2>5 DEF Positions
<1>22. /\ c.recorded \in [Actions -> Editions] /\ c.splits \in [Actions -> SUBSET Actions]
       /\ Recorded(c, a) /\ \A s \in Actions : Recorded(b, s) => Recorded(c, s)
       /\ \A s \in Actions \ {a} : Recorded(c, s) => Recorded(b, s)
  <2>1. b.recorded \in [Actions -> Editions] /\ b.splits \in [Actions -> SUBSET Actions]
    BY <1>1, BookFields
  <2> QED BY <1>9, <2>1 DEF Recorded
<1>23. BookTypes(c)
  <2>1. c.ledger \in SUBSET LedgerRows /\ IsFiniteSet(c.ledger)
    <3>1. IsFiniteSet(b.ledger \cup {r})
      BY <1>16, FS_AddElement
    <3> QED BY <1>10, <1>14, <1>16, <3>1
  <2>2. c \in Books
    BY <1>9, <1>16, <1>20, <1>21, <1>22, <2>1 DEF Whole, Books
  <2>3. \A o \in OrderIds : OrderFine(c.orders[o])
    BY <1>1, <1>9, BookFields
  <2>4. ASSUME NEW n \in b.ledger PROVE RowFine(c, n)
    <3>1. RowFine(b, n)
      BY <1>1, BookFields
    <3>2. n.kind \in ActionKinds => Recorded(c, n.of)
      BY <1>22, <3>1 DEF RowFine
    <3> QED BY <1>9, <3>1, <3>2, RowStaysFine
  <2>5. RowFine(c, r)
    <3>1. ~Split(a) => Kind[a] = "dividend" /\ gained = 0
      BY <1>8, ActionAssumption DEF Split
    <3> QED BY <1>3, <1>11, <1>14, <1>15, <1>22, <3>1
            DEF RowFine, OrderKinds, FillKinds, ActionKinds
  <2>6. KeysApart(c)
    BY <1>1, <1>10, <1>14, <1>15, <1>17 DEF BookTypes, KeysApart, ActionKinds
  <2>7. Accrued(c)
    <3>1. ASSUME NEW s \in Actions, Recorded(c, s), Kind[s] = "dividend"
          PROVE  \E n \in c.ledger : n.kind = "dividend_accrual" /\ n.of = s
      <4>1. CASE s = a
        <5>1. ~Split(a)
          BY <3>1, <4>1 DEF Split
        <5> QED BY <1>10, <1>13, <1>14, <4>1, <5>1
      <4>2. CASE s # a
        <5>1. Recorded(b, s)
          BY <1>22, <3>1, <4>2
        <5> QED BY <1>1, <1>10, <3>1, <5>1 DEF BookTypes, Accrued
      <4> QED BY <4>1, <4>2
    <3> QED BY <3>1 DEF Accrued
  <2> QED BY <1>10, <2>1, <2>2, <2>3, <2>4, <2>5, <2>6, <2>7 DEF BookTypes
<1>24. Balanced(c)
  <2>1. \A f \in Columns : b.balances[f] \in Nat /\ b.balances[f] = ColumnSum(f, b.ledger)
    BY <1>1, BookFields DEF Balanced
  <2>2. \A f \in Columns : c.balances[f] = b.balances[f] + r.delta[f]
    BY <1>11, <1>14, <1>20, <2>1 DEF Columns
  <2>3. \A f \in Columns : c.balances[f] = ColumnSum(f, c.ledger)
    BY <1>19, <2>1, <2>2
  <2>4. ASSUME NEW j \in Instruments PROVE c.positions[j].quantity = QuantitySum(j, c.ledger)
    <3>1. b.positions[j].quantity = QuantitySum(j, b.ledger) /\ b.positions[j].quantity \in Nat
      BY <1>1, BookFields DEF Balanced
    <3>2. CASE j = i
      <4>1. QuantityOf(r, j) = gained
        BY <1>14, <3>2 DEF QuantityOf
      <4> QED BY <1>4, <1>19, <1>21, <3>1, <3>2, <4>1
    <3>3. CASE j # i
      <4>1. QuantityOf(r, j) = 0
        BY <1>14, <3>3 DEF QuantityOf
      <4> QED BY <1>19, <1>21, <3>1, <3>3, <4>1
    <3> QED BY <3>2, <3>3
  <2> QED BY <2>3, <2>4 DEF Balanced
<1>25. ColumnSum("dividends", Owed(c)) = ColumnSum("dividends", Owed(b)) + w
       /\ ColumnSum("dividends", Owed(b)) \in Int
  <2>1. PICK U : U = Owed(b)
    OBVIOUS
  <2>2. U \in SUBSET LedgerRows /\ IsFiniteSet(U) /\ r \notin U
    BY <1>16, <1>18, <2>1, FS_Subset DEF Owed
  <2>3. ColumnSum("dividends", U) \in Int
    BY <2>2, LedgerSummable DEF Columns
  <2>4. CASE Split(a)
    <3>1. Owed(c) = Owed(b)
      BY <1>10, <1>13, <1>14, <2>4 DEF Owed
    <3> QED BY <1>11, <2>1, <2>3, <2>4, <3>1
  <2>5. CASE ~Split(a)
    <3>1. \A n \in b.ledger : n.kind = "dividend_payment" => n.of # a
      BY <1>17 DEF ActionKinds
    <3>2. Owed(c) = U \cup {r}
      BY <1>10, <1>13, <1>14, <2>1, <2>5, <3>1 DEF Owed
    <3>3. ColumnSum("dividends", U \cup {r}) = ColumnSum("dividends", U) + r.delta["dividends"]
      BY <1>14, <2>2, RowAdds DEF Columns
    <3> QED BY <1>14, <2>1, <2>3, <3>2, <3>3
  <2> QED BY <2>4, <2>5
<1>26. Backed(c)
  <2>1. Unsettled(c) = Unsettled(b)
    BY <1>10, <1>14, <1>15 DEF Unsettled
  <2>2. c.balances.reserved = CashSum(c.orders)
    BY <1>1, <1>9, <1>20 DEF Backed
  <2>3. c.balances.unsettled = ColumnSum("unsettled", Unsettled(c))
    BY <1>1, <1>20, <2>1 DEF Backed
  <2>4. c.balances.dividends = ColumnSum("dividends", Owed(c))
    BY <1>1, <1>20, <1>25 DEF Backed
  <2>5. ASSUME NEW j \in Instruments
        PROVE  /\ c.positions[j].reserved = SharesSum(c.orders, j)
               /\ c.positions[j].quantity = 0 => c.positions[j].cost = 0
    BY <1>1, <1>4, <1>9, <1>11, <1>21 DEF Backed
  <2> QED BY <2>2, <2>3, <2>4, <2>5 DEF Backed
<1>27. Covered(c)
  <2>1. ASSUME NEW j \in Instruments, NEW t \in Moments
        PROVE  OpenedSum(c.orders, j, t) <= OpeningSum(j, t, c.ledger)
    <3>1. /\ OpenedSum(b.orders, j, t) \in Nat /\ OpeningSum(j, t, b.ledger) \in Int
          /\ OpenedSum(b.orders, j, t) <= OpeningSum(j, t, b.ledger) /\ t \in Int
      BY <1>1, <1>16, OrderSums, LedgerSummable, BookAssumption DEF Covered, Moments, CloseAt
    <3>2. /\ OpeningSum(j, t, c.ledger) = OpeningSum(j, t, b.ledger) + OpeningOf(r, j, t)
          /\ OpenedSum(c.orders, j, t) = OpenedSum(b.orders, j, t)
      BY <1>9, <1>19
    <3>3. CASE j = i /\ Split(a) /\ EffectiveAt[a] <= t
      <4>1. /\ OpeningSum(j, t, b.ledger) = had.quantity /\ OpenedSum(b.orders, j, t) = 0
        BY <1>3, <1>4, <3>3, HeldAsSplitBegins
      <4>2. OpeningOf(r, j, t) = gained
        BY <1>12, <1>13, <1>14, <3>1, <3>3 DEF OpeningOf, ComesBefore
      <4> QED BY <1>11, <3>2, <4>1, <4>2
    <3>4. CASE ~(j = i /\ Split(a) /\ EffectiveAt[a] <= t)
      <4>1. OpeningOf(r, j, t) = 0
        <5>1. ~Split(a) => gained = 0
          BY <1>8
        <5> QED BY <1>12, <1>14, <3>1, <3>4, <5>1 DEF OpeningOf, ComesBefore
      <4> QED BY <3>1, <3>2, <4>1
    <3> QED BY <3>3, <3>4
  <2> QED BY <2>1 DEF Covered
<1> QED BY <1>23, <1>24, <1>26, <1>27 DEF BookInv

-------------------------------------------------------------------------------
(* Once every event has happened, what is reserved is covered by what is   *)
(* held.                                                                   *)
LEMMA ReservedIsHeld ==
    ASSUME NEW b, BookInv(b), NEW i \in Instruments
    PROVE  b.positions[i].reserved <= b.positions[i].quantity
<1>1. b.ledger \in SUBSET LedgerRows /\ IsFiniteSet(b.ledger) /\ b.orders \in [OrderIds -> OrderRows]
  BY BookFields DEF BookInv
<1>2. PICK t : t = CloseAt(Last) + 1
  OBVIOUS
<1>3. t \in Moments /\ (\A u \in Times : u < t) /\ (\A k \in Sessions : OpenAt(k) < t)
  BY <1>2, BookAssumption DEF Moments, Times, Sessions, CloseAt, OpenAt
<1>4. OpenedSum(b.orders, i, t) <= OpeningSum(i, t, b.ledger)
  BY <1>3 DEF BookInv, Covered
<1>5. OpeningSum(i, t, b.ledger) = QuantitySum(i, b.ledger)
  <2>1. ASSUME NEW r \in b.ledger PROVE QuantityBefore(i, t)[r] = QuantityIn(i)[r]
    <3>1. r \in LedgerRows /\ r.at \in Times
      BY <1>1, RowFields
    <3>2. QuantityBefore(i, t)[r] = OpeningOf(r, i, t) /\ QuantityIn(i)[r] = QuantityOf(r, i)
      BY <3>1, RowTerms
    <3> QED BY <1>3, <3>1, <3>2 DEF OpeningOf, QuantityOf, ComesBefore
  <2> QED BY <1>1, <2>1, SumSame DEF OpeningSum, QuantitySum
<1>6. OpenedSum(b.orders, i, t) = SharesSum(b.orders, i)
  <2>1. \A o \in OrderIds : b.orders[o].session \in Sessions
    BY <1>1 DEF OrderRows
  <2>2. \A o \in OrderIds : SharesBefore(b.orders, i, t)[o] = SharesIn(b.orders, i)[o]
    BY <1>3, <2>1 DEF SharesBefore, SharesIn, OpenedOf, SharesOf, OpensBefore
  <2> QED BY <2>2, SumSame, BookAssumption DEF OpenedSum, SharesSum
<1> QED BY <1>4, <1>5, <1>6 DEF BookInv, Balanced, Backed

-------------------------------------------------------------------------------
(* What an operation leaves alone.  FillRows are the rows of the trades.   *)
FillRows(b) == {e \in b.ledger : e.kind \in FillKinds}
IsLive(order) == order.state \in LiveStates
Past(b, t) == \A e \in b.ledger : e.at <= t
SameTarget(x, y) ==
    /\ x.instrument = y.instrument /\ x.session = y.session /\ x.capacity = y.capacity
    /\ x.state = "none" <=> y.state = "none"

(* By time t the books go from b to c without a trade or a new order, and  *)
(* of the live orders only those in S are cancelled.                       *)
QuietRows(b, c, t) == FillRows(c) = FillRows(b) /\ (Past(b, t) => Past(c, t))
QuietOrder(x, y) ==
    /\ SameTarget(x, y)
    /\ IsLive(y) => IsLive(x)
    /\ ~IsLive(x) => y = x
QuietOrders(b, c, S) ==
    \A o \in OrderIds : /\ QuietOrder(b.orders[o], c.orders[o])
                        /\ IsLive(b.orders[o]) /\ o \notin S => c.orders[o].state # "cancelled"
Quiet(b, c, t, S) == QuietRows(b, c, t) /\ QuietOrders(b, c, S)

(* Two quiet operations are one.                                           *)
LEMMA QuietTwice ==
    ASSUME NEW b, NEW m, NEW c, NEW t, NEW S, Quiet(b, m, t, S), Quiet(m, c, t, S)
    PROVE  Quiet(b, c, t, S)
<1>1. QuietRows(b, c, t)
  BY DEF Quiet, QuietRows
<1>2. ASSUME NEW o \in OrderIds
      PROVE  /\ QuietOrder(b.orders[o], c.orders[o])
             /\ IsLive(b.orders[o]) /\ o \notin S => c.orders[o].state # "cancelled"
  <2>1. QuietOrder(b.orders[o], m.orders[o]) /\ QuietOrder(m.orders[o], c.orders[o])
    BY DEF Quiet, QuietOrders
  <2>2. /\ IsLive(b.orders[o]) /\ o \notin S => m.orders[o].state # "cancelled"
        /\ IsLive(m.orders[o]) /\ o \notin S => c.orders[o].state # "cancelled"
    BY DEF Quiet, QuietOrders
  <2> QED BY <2>1, <2>2 DEF QuietOrder, SameTarget
<1> QED BY <1>1, <1>2 DEF Quiet, QuietOrders

(* Doing nothing is quiet.                                                 *)
LEMMA NothingIsQuiet ==
    ASSUME NEW b, NEW t, NEW S
    PROVE  Quiet(b, b, t, S)
BY DEF Quiet, QuietRows, QuietOrders, QuietOrder, SameTarget, IsLive, LiveStates

(* New rows that are no trades, none of them from after t.                 *)
LEMMA RowsAreQuiet ==
    ASSUME NEW b, NEW c, NEW t, NEW N, c.ledger = b.ledger \cup N,
           \A e \in N : e.kind \notin FillKinds /\ e.at <= t
    PROVE  QuietRows(b, c, t)
BY DEF QuietRows, FillRows, Past

(* So is what leaves the orders alone,                                     *)
LEMMA SameOrdersAreQuiet ==
    ASSUME NEW b, NEW c, c.orders = b.orders, NEW S
    PROVE  QuietOrders(b, c, S)
BY DEF QuietOrders, QuietOrder, SameTarget, IsLive, LiveStates

(* the end of orders without a fill,                                       *)
LEMMA ReleaseIsQuiet ==
    ASSUME NEW b, BookTypes(b), NEW t \in Nat, NEW S \in SUBSET OrderIds,
           \A o \in S : IsLive(b.orders[o]), NEW state \in {"expired", "rejected", "cancelled"},
           NEW T, state = "cancelled" => S \subseteq T,
           NEW c, c = Release(b, S, state)
    PROVE  /\ Quiet(b, c, t, T) /\ \A o \in S : ~IsLive(c.orders[o])
           /\ \A o \in OrderIds \ S : c.orders[o] = b.orders[o]
           /\ c.recorded = b.recorded
<1>1. PICK N, freed, shares : Released(b, S, state, c, N, freed, shares)
  BY ReleaseFields
<1>2. /\ c.orders = [o \in OrderIds |-> IF o \in S THEN Closed(b.orders[o], state) ELSE b.orders[o]]
      /\ N = RowsOfRelease(b, S)
  BY <1>1 DEF Released, BookTypes, Books
<1>3. c.ledger = b.ledger \cup N
  BY <1>1 DEF Released, BookTypes, Books
<1>4. \A e \in N : e.kind \notin FillKinds /\ e.at <= t
  BY <1>2 DEF RowsOfRelease, ReleaseRow, Row, FillKinds
<1>5. QuietRows(b, c, t)
  BY <1>3, <1>4, RowsAreQuiet
<1>6. ASSUME NEW o \in S
      PROVE  /\ QuietOrder(b.orders[o], c.orders[o]) /\ ~IsLive(c.orders[o])
             /\ c.orders[o].state = state
  <2>1. PICK x, y : x = b.orders[o] /\ y = c.orders[o]
    OBVIOUS
  <2>2. x \in OrderRows /\ IsLive(x) /\ y = Closed(x, state)
    BY <1>2, <2>1, BookFields
  <2>3. state \in OrderStates \ LiveStates /\ state # "none"
    BY DEF OrderStates, LiveStates
  <2>4. /\ y.state = state /\ y.instrument = x.instrument /\ y.session = x.session
        /\ y.capacity = x.capacity
    BY <2>2, <2>3, ClosedFields
  <2>5. ~IsLive(y) /\ x.state # "none"
    BY <2>2, <2>3, <2>4 DEF IsLive, LiveStates
  <2>6. QuietOrder(x, y)
    BY <2>2, <2>3, <2>4, <2>5 DEF QuietOrder, SameTarget
  <2> QED BY <2>1, <2>4, <2>5, <2>6
<1>7. \A o \in OrderIds \ S : c.orders[o] = b.orders[o]
  BY <1>2
<1>8. ASSUME NEW o \in OrderIds
      PROVE  /\ QuietOrder(b.orders[o], c.orders[o])
             /\ IsLive(b.orders[o]) /\ o \notin T => c.orders[o].state # "cancelled"
  <2>1. CASE o \in S
    BY <1>6, <2>1
  <2>2. CASE o \notin S
    BY <1>7, <2>2 DEF QuietOrder, SameTarget, IsLive, LiveStates
  <2> QED BY <2>1, <2>2
<1>9. c.recorded = b.recorded
  BY <1>1 DEF Released, BookTypes, Books
<1> QED BY <1>5, <1>6, <1>7, <1>8, <1>9 DEF Quiet, QuietOrders

(* the marking of orders that wait,                                        *)
LEMMA AdvanceIsQuiet ==
    ASSUME NEW b, BookTypes(b), NEW t, NEW S \in SUBSET OrderIds,
           \A o \in S : IsLive(b.orders[o]), NEW T, NEW c, c = Advance(b, S)
    PROVE  Quiet(b, c, t, T)
<1>1. /\ c.ledger = b.ledger
      /\ \A o \in S : c.orders[o] = [b.orders[o] EXCEPT !.state = "awaiting_bar"]
      /\ \A o \in OrderIds \ S : c.orders[o] = b.orders[o]
  BY AdvanceOrders DEF IsLive
<1>2. QuietRows(b, c, t)
  BY <1>1 DEF QuietRows, FillRows, Past
<1>3. ASSUME NEW o \in OrderIds
      PROVE  /\ QuietOrder(b.orders[o], c.orders[o])
             /\ IsLive(b.orders[o]) => c.orders[o].state # "cancelled"
  <2>1. CASE o \in S
    <3>1. b.orders[o] \in OrderRows
      BY BookFields
    <3> QED BY <1>1, <2>1, <3>1 DEF QuietOrder, SameTarget, IsLive, LiveStates, OrderRows
  <2>2. CASE o \notin S
    BY <1>1, <2>2 DEF QuietOrder, SameTarget, IsLive, LiveStates
  <2> QED BY <2>1, <2>2
<1> QED BY <1>2, <1>3 DEF Quiet, QuietOrders

(* the settlement of sales,                                                *)
LEMMA SettleIsQuiet ==
    ASSUME NEW b, BookTypes(b), NEW t \in Nat, NEW through, NEW T, NEW c, c = Settle(b, through)
    PROVE  Quiet(b, c, t, T)
<1>1. PICK D, N : Settling(b, c, D, N)
  <2>1. PICK D, N : Settling(b, Settle(b, through), D, N)
    BY SettleFields
  <2> QED BY <2>1
<1>2. c.ledger = b.ledger \cup N
  BY <1>1 DEF Settling
<1>3. N = RowsOfSettlement(D) /\ c.orders = b.orders
  BY <1>1 DEF Settling
<1>4. \A e \in N : e.kind \notin FillKinds /\ e.at <= t
  BY <1>3 DEF RowsOfSettlement, SettleRow, Row, FillKinds
<1> QED BY <1>2, <1>3, <1>4, RowsAreQuiet, SameOrdersAreQuiet DEF Quiet

(* a corporate action of the past,                                         *)
LEMMA ApplyIsQuiet ==
    ASSUME NEW b, BookTypes(b), NEW t, NEW a \in Actions, EffectiveAt[a] <= t, NEW e, NEW T,
           NEW c, c = ApplyCorporateAction(b, a, e)
    PROVE  Quiet(b, c, t, T)
<1>1. PICK r, x, w, gained, cost : Applying(b, c, a, e, r, x, w, gained, cost)
  <2>1. PICK r, x, w, gained, cost :
           Applying(b, ApplyCorporateAction(b, a, e), a, e, r, x, w, gained, cost)
    BY ApplyFields
  <2> QED BY <2>1
<1>2. c.ledger = b.ledger \cup {r} /\ c.orders = b.orders
  BY <1>1 DEF Applying
<1>3. r.kind \notin FillKinds /\ r.at <= t
  BY <1>1 DEF Applying, Row, FillKinds
<1>4. QuietRows(b, c, t)
  BY <1>2, <1>3, RowsAreQuiet
<1> QED BY <1>2, <1>4, SameOrdersAreQuiet DEF Quiet

(* and the payment of a dividend.                                          *)
LEMMA PayIsQuiet ==
    ASSUME NEW b, BookTypes(b), NEW t \in Nat, NEW a \in Actions, Kind[a] = "dividend",
           Recorded(b, a), NEW T, NEW c, c = PayDividend(b, a)
    PROVE  Quiet(b, c, t, T)
<1>1. PICK e, r : Paying(b, c, a, e, r)
  <2>1. PICK e, r : Paying(b, PayDividend(b, a), a, e, r)
    BY PayFields
  <2> QED BY <2>1
<1>2. c.ledger = b.ledger \cup {r} /\ c.orders = b.orders
  BY <1>1 DEF Paying
<1>3. r.kind \notin FillKinds /\ r.at <= t
  BY <1>1 DEF Paying, Row, FillKinds
<1>4. QuietRows(b, c, t)
  BY <1>2, <1>3, RowsAreQuiet
<1> QED BY <1>2, <1>4, SameOrdersAreQuiet DEF Quiet
===============================================================================
