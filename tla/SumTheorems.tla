----------------------------- MODULE SumTheorems -----------------------------
(* Facts about SumOf for any finite set.  A sum is defined by recursion on   *)
(* subsets, so every fact is an induction over finite sets; each is made by  *)
(* taking a least set for which the fact fails (SmallestFinite).             *)
EXTENDS Sums, FiniteSetTheorems, TLAPS

-----------------------------------------------------------------------------
(* The recursion behind SumOf *)

Pick(s) == CHOOSE x \in s : TRUE

Recursion(g, f, A) ==
    g = [s \in SUBSET A |-> IF s = {} THEN 0 ELSE f[Pick(s)] + g[s \ {Pick(s)}]]

\* A nonempty collection of subsets of a finite set has a least member.
LEMMA SmallestFinite ==
    ASSUME NEW A, IsFiniteSet(A), NEW T, T \subseteq SUBSET A, T # {}
    PROVE  \E x \in T : \A y \in T : y \subseteq x => y = x
<1>1. IsWellFoundedOn(StrictSubsetOrdering(A), FiniteSubsetsOf(A))
  BY FS_StrictSubsetOrderingWellFounded
<1>2. FiniteSubsetsOf(A) = SUBSET A
  BY FS_FiniteSubsetsOfFinite
<1>3. PICK x \in T : \A y \in T : ~ (<<y, x>> \in StrictSubsetOrdering(A))
  BY <1>1, <1>2, WFMin
<1>4. \A y \in T : y \subseteq x => y = x
  BY <1>3 DEF StrictSubsetOrdering
<1> QED BY <1>4

\* The fold of the library is the function the recursion determines.
LEMMA SumUnfold ==
    ASSUME NEW f, NEW A
    PROVE  SumOf(f, A) = (CHOOSE g : Recursion(g, f, A))[A]
BY DEF SumOf, MapThenSumSet, MapThenFoldSet, Recursion, Pick

\* What the recursion determines on a set, it determines on every subset.
LEMMA RecursionRestricts ==
    ASSUME NEW f, NEW A, NEW g, Recursion(g, f, A), NEW B \in SUBSET A
    PROVE  Recursion([s \in SUBSET B |-> g[s]], f, B)
<1> DEFINE h == [s \in SUBSET B |-> g[s]]
           k == [s \in SUBSET B |-> IF s = {} THEN 0 ELSE f[Pick(s)] + h[s \ {Pick(s)}]]
<1>1. ASSUME NEW s \in SUBSET B PROVE h[s] = k[s]
  <2>1. g[s] = IF s = {} THEN 0 ELSE f[Pick(s)] + g[s \ {Pick(s)}]
    BY DEF Recursion
  <2>2. s \ {Pick(s)} \in SUBSET B
    OBVIOUS
  <2> QED BY <2>1, <2>2
<1>2. h = k
  BY <1>1
<1> QED BY <1>2 DEF Recursion

\* On a finite set at most one function satisfies the recursion.
LEMMA RecursionUnique ==
    ASSUME NEW f, NEW A, IsFiniteSet(A),
           NEW g, Recursion(g, f, A), NEW h, Recursion(h, f, A)
    PROVE  g = h
<1> DEFINE T == {s \in SUBSET A : g[s] # h[s]}
<1>1. T = {}
  <2> SUFFICES ASSUME T # {} PROVE FALSE
    OBVIOUS
  <2>0. T \subseteq SUBSET A
    OBVIOUS
  <2>1. PICK s \in T : \A y \in T : y \subseteq s => y = s
    <3> HIDE DEF T
    <3> QED BY <2>0, SmallestFinite
  <2>2. /\ g[s] = IF s = {} THEN 0 ELSE f[Pick(s)] + g[s \ {Pick(s)}]
        /\ h[s] = IF s = {} THEN 0 ELSE f[Pick(s)] + h[s \ {Pick(s)}]
    BY DEF Recursion
  <2>3. s # {}
    BY <2>2
  <2>4. Pick(s) \in s
    BY <2>3 DEF Pick
  <2>5. s \ {Pick(s)} \in SUBSET A /\ s \ {Pick(s)} \subseteq s /\ s \ {Pick(s)} # s
    BY <2>4
  <2>6. g[s \ {Pick(s)}] = h[s \ {Pick(s)}]
    BY <2>1, <2>5
  <2> QED BY <2>2, <2>6
<1>2. \A s \in SUBSET A : g[s] = h[s]
  BY <1>1
<1>3. DOMAIN g = SUBSET A /\ DOMAIN h = SUBSET A
  BY DEF Recursion
<1>4. g = [s \in DOMAIN g |-> g[s]] /\ h = [s \in DOMAIN h |-> h[s]]
  BY DEF Recursion
<1> QED BY <1>2, <1>3, <1>4

\* Where the recursion has a solution, that solution gives the sums.
LEMMA SolutionGivesSums ==
    ASSUME NEW f, NEW A, IsFiniteSet(A), NEW g, Recursion(g, f, A), NEW B \in SUBSET A
    PROVE  g[B] = SumOf(f, B)
<1> DEFINE h == [s \in SUBSET B |-> g[s]]
           c == CHOOSE k : Recursion(k, f, B)
<1>1. Recursion(h, f, B)
  BY RecursionRestricts
<1>2. IsFiniteSet(B)
  BY FS_Subset
<1>3. Recursion(c, f, B)
  BY <1>1
<1>4. c = h
  BY <1>1, <1>2, <1>3, RecursionUnique
<1> QED BY <1>4, SumUnfold

\* The recursion has a solution on every finite set.
LEMMA RecursionSolvable ==
    ASSUME NEW f, NEW A, IsFiniteSet(A)
    PROVE  \E g : Recursion(g, f, A)
<1> DEFINE T == {s \in SUBSET A : ~ \E g : Recursion(g, f, s)}
<1> SUFFICES ASSUME T # {} PROVE FALSE
  OBVIOUS
<1>0. T \subseteq SUBSET A
  OBVIOUS
<1>1. PICK B \in T : \A y \in T : y \subseteq B => y = B
  <2> HIDE DEF T
  <2> QED BY <1>0, SmallestFinite
<1>2. IsFiniteSet(B) /\ \A s \in SUBSET B : IsFiniteSet(s)
  BY FS_Subset
<1> DEFINE v(s) == IF s = {} THEN 0 ELSE f[Pick(s)] + SumOf(f, s \ {Pick(s)})
           g == [s \in SUBSET B |-> v(s)]
<1>3. ASSUME NEW s \in SUBSET B, s # B PROVE SumOf(f, s) = v(s)
  <2>1. PICK k : Recursion(k, f, s)
    BY <1>1, <1>3
  <2>2. k[s] = IF s = {} THEN 0 ELSE f[Pick(s)] + k[s \ {Pick(s)}]
    BY <2>1 DEF Recursion
  <2>3. s \in SUBSET s /\ s \ {Pick(s)} \in SUBSET s
    OBVIOUS
  <2>4. k[s] = SumOf(f, s) /\ k[s \ {Pick(s)}] = SumOf(f, s \ {Pick(s)})
    BY <1>2, <2>1, <2>3, SolutionGivesSums
  <2> QED BY <2>2, <2>4
<1>4. ASSUME NEW s \in SUBSET B, s # {} PROVE g[s \ {Pick(s)}] = SumOf(f, s \ {Pick(s)})
  <2>1. Pick(s) \in s
    BY <1>4 DEF Pick
  <2>2. s \ {Pick(s)} \in SUBSET B /\ s \ {Pick(s)} # B
    BY <2>1
  <2> QED BY <1>3, <2>2
<1>5. g = [s \in SUBSET B |-> IF s = {} THEN 0 ELSE f[Pick(s)] + g[s \ {Pick(s)}]]
  <2> DEFINE k == [s \in SUBSET B |-> IF s = {} THEN 0 ELSE f[Pick(s)] + g[s \ {Pick(s)}]]
  <2>1. ASSUME NEW s \in SUBSET B PROVE g[s] = k[s]
    BY <1>4
  <2> QED BY <2>1
<1>6. Recursion(g, f, B)
  BY <1>5 DEF Recursion
<1> QED BY <1>6, <1>1

\* The empty sum is zero.
LEMMA SumEmpty ==
    ASSUME NEW f
    PROVE  SumOf(f, {}) = 0
<1>1. IsFiniteSet({})
  BY FS_EmptySet
<1>2. PICK g : Recursion(g, f, {})
  BY <1>1, RecursionSolvable
<1>3. g[{}] = 0
  BY <1>2 DEF Recursion
<1> QED BY <1>1, <1>2, <1>3, SolutionGivesSums

\* A sum is one of its terms and the sum of the others.
LEMMA SumPick ==
    ASSUME NEW f, NEW A, IsFiniteSet(A), A # {}
    PROVE  SumOf(f, A) = f[Pick(A)] + SumOf(f, A \ {Pick(A)})
<1>1. PICK g : Recursion(g, f, A)
  BY RecursionSolvable
<1>2. g[A] = f[Pick(A)] + g[A \ {Pick(A)}]
  BY <1>1 DEF Recursion
<1>3. A \in SUBSET A /\ A \ {Pick(A)} \in SUBSET A
  OBVIOUS
<1>4. g[A] = SumOf(f, A)
  BY <1>1, <1>3, SolutionGivesSums
<1>5. PICK B \in SUBSET A : B = A \ {Pick(A)}
  BY <1>3
<1>6. g[B] = SumOf(f, B)
  BY <1>1, SolutionGivesSums
<1> QED BY <1>2, <1>4, <1>5, <1>6

-----------------------------------------------------------------------------
(* What the specifications use *)

\* The step of an induction over the subsets of a finite set: what holds of the
\* empty set, and of a set whenever it holds of that set without the element
\* picked first, holds of the whole.
LEMMA LeastFailure ==
    ASSUME NEW A, IsFiniteSet(A), NEW T, T \subseteq SUBSET A, T # {}, {} \notin T
    PROVE  \E B \in T : /\ IsFiniteSet(B) /\ B # {} /\ Pick(B) \in B
                        /\ \A x \in B : B \ {x} \notin T
<1>1. PICK B \in T : \A y \in T : y \subseteq B => y = B
  BY SmallestFinite
<1>2. IsFiniteSet(B)
  BY FS_Subset
<1>3. B # {} /\ Pick(B) \in B
  BY DEF Pick
<1>4. \A x \in B : B \ {x} \subseteq B /\ B \ {x} # B
  OBVIOUS
<1> QED BY <1>1, <1>2, <1>3, <1>4

\* A sum of integers is an integer.
LEMMA SumInt ==
    ASSUME NEW f, NEW A, IsFiniteSet(A), \A x \in A : f[x] \in Int
    PROVE  SumOf(f, A) \in Int
<1> DEFINE T == {s \in SUBSET A : SumOf(f, s) \notin Int}
<1> SUFFICES ASSUME T # {} PROVE FALSE
  OBVIOUS
<1>1. T \subseteq SUBSET A /\ {} \notin T
  BY SumEmpty
<1>2. PICK B \in T : /\ IsFiniteSet(B) /\ B # {} /\ Pick(B) \in B
                     /\ \A x \in B : B \ {x} \notin T
  <2> HIDE DEF T
  <2> QED BY <1>1, LeastFailure
<1>3. SumOf(f, B) = f[Pick(B)] + SumOf(f, B \ {Pick(B)})
  BY <1>2, SumPick
<1>4. f[Pick(B)] \in Int /\ SumOf(f, B \ {Pick(B)}) \in Int
  BY <1>2
<1> QED BY <1>3, <1>4

\* Any term may be taken out of a sum first.
LEMMA SumRemove ==
    ASSUME NEW f, NEW A, IsFiniteSet(A), \A x \in A : f[x] \in Int, NEW a \in A
    PROVE  SumOf(f, A) = f[a] + SumOf(f, A \ {a})
<1> DEFINE T == {s \in SUBSET A : \E x \in s : SumOf(f, s) # f[x] + SumOf(f, s \ {x})}
<1> SUFFICES ASSUME T # {} PROVE FALSE
  OBVIOUS
<1>1. T \subseteq SUBSET A /\ {} \notin T
  OBVIOUS
<1>2. PICK B \in T : /\ IsFiniteSet(B) /\ B # {} /\ Pick(B) \in B
                     /\ \A x \in B : B \ {x} \notin T
  <2> HIDE DEF T
  <2> QED BY <1>1, LeastFailure
<1>3. PICK x \in B : SumOf(f, B) # f[x] + SumOf(f, B \ {x})
  OBVIOUS
<1> DEFINE p == Pick(B)
<1>4. SumOf(f, B) = f[p] + SumOf(f, B \ {p})
  BY <1>2, SumPick
<1>5. x # p
  BY <1>3, <1>4
<1>6. B \ {p} \in SUBSET A /\ B \ {x} \in SUBSET A /\ p \in B \ {x} /\ x \in B \ {p}
  BY <1>2, <1>5
<1>7. SumOf(f, B \ {p}) = f[x] + SumOf(f, (B \ {p}) \ {x})
  BY <1>2, <1>6
<1>8. SumOf(f, B \ {x}) = f[p] + SumOf(f, (B \ {x}) \ {p})
  BY <1>2, <1>6
<1>9. (B \ {p}) \ {x} = (B \ {x}) \ {p}
  OBVIOUS
<1>10. f[x] \in Int /\ f[p] \in Int
  BY <1>2
<1>11. SumOf(f, (B \ {x}) \ {p}) \in Int
  <2>1. IsFiniteSet((B \ {x}) \ {p})
    BY <1>2, FS_Subset
  <2>2. \A y \in (B \ {x}) \ {p} : f[y] \in Int
    OBVIOUS
  <2> QED BY <2>1, <2>2, SumInt
<1> DEFINE rest == SumOf(f, (B \ {x}) \ {p})
<1>12. SumOf(f, B) = f[p] + (f[x] + rest) /\ SumOf(f, B \ {x}) = f[p] + rest
  BY <1>4, <1>7, <1>8, <1>9
<1>13. rest \in Int
  BY <1>11
<1> HIDE DEF p, rest
<1> QED BY <1>3, <1>10, <1>12, <1>13

\* A sum depends on its terms only.
LEMMA SumSame ==
    ASSUME NEW f, NEW h, NEW A, IsFiniteSet(A), \A x \in A : f[x] = h[x]
    PROVE  SumOf(f, A) = SumOf(h, A)
<1> DEFINE T == {s \in SUBSET A : SumOf(f, s) # SumOf(h, s)}
<1> SUFFICES ASSUME T # {} PROVE FALSE
  OBVIOUS
<1>1. T \subseteq SUBSET A /\ {} \notin T
  BY SumEmpty
<1>2. PICK B \in T : /\ IsFiniteSet(B) /\ B # {} /\ Pick(B) \in B
                     /\ \A x \in B : B \ {x} \notin T
  <2> HIDE DEF T
  <2> QED BY <1>1, LeastFailure
<1>3. /\ SumOf(f, B) = f[Pick(B)] + SumOf(f, B \ {Pick(B)})
      /\ SumOf(h, B) = h[Pick(B)] + SumOf(h, B \ {Pick(B)})
  BY <1>2, SumPick
<1>4. f[Pick(B)] = h[Pick(B)] /\ SumOf(f, B \ {Pick(B)}) = SumOf(h, B \ {Pick(B)})
  BY <1>2
<1> QED BY <1>3, <1>4

\* Sums add up term by term.
LEMMA SumAdd ==
    ASSUME NEW f, NEW g, NEW h, NEW A, IsFiniteSet(A),
           \A x \in A : f[x] \in Int /\ g[x] \in Int /\ h[x] = f[x] + g[x]
    PROVE  SumOf(h, A) = SumOf(f, A) + SumOf(g, A)
<1> DEFINE T == {s \in SUBSET A : SumOf(h, s) # SumOf(f, s) + SumOf(g, s)}
<1> SUFFICES ASSUME T # {} PROVE FALSE
  OBVIOUS
<1>1. T \subseteq SUBSET A /\ {} \notin T
  BY SumEmpty
<1>2. PICK B \in T : /\ IsFiniteSet(B) /\ B # {} /\ Pick(B) \in B
                     /\ \A x \in B : B \ {x} \notin T
  <2> HIDE DEF T
  <2> QED BY <1>1, LeastFailure
<1> DEFINE p == Pick(B)
           C == B \ {p}
<1>3. /\ SumOf(f, B) = f[p] + SumOf(f, C)
      /\ SumOf(g, B) = g[p] + SumOf(g, C)
      /\ SumOf(h, B) = h[p] + SumOf(h, C)
  BY <1>2, SumPick
<1>4. f[p] \in Int /\ g[p] \in Int /\ h[p] = f[p] + g[p]
  BY <1>2
<1>5. SumOf(h, C) = SumOf(f, C) + SumOf(g, C)
  BY <1>2
<1>6. SumOf(f, C) \in Int /\ SumOf(g, C) \in Int
  <2>1. IsFiniteSet(C) /\ C \in SUBSET A
    BY <1>2, FS_Subset
  <2> QED BY <2>1, SumInt
<1>7. SumOf(h, B) # SumOf(f, B) + SumOf(g, B)
  BY <1>2
<1> HIDE DEF p, C
<1> QED BY <1>3, <1>4, <1>5, <1>6, <1>7

\* Sums grow with their terms.
LEMMA SumMonotone ==
    ASSUME NEW f, NEW h, NEW A, IsFiniteSet(A),
           \A x \in A : f[x] \in Int /\ h[x] \in Int /\ f[x] <= h[x]
    PROVE  SumOf(f, A) <= SumOf(h, A)
<1> DEFINE T == {s \in SUBSET A : ~ (SumOf(f, s) <= SumOf(h, s))}
<1> SUFFICES ASSUME T # {} PROVE FALSE
  OBVIOUS
<1>1. T \subseteq SUBSET A /\ {} \notin T
  BY SumEmpty
<1>2. PICK B \in T : /\ IsFiniteSet(B) /\ B # {} /\ Pick(B) \in B
                     /\ \A x \in B : B \ {x} \notin T
  <2> HIDE DEF T
  <2> QED BY <1>1, LeastFailure
<1> DEFINE p == Pick(B)
           C == B \ {p}
<1>3. /\ SumOf(f, B) = f[p] + SumOf(f, C)
      /\ SumOf(h, B) = h[p] + SumOf(h, C)
  BY <1>2, SumPick
<1>4. f[p] \in Int /\ h[p] \in Int /\ f[p] <= h[p]
  BY <1>2
<1>5. SumOf(f, C) <= SumOf(h, C)
  BY <1>2
<1>6. SumOf(f, C) \in Int /\ SumOf(h, C) \in Int
  <2>1. IsFiniteSet(C) /\ C \in SUBSET A
    BY <1>2, FS_Subset
  <2> QED BY <2>1, SumInt
<1>7. ~ (SumOf(f, B) <= SumOf(h, B))
  BY <1>2
<1> HIDE DEF p, C
<1> QED BY <1>3, <1>4, <1>5, <1>6, <1>7

\* A sum of zeros is zero.
LEMMA SumZero ==
    ASSUME NEW f, NEW A, IsFiniteSet(A), \A x \in A : f[x] = 0
    PROVE  SumOf(f, A) = 0
<1> DEFINE T == {s \in SUBSET A : SumOf(f, s) # 0}
<1> SUFFICES ASSUME T # {} PROVE FALSE
  OBVIOUS
<1>1. T \subseteq SUBSET A /\ {} \notin T
  BY SumEmpty
<1>2. PICK B \in T : /\ IsFiniteSet(B) /\ B # {} /\ Pick(B) \in B
                     /\ \A x \in B : B \ {x} \notin T
  <2> HIDE DEF T
  <2> QED BY <1>1, LeastFailure
<1>3. SumOf(f, B) = f[Pick(B)] + SumOf(f, B \ {Pick(B)})
  BY <1>2, SumPick
<1>4. f[Pick(B)] = 0 /\ SumOf(f, B \ {Pick(B)}) = 0
  BY <1>2
<1> QED BY <1>3, <1>4

\* A sum of naturals is a natural that no term exceeds.
LEMMA SumNat ==
    ASSUME NEW f, NEW A, IsFiniteSet(A), \A x \in A : f[x] \in Nat
    PROVE  SumOf(f, A) \in Nat /\ \A a \in A : f[a] <= SumOf(f, A)
<1> DEFINE z == [x \in A |-> 0]
<1>1. ASSUME NEW B \in SUBSET A PROVE SumOf(f, B) \in Nat
  <2>1. IsFiniteSet(B)
    BY FS_Subset
  <2>2. SumOf(f, B) \in Int
    BY <2>1, SumInt
  <2>3. SumOf(z, B) = 0
    BY <2>1, SumZero
  <2>4. \A x \in B : z[x] \in Int /\ f[x] \in Int /\ z[x] <= f[x]
    OBVIOUS
  <2> HIDE DEF z
  <2>5. SumOf(z, B) <= SumOf(f, B)
    BY <2>1, <2>4, SumMonotone
  <2> QED BY <2>2, <2>3, <2>5
<1>2. ASSUME NEW a \in A PROVE f[a] <= SumOf(f, A)
  <2>1. SumOf(f, A) = f[a] + SumOf(f, A \ {a})
    BY SumRemove
  <2>2. SumOf(f, A \ {a}) \in Nat
    BY <1>1
  <2> QED BY <2>1, <2>2
<1> QED BY <1>1, <1>2

\* A new argument adds its term.
LEMMA SumAdjoin ==
    ASSUME NEW f, NEW A, IsFiniteSet(A), NEW a, a \notin A,
           \A x \in A \cup {a} : f[x] \in Int
    PROVE  SumOf(f, A \cup {a}) = SumOf(f, A) + f[a]
<1>1. IsFiniteSet(A \cup {a})
  BY FS_AddElement
<1>2. SumOf(f, A \cup {a}) = f[a] + SumOf(f, (A \cup {a}) \ {a})
  BY <1>1, SumRemove
<1>3. (A \cup {a}) \ {a} = A
  OBVIOUS
<1>4. SumOf(f, A) \in Int /\ f[a] \in Int
  BY SumInt
<1>5. SumOf(f, A \cup {a}) = f[a] + SumOf(f, A)
  BY <1>2, <1>3
<1> QED BY <1>4, <1>5

\* Changing one term changes the sum by as much.
LEMMA SumUpdate ==
    ASSUME NEW f, NEW h, NEW A, IsFiniteSet(A), NEW a \in A,
           \A x \in A : f[x] \in Int, h[a] \in Int, \A x \in A \ {a} : h[x] = f[x]
    PROVE  SumOf(h, A) = SumOf(f, A) - f[a] + h[a]
<1>1. \A x \in A : h[x] \in Int
  OBVIOUS
<1>2. /\ SumOf(f, A) = f[a] + SumOf(f, A \ {a})
      /\ SumOf(h, A) = h[a] + SumOf(h, A \ {a})
  BY <1>1, SumRemove
<1>3. IsFiniteSet(A \ {a})
  BY FS_Subset
<1>4. SumOf(h, A \ {a}) = SumOf(f, A \ {a})
  BY <1>3, SumSame
<1>5. SumOf(f, A \ {a}) \in Int
  BY <1>3, SumInt
<1> QED BY <1>2, <1>4, <1>5

\* A part of a sum of naturals is no larger than the sum.
LEMMA SumSubset ==
    ASSUME NEW f, NEW A, IsFiniteSet(A), \A x \in A : f[x] \in Nat, NEW B \in SUBSET A
    PROVE  SumOf(f, B) <= SumOf(f, A)
<1>1. \A C \in SUBSET A : SumOf(f, C) \in Nat
  BY FS_Subset, SumNat
<1>2. SUFFICES ASSUME ~(SumOf(f, B) <= SumOf(f, A)) PROVE FALSE
  OBVIOUS
<1> DEFINE T == {C \in SUBSET A : B \subseteq C /\ ~(SumOf(f, B) <= SumOf(f, C))}
<1>3. PICK C \in T : \A D \in T : D \subseteq C => D = C
  <2>1. T \subseteq SUBSET A /\ A \in T
    BY <1>2
  <2> HIDE DEF T
  <2> QED BY <2>1, SmallestFinite
<1>4. PICK a \in C : a \notin B
  <2>1. C # B
    <3>1. SumOf(f, B) <= SumOf(f, B)
      BY <1>1
    <3> QED BY <3>1
  <2> QED BY <2>1
<1>5. SumOf(f, B) <= SumOf(f, C \ {a})
  BY <1>3, <1>4
<1>6. IsFiniteSet(C)
  BY FS_Subset
<1>7. SumOf(f, C) = f[a] + SumOf(f, C \ {a})
  BY <1>6, SumRemove
<1>8. SumOf(f, B) \in Nat /\ SumOf(f, C \ {a}) \in Nat /\ f[a] \in Nat
  BY <1>1
<1> QED BY <1>3, <1>5, <1>7, <1>8

\* A part of a sum of positive numbers that comes to the whole sum is all of it.
LEMMA SumPartWhole ==
    ASSUME NEW f, NEW A, IsFiniteSet(A), \A x \in A : f[x] \in Nat \ {0},
           NEW B \in SUBSET A, SumOf(f, B) = SumOf(f, A)
    PROVE  B = A
<1>1. SUFFICES ASSUME NEW a \in A, a \notin B PROVE FALSE
  OBVIOUS
<1>2. SumOf(f, A) = f[a] + SumOf(f, A \ {a})
  BY SumRemove
<1>3. IsFiniteSet(A \ {a}) /\ B \subseteq A \ {a}
  BY <1>1, FS_Subset
<1>4. SumOf(f, B) <= SumOf(f, A \ {a})
  BY <1>3, SumSubset
<1>5. SumOf(f, A \ {a}) \in Nat
  BY <1>3, SumNat
<1> QED BY <1>2, <1>4, <1>5

\* Summing over a part is summing over the whole what is zero elsewhere.
LEMMA SumOver ==
    ASSUME NEW f, NEW h, NEW A, IsFiniteSet(A), NEW B \in SUBSET A, \A x \in B : f[x] \in Int,
           \A x \in A : h[x] = IF x \in B THEN f[x] ELSE 0
    PROVE  SumOf(h, A) = SumOf(f, B)
<1>1. SUFFICES ASSUME SumOf(h, A) # SumOf(f, B) PROVE FALSE
  OBVIOUS
<1>2. \A x \in A : h[x] \in Int
  OBVIOUS
<1>3. SumOf(h, B) = SumOf(f, B)
  BY FS_Subset, SumSame
<1> DEFINE T == {C \in SUBSET A : B \subseteq C /\ SumOf(h, C) # SumOf(f, B)}
<1>4. PICK C \in T : \A D \in T : D \subseteq C => D = C
  <2>1. T \subseteq SUBSET A /\ A \in T
    BY <1>1
  <2> HIDE DEF T
  <2> QED BY <2>1, SmallestFinite
<1>5. PICK a \in C : a \notin B
  <2>1. B \subseteq C /\ SumOf(h, C) # SumOf(f, B)
    BY <1>4
  <2>2. C # B
    BY <1>3, <2>1
  <2> QED BY <2>1, <2>2
<1>6. SumOf(h, C \ {a}) = SumOf(f, B)
  BY <1>4, <1>5
<1>7. IsFiniteSet(C) /\ \A x \in C : h[x] \in Int
  BY <1>2, FS_Subset
<1>8. SumOf(h, C) = h[a] + SumOf(h, C \ {a})
  BY <1>7, SumRemove
<1>9. h[a] = 0 /\ SumOf(h, C \ {a}) \in Int
  BY <1>5, <1>7, FS_Subset, SumInt
<1> QED BY <1>4, <1>6, <1>8, <1>9

-----------------------------------------------------------------------------
(* Least and greatest elements *)

\* The smaller of two integers.
LEMMA MinOfTwo ==
    ASSUME NEW a \in Int, NEW b \in Int
    PROVE  Min({a, b}) = IF a <= b THEN a ELSE b
<1> DEFINE m == Min({a, b})
<1>1. \E x \in {a, b} : \A y \in {a, b} : x <= y
  <2>1. CASE a <= b BY <2>1
  <2>2. CASE ~(a <= b)
    <3>1. b <= a
      BY <2>2
    <3> QED BY <3>1
  <2> QED BY <2>1, <2>2
<1>2. m \in {a, b} /\ m <= a /\ m <= b
  BY <1>1 DEF Min
<1>3. m = IF a <= b THEN a ELSE b
  <2> HIDE DEF m
  <2> QED BY <1>2
<1> QED BY <1>3

\* The larger of two integers.
LEMMA MaxOfTwo ==
    ASSUME NEW a \in Int, NEW b \in Int
    PROVE  Max({a, b}) = IF a >= b THEN a ELSE b
<1> DEFINE m == Max({a, b})
<1>1. \E x \in {a, b} : \A y \in {a, b} : x >= y
  <2>1. CASE a >= b BY <2>1
  <2>2. CASE ~(a >= b)
    <3>1. b >= a
      BY <2>2
    <3> QED BY <3>1
  <2> QED BY <2>1, <2>2
<1>2. m \in {a, b} /\ m >= a /\ m >= b
  BY <1>1 DEF Max
<1>3. m = IF a >= b THEN a ELSE b
  <2> HIDE DEF m
  <2> QED BY <1>2
<1> QED BY <1>3

\* A finite set of integers has a least element, which is its minimum.
LEMMA LeastOfFinite ==
    ASSUME NEW S, IsFiniteSet(S), S \subseteq Int, S # {}
    PROVE  Min(S) \in S /\ \A x \in S : Min(S) <= x
<1> DEFINE Least(A) == \E m \in A : \A x \in A : m <= x
           T == {A \in SUBSET S : A # {} /\ ~Least(A)}
<1>1. Least(S)
  <2>1. SUFFICES ASSUME ~Least(S) PROVE FALSE
    OBVIOUS
  <2>2. PICK C \in T : \A D \in T : D \subseteq C => D = C
    <3>1. T \subseteq SUBSET S /\ T # {}
      BY <2>1
    <3> HIDE DEF T, Least
    <3>2. \E C \in T : \A D \in T : D \subseteq C => D = C
      BY ONLY <3>1, IsFiniteSet(S), SmallestFinite
    <3> QED BY <3>2
  <2>3. C # {} /\ C \subseteq Int /\ ~Least(C)
    BY <2>2
  <2>4. PICK a \in C : TRUE
    BY <2>3
  <2>5. CASE C \ {a} = {}
    BY <2>3, <2>4, <2>5
  <2>6. CASE C \ {a} # {}
    <3>1. C \ {a} \notin T
      BY <2>2, <2>4
    <3>2. Least(C \ {a})
      BY <2>2, <2>6, <3>1
    <3>3. PICK m \in C \ {a} : \A x \in C \ {a} : m <= x
      BY <3>2
    <3>4. CASE a <= m
      <4>1. \A x \in C : a <= x
        BY <2>3, <3>3, <3>4
      <4> QED BY <2>3, <2>4, <4>1
    <3>5. CASE ~(a <= m)
      <4>1. \A x \in C : m <= x
        BY <2>3, <2>4, <3>3, <3>5
      <4> QED BY <2>3, <3>3, <4>1
    <3> QED BY <3>4, <3>5
  <2> QED BY <2>5, <2>6
<1> QED BY <1>1 DEF Min

\* A strict total order on A, as a set of pairs.
Ordered(R, A) ==
    /\ \A x \in A : <<x, x>> \notin R
    /\ \A x, y \in A : x # y => <<x, y>> \in R \/ <<y, x>> \in R
    /\ \A x, y, z \in A : <<x, y>> \in R /\ <<y, z>> \in R => <<x, z>> \in R

LEMMA LastOfFinite ==
    ASSUME NEW R, NEW A, IsFiniteSet(A), A # {}, Ordered(R, A)
    PROVE  \E m \in A : \A x \in A \ {m} : <<x, m>> \in R
<1> DEFINE Last(S) == \E m \in S : \A x \in S \ {m} : <<x, m>> \in R
           T == {S \in SUBSET A : S # {} /\ ~Last(S)}
<1> SUFFICES ASSUME T # {} PROVE FALSE
  OBVIOUS
<1>1. T \subseteq SUBSET A /\ {} \notin T
  OBVIOUS
<1>2. PICK B \in T : B # {} /\ \A x \in B : B \ {x} \notin T
  <2> HIDE DEF T
  <2> QED BY <1>1, LeastFailure
<1>3. B \subseteq A /\ ~Last(B)
  BY <1>2
<1>4. PICK a \in B : TRUE
  BY <1>2
<1>5. CASE B \ {a} = {}
  BY <1>3, <1>4, <1>5
<1>6. CASE B \ {a} # {}
  <2>1. Last(B \ {a})
    BY <1>2, <1>3, <1>4, <1>6
  <2>2. PICK m \in B \ {a} : \A x \in (B \ {a}) \ {m} : <<x, m>> \in R
    BY <2>1
  <2>3. CASE <<a, m>> \in R
    <3>1. \A x \in B \ {m} : <<x, m>> \in R
      BY <2>2, <2>3
    <3> QED BY <1>3, <2>2, <3>1
  <2>4. CASE <<m, a>> \in R
    <3>1. \A x \in B \ {a} : <<x, a>> \in R
      BY <1>3, <1>4, <2>2, <2>4 DEF Ordered
    <3> QED BY <1>3, <1>4, <3>1
  <2> QED BY <1>3, <1>4, <2>2, <2>3, <2>4 DEF Ordered
<1> QED BY <1>5, <1>6

-----------------------------------------------------------------------------
(* Sums of sums, and the greedy split *)

\* A sum over pairs, taken by their first components, is the sum over all.
LEMMA SumByFirst ==
    ASSUME NEW d, NEW K, IsFiniteSet(K), \A k \in K : d[k] \in Int,
           NEW B, IsFiniteSet(B), \A k \in K : k[1] \in B,
           NEW f, \A b \in B : f[b] = SumOf(d, {k \in K : k[1] = b})
    PROVE  SumOf(f, B) = SumOf(d, K)
<1> DEFINE class(S, b) == {k \in S : k[1] = b}
           by(S) == [b \in B |-> SumOf(d, class(S, b))]
           T == {S \in SUBSET K : SumOf(by(S), B) # SumOf(d, S)}
<1>1. ASSUME NEW S \in SUBSET K, NEW b
      PROVE  class(S, b) \subseteq S /\ IsFiniteSet(class(S, b)) /\ SumOf(d, class(S, b)) \in Int
  <2>1. class(S, b) \in SUBSET K
    OBVIOUS
  <2> HIDE DEF class
  <2>2. IsFiniteSet(class(S, b)) /\ \A k \in class(S, b) : d[k] \in Int
    BY <2>1, FS_Subset
  <2>3. SumOf(d, class(S, b)) \in Int
    BY <2>2, SumInt
  <2> QED BY <2>2, <2>3 DEF class
<1>2. {} \notin T
  <2>1. \A b \in B : by({})[b] = 0
    <3> TAKE b \in B
    <3>1. class({}, b) = {}
      OBVIOUS
    <3> HIDE DEF class
    <3> QED BY <3>1, SumEmpty
  <2> HIDE DEF by
  <2>2. SumOf(by({}), B) = 0
    BY <2>1, SumZero
  <2> QED BY <2>2, SumEmpty
<1>3. T = {}
  <2> SUFFICES ASSUME T # {} PROVE FALSE
    OBVIOUS
  <2>1. T \subseteq SUBSET K
    OBVIOUS
  <2>2. PICK S \in T : /\ IsFiniteSet(S) /\ S # {} /\ Pick(S) \in S
                       /\ \A x \in S : S \ {x} \notin T
    <3> HIDE DEF T
    <3> QED BY <1>2, <2>1, LeastFailure
  <2>3. PICK a \in S : a = Pick(S)
    BY <2>2
  <2>4. PICK U : U = S \ {a}
    OBVIOUS
  <2>5. S \in SUBSET K /\ U \in SUBSET K /\ a[1] \in B /\ d[a] \in Int
    BY <2>2, <2>3, <2>4
  <2>6. SumOf(by(S), B) # SumOf(d, S) /\ SumOf(by(U), B) = SumOf(d, U)
    BY <2>2, <2>3, <2>4, <2>5
  <2>7. SumOf(d, S) = d[a] + SumOf(d, U)
    <3>1. \A x \in S : d[x] \in Int
      BY <2>5
    <3> QED BY <2>2, <2>4, <3>1, SumRemove
  <2>8. /\ a \in class(S, a[1]) /\ class(U, a[1]) = class(S, a[1]) \ {a}
        /\ \A b \in B \ {a[1]} : class(U, b) = class(S, b)
    BY <2>3, <2>4
  <2> HIDE DEF class, T
  <2>9. SumOf(d, class(S, a[1])) = d[a] + SumOf(d, class(U, a[1]))
    <3>1. IsFiniteSet(class(S, a[1])) /\ \A x \in class(S, a[1]) : d[x] \in Int
      BY <1>1, <2>5
    <3> QED BY <2>8, <3>1, SumRemove
  <2>10. /\ \A b \in B : by(U)[b] \in Int
         /\ by(S)[a[1]] \in Int /\ by(S)[a[1]] = d[a] + by(U)[a[1]]
         /\ \A b \in B \ {a[1]} : by(S)[b] = by(U)[b]
    <3>1. \A b \in B : by(U)[b] = SumOf(d, class(U, b)) /\ by(S)[b] = SumOf(d, class(S, b))
      OBVIOUS
    <3>2. \A b \in B : SumOf(d, class(U, b)) \in Int /\ SumOf(d, class(S, b)) \in Int
      BY <1>1, <2>5
    <3> HIDE DEF by
    <3>3. by(S)[a[1]] = d[a] + by(U)[a[1]]
      BY <2>5, <2>9, <3>1
    <3>4. \A b \in B \ {a[1]} : by(S)[b] = by(U)[b]
      BY <2>8, <3>1
    <3> QED BY <2>5, <3>1, <3>2, <3>3, <3>4
  <2>11. SumOf(by(S), B) = SumOf(by(U), B) - by(U)[a[1]] + by(S)[a[1]]
    <3> HIDE DEF by
    <3> QED BY <2>5, <2>10, SumUpdate
  <2>12. SumOf(d, U) \in Int
    <3>1. IsFiniteSet(U) /\ \A x \in U : d[x] \in Int
      BY <2>5, FS_Subset
    <3> QED BY <3>1, SumInt
  <2>13. by(U)[a[1]] \in Int
    BY <2>5, <2>10
  <2> HIDE DEF by
  <2> QED BY <2>5, <2>6, <2>7, <2>10, <2>11, <2>12, <2>13
<1>4. SumOf(by(K), B) = SumOf(d, K)
  BY <1>3
<1>5. \A b \in B : f[b] = by(K)[b]
  OBVIOUS
<1> HIDE DEF by
<1>6. SumOf(f, B) = SumOf(by(K), B)
  BY <1>5, SumSame
<1> QED BY <1>4, <1>6

\* As much of n as lies between zero and m.
UpTo(m, n) == IF n <= 0 THEN 0 ELSE IF n <= m THEN n ELSE m

\* Taking from each element, in order, as much as it has of what is still wanted
\* takes all that is wanted, or all there is.
LEMMA GreedySum ==
    ASSUME NEW f, NEW A, IsFiniteSet(A), \A x \in A : f[x] \in Nat, NEW P \in Nat,
           NEW R, Ordered(R, A),
           NEW g, \A x \in A : g[x] = UpTo(f[x], P - SumOf(f, {y \in A : <<y, x>> \in R}))
    PROVE  SumOf(g, A) = UpTo(SumOf(f, A), P)
<1> DEFINE ahead(S, x) == {y \in S : <<y, x>> \in R}
           cut(S) == [x \in S |-> UpTo(f[x], P - SumOf(f, ahead(S, x)))]
           T == {S \in SUBSET A : SumOf(cut(S), S) # UpTo(SumOf(f, S), P)}
<1>1. ASSUME NEW S \in SUBSET A
      PROVE  IsFiniteSet(S) /\ SumOf(f, S) \in Nat
  <2>1. IsFiniteSet(S) /\ \A x \in S : f[x] \in Nat
    BY FS_Subset
  <2> QED BY <2>1, SumNat
<1>2. ASSUME NEW S \in SUBSET A, NEW x \in S
      PROVE  ahead(S, x) \in SUBSET A /\ SumOf(f, ahead(S, x)) \in Nat /\ cut(S)[x] \in Nat
  <2>1. ahead(S, x) \in SUBSET A
    OBVIOUS
  <2>2. cut(S)[x] = UpTo(f[x], P - SumOf(f, ahead(S, x)))
    OBVIOUS
  <2> HIDE DEF ahead, cut
  <2>3. SumOf(f, ahead(S, x)) \in Nat
    BY <1>1, <2>1
  <2>4. f[x] \in Nat
    OBVIOUS
  <2>5. UpTo(f[x], P - SumOf(f, ahead(S, x))) \in Nat
    BY <2>3, <2>4 DEF UpTo
  <2> QED BY <2>1, <2>2, <2>3, <2>5
<1>3. {} \notin T
  BY SumEmpty DEF UpTo
<1>4. T = {}
  <2> SUFFICES ASSUME T # {} PROVE FALSE
    OBVIOUS
  <2>1. T \subseteq SUBSET A
    OBVIOUS
  <2>2. PICK S \in T : S # {} /\ \A x \in S : S \ {x} \notin T
    <3> HIDE DEF T
    <3> QED BY <1>3, <2>1, LeastFailure
  <2>3. S \in SUBSET A /\ Ordered(R, S) /\ IsFiniteSet(S)
    BY <1>1, <2>2 DEF Ordered
  <2>4. PICK m \in S : \A x \in S \ {m} : <<x, m>> \in R
    BY <2>2, <2>3, LastOfFinite
  <2>5. PICK U : U = S \ {m}
    OBVIOUS
  <2>6. U \in SUBSET A /\ SumOf(cut(U), U) = UpTo(SumOf(f, U), P) /\ SumOf(cut(S), S) # UpTo(SumOf(f, S), P)
    BY <2>2, <2>3, <2>4, <2>5
  <2>7. ahead(S, m) = U /\ \A x \in U : ahead(S, x) = ahead(U, x)
    <3>1. \A x \in U : <<m, x>> \notin R
      BY <2>3, <2>4, <2>5 DEF Ordered
    <3>2. <<m, m>> \notin R
      BY <2>3, <2>4 DEF Ordered
    <3> QED BY <2>4, <2>5, <3>1, <3>2
  <2>8. cut(S)[m] = UpTo(f[m], P - SumOf(f, U)) /\ \A x \in U : cut(S)[x] = cut(U)[x]
    <3> HIDE DEF ahead
    <3> QED BY <2>4, <2>5, <2>7
  <2>9. \A x \in S : cut(S)[x] \in Nat
    BY <1>2, <2>3
  <2> HIDE DEF ahead, cut, T
  <2>10. SumOf(cut(S), S) = cut(S)[m] + SumOf(cut(S), U)
    BY <2>3, <2>4, <2>5, <2>9, SumRemove
  <2>11. SumOf(cut(S), U) = SumOf(cut(U), U)
    <3>1. IsFiniteSet(U)
      BY <1>1, <2>6
    <3> QED BY <2>8, <3>1, SumSame
  <2>12. SumOf(f, S) = f[m] + SumOf(f, U)
    <3>1. \A x \in S : f[x] \in Int
      BY <2>3
    <3> QED BY <2>3, <2>4, <2>5, <3>1, SumRemove
  <2>13. SumOf(f, U) \in Nat /\ f[m] \in Nat
    BY <1>1, <2>3, <2>4, <2>6
  <2>14. UpTo(f[m], P - SumOf(f, U)) + UpTo(SumOf(f, U), P) = UpTo(f[m] + SumOf(f, U), P)
    BY <2>13 DEF UpTo
  <2> QED BY <2>6, <2>8, <2>10, <2>11, <2>12, <2>14
<1>5. SumOf(cut(A), A) = UpTo(SumOf(f, A), P)
  BY <1>4
<1>6. \A x \in A : g[x] = cut(A)[x]
  OBVIOUS
<1> HIDE DEF cut
<1>7. SumOf(g, A) = SumOf(cut(A), A)
  BY <1>6, SumSame
<1> QED BY <1>5, <1>7
=============================================================================
