-------------------------- MODULE CollectionFacts --------------------------
(***************************************************************************)
(* What the other proofs need to know of sets and sequences: sums over     *)
(* finite sets, as the community modules define them, and the elements of  *)
(* sequences; and things that lie in one another (Nesting).  Induction is  *)
(* used in a form that needs no operator parameter: a non-empty set of     *)
(* counterexamples has a least one.                                        *)
(***************************************************************************)
EXTENDS Integers, FiniteSets, FiniteSetsExt, FiniteSetTheorems, WellFoundedInduction,
        SequenceTheorems, Nesting, TLAPS

(* Every non-empty set of natural numbers has a least element.             *)
LEMMA LeastNatural ==
  ASSUME NEW T \in SUBSET Nat, T # {}
  PROVE  \E m \in T : \A n \in T : m <= n
<1> DEFINE R == OpToRel(<, Nat)
<1>1. IsWellFoundedOn(R, Nat)
  BY NatLessThanWellFounded
<1>2. \A x, y \in Nat : y < x => <<y, x>> \in R
  BY DEF OpToRel
<1> HIDE DEF R
<1>3. PICK x \in T : \A y \in T : ~ (<<y, x>> \in R)
  BY <1>1, WFMin
<1>4. ASSUME NEW y \in T PROVE x <= y
  <2>1. ~(y < x)
    BY <1>2, <1>3
  <2> QED
    BY <2>1
<1> QED
  BY <1>4

(* Every non-empty collection of subsets of a finite set has a least one.  *)
LEMMA LeastSubset ==
  ASSUME NEW S, IsFiniteSet(S), NEW T \in SUBSET (SUBSET S), T # {}
  PROVE  \E u \in T : \A v \in T : v \subseteq u => v = u
<1> DEFINE N == {Cardinality(u) : u \in T}
<1>1. \A u \in T : IsFiniteSet(u) /\ Cardinality(u) \in Nat
  BY FS_Subset, FS_CardinalityType
<1>2. N \in SUBSET Nat /\ N # {}
  BY <1>1
<1> HIDE DEF N
<1>3. PICK m \in N : \A n \in N : m <= n
  BY <1>2, LeastNatural
<1>4. PICK u \in T : m = Cardinality(u)
  BY <1>3 DEF N
<1>5. ASSUME NEW v \in T, v \subseteq u PROVE v = u
  <2>1. Cardinality(u) <= Cardinality(v)
    BY <1>3, <1>4 DEF N
  <2>2. Cardinality(v) <= Cardinality(u) /\ (Cardinality(u) = Cardinality(v) => u = v)
    BY <1>1, <1>5, FS_Subset
  <2> QED
    BY <1>1, <2>1, <2>2
<1> QED
  BY <1>5

-----------------------------------------------------------------------------
(* The recursion that defines a sum, and the sum of w over S.              *)
First(s) == CHOOSE x \in s : TRUE

Adds(f, w, S) ==
    f = [s \in SUBSET S |-> IF s = {} THEN 0 ELSE w[First(s)] + f[s \ {First(s)}]]

Sum(w, S) == MapThenSumSet(LAMBDA c : w[c], S)

(* The recursion has a solution on the subsets of a finite set: one for    *)
(* those of at most n elements is extended to those of one more.           *)
LEMMA AddsExists ==
  ASSUME NEW S, IsFiniteSet(S), NEW w
  PROVE  \E f : Adds(f, w, S)
<1> DEFINE Small(n) == {s \in SUBSET S : Cardinality(s) <= n}
           On(f, n) == f = [s \in Small(n) |-> IF s = {} THEN 0
                                               ELSE w[First(s)] + f[s \ {First(s)}]]
           Bad == {n \in Nat : ~ \E f : On(f, n)}
<1>1. \A s \in SUBSET S : IsFiniteSet(s) /\ Cardinality(s) \in Nat /\ Cardinality(s) <= Cardinality(S)
  BY FS_Subset, FS_CardinalityType
<1>2. ASSUME NEW s \in SUBSET S, s # {}
      PROVE  /\ First(s) \in s /\ s \ {First(s)} \in SUBSET S
             /\ Cardinality(s \ {First(s)}) = Cardinality(s) - 1
  <2>1. First(s) \in s
    BY <1>2 DEF First
  <2> QED
    BY <1>1, <2>1, FS_RemoveElement
<1>3. Bad = {}
  <2> SUFFICES ASSUME Bad # {} PROVE FALSE
    OBVIOUS
  <2>1. PICK m \in Bad : \A n \in Bad : m <= n
    BY LeastNatural
  <2>2. m \in Nat /\ ~ \E f : On(f, m)
    BY <2>1
  <2>3. CASE m = 0
    <3>1. \A s \in Small(0) : s = {}
      BY <1>1, FS_EmptySet
    <3>2. On([s \in Small(0) |-> 0], 0)
      BY <3>1
    <3> QED
      BY <2>2, <2>3, <3>2
  <2>4. CASE m # 0
    <3>1. m - 1 \in Nat /\ ~ (m <= m - 1)
      BY <2>2, <2>4
    <3>1a. m - 1 \notin Bad
      <4> HIDE DEF Bad
      <4> QED
        BY <2>1, <3>1
    <3>2. PICK f : On(f, m - 1)
      <4> HIDE DEF On
      <4> QED
        BY <3>1, <3>1a
    <3> DEFINE val(s) == IF s = {} THEN 0 ELSE w[First(s)] + f[s \ {First(s)}]
    <3>0. PICK g : g = [s \in Small(m) |-> val(s)]
      OBVIOUS
    <3>3. ASSUME NEW s \in Small(m), s # {}
          PROVE  g[s \ {First(s)}] = f[s \ {First(s)}]
      <4> DEFINE r == s \ {First(s)}
      <4>1. r \in SUBSET S /\ Cardinality(r) = Cardinality(s) - 1 /\ Cardinality(s) \in Nat
        BY <1>1, <1>2, <3>3
      <4>2. r \in Small(m - 1) /\ r \in Small(m)
        BY <2>2, <4>1
      <4> HIDE DEF r
      <4>3. f[r] = val(r)
        BY <3>2, <4>2
      <4>4. g[r] = val(r)
        BY <3>0, <4>2
      <4> HIDE DEF val
      <4> QED
        BY <4>3, <4>4 DEF r
    <3>4. On(g, m)
      <4>1. \A s \in Small(m) : val(s) = IF s = {} THEN 0 ELSE w[First(s)] + g[s \ {First(s)}]
        BY <3>3
      <4> HIDE DEF val
      <4> QED
        BY <3>0, <4>1
    <3> QED
      BY <2>2, <3>4
  <2> QED
    BY <2>3, <2>4
<1>4. Cardinality(S) \in Nat /\ Small(Cardinality(S)) = SUBSET S
  BY <1>1, FS_CardinalityType
<1>5. PICK f : On(f, Cardinality(S))
  BY <1>3, <1>4
<1> QED
  BY <1>4, <1>5 DEF Adds

(* A solution of the recursion: it has integer values, and any element of  *)
(* a set may be counted first.                                             *)
LEMMA AddsAnyFirst ==
  ASSUME NEW S, IsFiniteSet(S), NEW w, \A x \in S : w[x] \in Int, NEW f, Adds(f, w, S)
  PROVE  \A s \in SUBSET S : f[s] \in Int /\ \A x \in s : f[s] = w[x] + f[s \ {x}]
<1> DEFINE Bad == {s \in SUBSET S : ~ (f[s] \in Int /\ \A x \in s : f[s] = w[x] + f[s \ {x}])}
<1> SUFFICES ASSUME Bad # {} PROVE FALSE
  OBVIOUS
<1>0. Bad \in SUBSET (SUBSET S) /\ \A s \in Bad : ~ (f[s] \in Int /\ \A x \in s : f[s] = w[x] + f[s \ {x}])
  OBVIOUS
<1>0a. \A s \in SUBSET S : s \notin Bad => f[s] \in Int /\ \A x \in s : f[s] = w[x] + f[s \ {x}]
  OBVIOUS
<1> HIDE DEF Bad
<1>1. PICK s \in Bad : \A v \in Bad : v \subseteq s => v = s
  BY <1>0, LeastSubset
<1>2. \A v \in SUBSET S : f[v] = IF v = {} THEN 0 ELSE w[First(v)] + f[v \ {First(v)}]
  BY DEF Adds
<1>3. \A v \in SUBSET S : v # {} => First(v) \in v
  BY DEF First
<1>4. ASSUME NEW v \in SUBSET S, v \subseteq s, v # s
      PROVE  f[v] \in Int /\ \A x \in v : f[v] = w[x] + f[v \ {x}]
  BY <1>0a, <1>1, <1>4
<1>5. s # {}
  <2>1. ASSUME s = {} PROVE f[s] = 0
    BY <1>0, <1>2, <2>1
  <2> QED
    BY <1>0, <2>1
<1> DEFINE c == First(s)
<1>6. c \in s /\ s \in SUBSET S /\ f[s] = w[c] + f[s \ {c}]
  BY <1>0, <1>1, <1>2, <1>3, <1>5
<1> HIDE DEF c
<1>7. f[s \ {c}] \in Int /\ w[c] \in Int /\ f[s] \in Int
  BY <1>4, <1>6
<1>8. ASSUME NEW x \in s, x # c PROVE f[s] = w[x] + f[s \ {x}]
  <2> DEFINE r == s \ {x}
             q == s \ {c}
             b == s \ {x, c}
  <2>1. r \in SUBSET S /\ q \in SUBSET S /\ b \in SUBSET S /\ c \in r /\ x \in q
        /\ r \ {c} = b /\ q \ {x} = b
    BY <1>6, <1>8
  <2>2. f[q] = w[x] + f[q \ {x}]
    BY <1>4, <1>6, <2>1
  <2>3. f[r] = w[c] + f[r \ {c}]
    BY <1>4, <1>8, <2>1
  <2>4. f[b] \in Int /\ w[x] \in Int
    BY <1>4, <1>6, <1>8, <2>1
  <2>5. f[s] = w[c] + f[q] /\ f[q] = w[x] + f[b] /\ f[r] = w[c] + f[b]
    BY <1>6, <2>1, <2>2, <2>3
  <2> HIDE DEF r, q, b
  <2>6. f[s] = w[x] + f[r]
    BY <1>7, <2>4, <2>5
  <2> QED
    BY <2>6 DEF r
<1> QED
  BY <1>0, <1>6, <1>7, <1>8

(* Solutions for two functions that agree on a set agree on the set.       *)
LEMMA AddsAgree ==
  ASSUME NEW S, IsFiniteSet(S), NEW P, P \subseteq S, NEW v, NEW w,
         \A x \in P : v[x] = w[x],
         NEW f, Adds(f, v, S), NEW g, Adds(g, w, P)
  PROVE  f[P] = g[P]
<1> DEFINE Bad == {s \in SUBSET P : f[s] # g[s]}
<1> SUFFICES ASSUME Bad # {} PROVE FALSE
  OBVIOUS
<1>1. IsFiniteSet(P)
  BY FS_Subset
<1>1a. Bad \in SUBSET (SUBSET P)
  OBVIOUS
<1>1b. \A s \in SUBSET P : s \in Bad <=> f[s] # g[s]
  OBVIOUS
<1> HIDE DEF Bad
<1>2. PICK s \in Bad : \A u \in Bad : u \subseteq s => u = s
  BY <1>1, <1>1a, LeastSubset
<1>3. /\ s \in SUBSET P /\ s \in SUBSET S
      /\ f[s] = IF s = {} THEN 0 ELSE v[First(s)] + f[s \ {First(s)}]
      /\ g[s] = IF s = {} THEN 0 ELSE w[First(s)] + g[s \ {First(s)}]
  BY <1>1a, <1>2 DEF Adds
<1>4. s # {}
  BY <1>1b, <1>2, <1>3
<1>5. First(s) \in s
  BY <1>4 DEF First
<1>6. s \ {First(s)} \in SUBSET P /\ s \ {First(s)} \notin Bad
  BY <1>2, <1>3, <1>5
<1>7. f[s \ {First(s)}] = g[s \ {First(s)}]
  BY <1>1b, <1>6
<1>8. v[First(s)] = w[First(s)]
  BY <1>3, <1>5
<1> QED
  BY <1>1b, <1>2, <1>3, <1>4, <1>7, <1>8

(* The sum of the community modules is that of a solution.                 *)
LEMMA SumSolves ==
  ASSUME NEW S, IsFiniteSet(S), NEW w
  PROVE  \E f : Adds(f, w, S) /\ Sum(w, S) = f[S]
<1>1. Sum(w, S) = (CHOOSE f : Adds(f, w, S))[S]
  BY DEF Sum, MapThenSumSet, MapThenFoldSet, Adds, First
<1> QED
  BY <1>1, AddsExists

(* What is known of sums.                                                  *)
LEMMA SumOfNothing == \A w : Sum(w, {}) = 0
<1> SUFFICES ASSUME NEW w PROVE Sum(w, {}) = 0
  OBVIOUS
<1>1. PICK f : Adds(f, w, {}) /\ Sum(w, {}) = f[{}]
  BY FS_EmptySet, SumSolves
<1> QED
  BY <1>1 DEF Adds

(* One element is taken out of a sum.                                      *)
LEMMA SumTaken ==
  ASSUME NEW S, IsFiniteSet(S), NEW w, \A x \in S : w[x] \in Int, NEW x \in S
  PROVE  Sum(w, S) = w[x] + Sum(w, S \ {x}) /\ Sum(w, S) \in Int /\ Sum(w, S \ {x}) \in Int
<1> DEFINE r == S \ {x}
<1>1. IsFiniteSet(r) /\ r \in SUBSET S
  BY FS_RemoveElement
<1>2. PICK f : Adds(f, w, S) /\ Sum(w, S) = f[S]
  BY SumSolves
<1> HIDE DEF r
<1>3. PICK g : Adds(g, w, r) /\ Sum(w, r) = g[r]
  BY <1>1, SumSolves
<1>4. f[r] = g[r]
  BY <1>1, <1>2, <1>3, AddsAgree
<1>5. f[S] \in Int /\ f[r] \in Int /\ f[S] = w[x] + f[r]
  BY <1>1, <1>2, AddsAnyFirst DEF r
<1> QED
  BY <1>2, <1>3, <1>4, <1>5 DEF r

(* A sum of integers is one.                                               *)
LEMMA SumIsInt ==
  ASSUME NEW S, IsFiniteSet(S), NEW w, \A x \in S : w[x] \in Int
  PROVE  Sum(w, S) \in Int
<1>1. PICK f : Adds(f, w, S) /\ Sum(w, S) = f[S]
  BY SumSolves
<1> QED
  BY <1>1, AddsAnyFirst

(* Equal summands, equal sums.                                             *)
LEMMA SumsAgree ==
  ASSUME NEW S, IsFiniteSet(S), NEW v, NEW w, \A x \in S : v[x] = w[x]
  PROVE  Sum(v, S) = Sum(w, S)
<1>1. PICK f : Adds(f, v, S) /\ Sum(v, S) = f[S]
  BY SumSolves
<1>2. PICK g : Adds(g, w, S) /\ Sum(w, S) = g[S]
  BY SumSolves
<1> QED
  BY <1>1, <1>2, AddsAgree

(* A change at one place changes the sum by as much.                       *)
LEMMA SumChangedAt ==
  ASSUME NEW S, IsFiniteSet(S), NEW v, NEW w, NEW x \in S,
         \A y \in S : v[y] \in Int /\ w[y] \in Int,
         \A y \in S \ {x} : v[y] = w[y]
  PROVE  Sum(w, S) - Sum(v, S) = w[x] - v[x]
<1> DEFINE r == S \ {x}
<1>1. IsFiniteSet(r)
  BY FS_RemoveElement
<1>2. Sum(v, r) = Sum(w, r)
  BY <1>1, SumsAgree
<1>3. /\ Sum(v, S) = v[x] + Sum(v, r) /\ Sum(w, S) = w[x] + Sum(w, r)
      /\ Sum(v, r) \in Int /\ v[x] \in Int /\ w[x] \in Int
  BY SumTaken
<1> QED
  BY <1>2, <1>3

(* Sums are ordered as their terms are.                                    *)
LEMMA SumsOrdered ==
  ASSUME NEW S, IsFiniteSet(S), NEW v, NEW w,
         \A y \in S : v[y] \in Int /\ w[y] \in Int /\ v[y] <= w[y]
  PROVE  Sum(v, S) <= Sum(w, S)
<1>1. PICK f : Adds(f, v, S) /\ Sum(v, S) = f[S]
  BY SumSolves
<1>2. PICK g : Adds(g, w, S) /\ Sum(w, S) = g[S]
  BY SumSolves
<1>3. \A s \in SUBSET S : f[s] \in Int /\ g[s] \in Int
  BY <1>1, <1>2, AddsAnyFirst
<1> DEFINE Bad == {s \in SUBSET S : ~ (f[s] <= g[s])}
<1>4. Bad = {}
  <2> SUFFICES ASSUME Bad # {} PROVE FALSE
    OBVIOUS
  <2>a. Bad \in SUBSET (SUBSET S)
    OBVIOUS
  <2>b. \A s \in SUBSET S : s \in Bad <=> ~ (f[s] <= g[s])
    OBVIOUS
  <2> HIDE DEF Bad
  <2>1. PICK s \in Bad : \A u \in Bad : u \subseteq s => u = s
    BY <2>a, LeastSubset
  <2>2. /\ s \in SUBSET S
        /\ f[s] = IF s = {} THEN 0 ELSE v[First(s)] + f[s \ {First(s)}]
        /\ g[s] = IF s = {} THEN 0 ELSE w[First(s)] + g[s \ {First(s)}]
    BY <1>1, <1>2, <2>a, <2>1 DEF Adds
  <2>3. s # {}
    BY <2>b, <2>1, <2>2
  <2>4. First(s) \in s
    BY <2>3 DEF First
  <2> DEFINE x == First(s)
             r == s \ {x}
  <2>5. r \in SUBSET S /\ r \notin Bad /\ x \in S
    BY <2>1, <2>2, <2>4
  <2>6. f[r] <= g[r] /\ f[r] \in Int /\ g[r] \in Int
    BY <1>3, <2>b, <2>5
  <2>7. f[s] = v[x] + f[r] /\ g[s] = w[x] + g[r] /\ v[x] \in Int /\ w[x] \in Int /\ v[x] <= w[x]
    BY <2>2, <2>3, <2>5
  <2>8. ~ (f[s] <= g[s])
    BY <2>a, <2>b, <2>1
  <2> HIDE DEF x, r
  <2> QED
    BY <2>6, <2>7, <2>8
<1> QED
  BY <1>1, <1>2, <1>4

(* A sum is that over a part and that over the rest.                       *)
LEMMA SumSplit ==
  ASSUME NEW S, IsFiniteSet(S), NEW w, \A x \in S : w[x] \in Int, NEW P \in SUBSET S
  PROVE  /\ Sum(w, S) = Sum(w, P) + Sum(w, S \ P)
         /\ Sum(w, S) \in Int /\ Sum(w, P) \in Int /\ Sum(w, S \ P) \in Int
<1> DEFINE Q == S \ P
           Bad == {s \in SUBSET P : Sum(w, s \cup Q) # Sum(w, s) + Sum(w, Q)}
<1>1. \A s \in SUBSET S : IsFiniteSet(s) /\ Sum(w, s) \in Int
  <2> SUFFICES ASSUME NEW s \in SUBSET S PROVE IsFiniteSet(s) /\ Sum(w, s) \in Int
    OBVIOUS
  <2>1. IsFiniteSet(s) /\ \A x \in s : w[x] \in Int
    BY FS_Subset
  <2> QED
    BY <2>1, SumIsInt
<1>2. Q \in SUBSET S /\ P \cap Q = {} /\ P \cup Q = S
  OBVIOUS
<1> HIDE DEF Q
<1>3. Bad = {}
  <2> SUFFICES ASSUME Bad # {} PROVE FALSE
    OBVIOUS
  <2>1. Bad \in SUBSET (SUBSET S)
    OBVIOUS
  <2>2. \A s \in SUBSET P : s \in Bad <=> Sum(w, s \cup Q) # Sum(w, s) + Sum(w, Q)
    OBVIOUS
  <2>2a. Bad \subseteq SUBSET P
    OBVIOUS
  <2> HIDE DEF Bad
  <2>3. PICK s \in Bad : \A v \in Bad : v \subseteq s => v = s
    BY <2>1, LeastSubset
  <2>4. s \in SUBSET P /\ s \in SUBSET S /\ Sum(w, s \cup Q) # Sum(w, s) + Sum(w, Q)
    BY <2>2, <2>2a, <2>3
  <2>5. s # {}
    <3>0. s = {} => s \cup Q = Q /\ Sum(w, s) = 0
      BY SumOfNothing
    <3>1. s = {} => Sum(w, s \cup Q) = Sum(w, Q) /\ Sum(w, s) = 0
      BY <3>0, Zenon
    <3>2. Sum(w, Q) \in Int
      BY <1>1, <1>2
    <3> QED
      BY <2>4, <3>1, <3>2
  <2>6. PICK x \in s : TRUE
    BY <2>5
  <2> DEFINE r == s \ {x}
             all == s \cup Q
  <2>7. r \in SUBSET P /\ r \notin Bad /\ all \ {x} = r \cup Q /\ x \in all /\ all \in SUBSET S
    BY <1>2, <2>3, <2>4, <2>6
  <2>8. Sum(w, s) = w[x] + Sum(w, r) /\ Sum(w, r) \in Int /\ w[x] \in Int
    BY <1>1, <2>4, <2>6, SumTaken
  <2> HIDE DEF r, all
  <2>9. Sum(w, all) = w[x] + Sum(w, r \cup Q)
    <3>1. IsFiniteSet(all) /\ \A z \in all : w[z] \in Int
      BY <1>1, <2>7
    <3>2. Sum(w, all) = w[x] + Sum(w, all \ {x})
      BY <2>7, <3>1, SumTaken
    <3> QED
      BY <2>7, <3>2
  <2>10. Sum(w, r \cup Q) = Sum(w, r) + Sum(w, Q)
    BY <2>2, <2>7
  <2>11. Sum(w, Q) \in Int
    BY <1>1, <1>2
  <2> QED
    BY <2>4, <2>8, <2>9, <2>10, <2>11 DEF all
<1>4. Sum(w, P \cup Q) = Sum(w, P) + Sum(w, Q)
  BY <1>3
<1>5. Sum(w, S) \in Int /\ Sum(w, P) \in Int /\ Sum(w, Q) \in Int
  BY <1>1, <1>2
<1> QED
  BY <1>2, <1>4, <1>5 DEF Q

(* A sum of equal terms is a product.                                      *)
LEMMA SumOfEqual ==
  ASSUME NEW S, IsFiniteSet(S), NEW k \in Int, NEW w, \A x \in S : w[x] = k
  PROVE  Sum(w, S) = Cardinality(S) * k
<1> DEFINE Bad == {s \in SUBSET S : Sum(w, s) # Cardinality(s) * k}
<1> SUFFICES ASSUME Bad # {} PROVE FALSE
  OBVIOUS
<1>1. Bad \in SUBSET (SUBSET S)
  OBVIOUS
<1>2. \A s \in SUBSET S : s \in Bad <=> Sum(w, s) # Cardinality(s) * k
  OBVIOUS
<1> HIDE DEF Bad
<1>3. PICK s \in Bad : \A v \in Bad : v \subseteq s => v = s
  BY <1>1, LeastSubset
<1>4. s \in SUBSET S /\ IsFiniteSet(s) /\ Sum(w, s) # Cardinality(s) * k
  BY <1>1, <1>2, <1>3, FS_Subset
<1>5. s # {}
  BY <1>4, SumOfNothing, FS_EmptySet
<1>6. PICK x \in s : TRUE
  BY <1>5
<1> DEFINE r == s \ {x}
<1>7. r \in SUBSET S /\ r \notin Bad /\ w[x] = k
  BY <1>3, <1>4, <1>6
<1>8. Sum(w, s) = w[x] + Sum(w, r) /\ Sum(w, r) \in Int
  BY <1>4, <1>6, SumTaken
<1>9. /\ Cardinality(s) \in Nat /\ Cardinality(r) \in Nat
      /\ Cardinality(s) = Cardinality(r) + 1
  <2>1. IsFiniteSet(r) /\ Cardinality(r) = Cardinality(s) - 1
    BY <1>4, <1>6, FS_RemoveElement
  <2>2. Cardinality(s) \in Nat /\ Cardinality(r) \in Nat
    BY <1>4, <2>1, FS_CardinalityType
  <2> QED
    BY <2>1, <2>2
<1>10. Sum(w, r) = Cardinality(r) * k
  BY <1>2, <1>7
<1> HIDE DEF r
<1>11. (Cardinality(r) + 1) * k = k + Cardinality(r) * k
  BY ONLY <1>9, k \in Int
<1> QED
  BY <1>4, <1>7, <1>8, <1>9, <1>10, <1>11

(* Terms that are zero need not be counted.                                *)
LEMMA SumOfPart ==
  ASSUME NEW S, IsFiniteSet(S), NEW P \in SUBSET S, NEW v, NEW w,
         \A x \in S : v[x] \in Int,
         \A x \in P : v[x] = w[x], \A x \in S \ P : v[x] = 0
  PROVE  Sum(v, S) = Sum(w, P) /\ Sum(w, P) \in Int
<1>1. IsFiniteSet(P) /\ IsFiniteSet(S \ P)
  BY FS_Subset
<1>2. Sum(v, P) = Sum(w, P)
  BY <1>1, SumsAgree
<1>3. Sum(v, S \ P) = Cardinality(S \ P) * 0 /\ Cardinality(S \ P) \in Nat
  BY <1>1, SumOfEqual, FS_CardinalityType
<1>4. Sum(v, S \ P) = 0
  BY <1>3
<1> QED
  BY <1>2, <1>4, SumSplit

(* A change at two places.                                                 *)
LEMMA SumChangedAtTwo ==
  ASSUME NEW S, IsFiniteSet(S), NEW v, NEW w, NEW x \in S, NEW y \in S, x # y,
         \A z \in S : v[z] \in Int /\ w[z] \in Int,
         \A z \in S \ {x, y} : v[z] = w[z]
  PROVE  Sum(w, S) - Sum(v, S) = (w[x] - v[x]) + (w[y] - v[y])
<1> DEFINE m == [z \in S |-> IF z = x THEN w[z] ELSE v[z]]
<1>1. /\ \A z \in S : m[z] \in Int
      /\ \A z \in S \ {x} : v[z] = m[z]
      /\ \A z \in S \ {y} : m[z] = w[z]
      /\ m[x] = w[x] /\ m[y] = v[y]
  OBVIOUS
<1> HIDE DEF m
<1>2. Sum(m, S) - Sum(v, S) = m[x] - v[x]
  BY <1>1, SumChangedAt
<1>3. Sum(w, S) - Sum(m, S) = w[y] - m[y]
  BY <1>1, SumChangedAt
<1>4. Sum(v, S) \in Int /\ Sum(m, S) \in Int /\ Sum(w, S) \in Int
  BY <1>1, SumIsInt
<1> QED
  BY <1>1, <1>2, <1>3, <1>4

(* The sum of sums.                                                        *)
LEMMA SumsAdd ==
  ASSUME NEW S, IsFiniteSet(S), NEW u, NEW v, NEW w,
         \A x \in S : v[x] \in Int /\ w[x] \in Int /\ u[x] = v[x] + w[x]
  PROVE  /\ Sum(u, S) = Sum(v, S) + Sum(w, S)
         /\ Sum(u, S) \in Int /\ Sum(v, S) \in Int /\ Sum(w, S) \in Int
<1> DEFINE Bad == {s \in SUBSET S : Sum(u, s) # Sum(v, s) + Sum(w, s)}
<1>1. Bad = {}
  <2> SUFFICES ASSUME Bad # {} PROVE FALSE
    OBVIOUS
  <2>1. Bad \in SUBSET (SUBSET S)
    OBVIOUS
  <2>2. \A s \in SUBSET S : s \in Bad <=> Sum(u, s) # Sum(v, s) + Sum(w, s)
    OBVIOUS
  <2> HIDE DEF Bad
  <2>3. PICK s \in Bad : \A r \in Bad : r \subseteq s => r = s
    BY <2>1, LeastSubset
  <2>4. s \in SUBSET S /\ IsFiniteSet(s) /\ Sum(u, s) # Sum(v, s) + Sum(w, s)
    BY <2>1, <2>2, <2>3, FS_Subset
  <2>5. s # {}
    BY <2>4, SumOfNothing
  <2>6. PICK x \in s : TRUE
    BY <2>5
  <2> DEFINE r == s \ {x}
  <2>7. r \in SUBSET S /\ r \notin Bad /\ \A z \in s : u[z] \in Int /\ v[z] \in Int /\ w[z] \in Int
    BY <2>3, <2>4, <2>6
  <2>8. /\ Sum(u, s) = u[x] + Sum(u, r) /\ Sum(u, r) \in Int
        /\ Sum(v, s) = v[x] + Sum(v, r) /\ Sum(v, r) \in Int
        /\ Sum(w, s) = w[x] + Sum(w, r) /\ Sum(w, r) \in Int
    BY <2>4, <2>6, <2>7, SumTaken
  <2>9. Sum(u, r) = Sum(v, r) + Sum(w, r)
    BY <2>2, <2>7
  <2>10. u[x] = v[x] + w[x] /\ v[x] \in Int /\ w[x] \in Int
    BY <2>4, <2>6
  <2> HIDE DEF r
  <2> QED
    BY <2>4, <2>8, <2>9, <2>10
<1>2. \A x \in S : u[x] \in Int
  OBVIOUS
<1>3. Sum(u, S) \in Int /\ Sum(v, S) \in Int /\ Sum(w, S) \in Int
  BY <1>2, SumIsInt
<1> QED
  BY <1>1, <1>3

(* Two sets without a common member are counted apart.                     *)
LEMMA CountedApart ==
  ASSUME NEW P, NEW Q, IsFiniteSet(P), IsFiniteSet(Q), P \cap Q = {}
  PROVE  /\ IsFiniteSet(P \cup Q)
         /\ Cardinality(P \cup Q) = Cardinality(P) + Cardinality(Q)
<1>1. /\ IsFiniteSet(P \cup Q)
      /\ Cardinality(P \cup Q) = Cardinality(P) + Cardinality(Q) - Cardinality({})
  BY FS_Union
<1>2. Cardinality(P) \in Nat /\ Cardinality(Q) \in Nat /\ Cardinality({}) = 0
  BY FS_CardinalityType, FS_EmptySet
<1> QED
  BY <1>1, <1>2

-----------------------------------------------------------------------------
(* Sequences: their elements, and those of a set R that occur in it once.  *)
Elements(s) == {s[i] : i \in DOMAIN s}
OnceIn(s, R) == \A i, j \in DOMAIN s : s[i] \in R /\ s[i] = s[j] => i = j

(* An element is added at the end, or taken from the front.                *)
LEMMA ElementsAppend ==
  ASSUME NEW V, NEW s \in Seq(V), NEW e \in V, NEW R
  PROVE  /\ Append(s, e) \in Seq(V)
         /\ Elements(Append(s, e)) = Elements(s) \cup {e}
         /\ OnceIn(s, R) /\ (e \in R => e \notin Elements(s)) => OnceIn(Append(s, e), R)
<1> DEFINE a == Append(s, e)
           n == Len(s) + 1
<1>1. /\ a \in Seq(V) /\ DOMAIN s = 1 .. Len(s) /\ Len(s) \in Nat
      /\ DOMAIN a = 1 .. n /\ a[n] = e
      /\ \A i \in 1 .. Len(s) : a[i] = s[i]
  BY AppendProperties
<1>2. \A i : i \in DOMAIN a <=> i \in DOMAIN s \/ i = n
  BY <1>1
<1>3. n \notin DOMAIN s /\ a[n] = e /\ \A i \in DOMAIN s : a[i] = s[i]
  BY <1>1
<1> HIDE DEF a, n
<1>4. Elements(a) = Elements(s) \cup {e}
  <2>1. ASSUME NEW x PROVE x \in Elements(a) <=> x \in Elements(s) \/ x = e
    BY <1>2, <1>3, Zenon DEF Elements
  <2> QED
    BY <2>1
<1>5. ASSUME OnceIn(s, R), e \in R => e \notin Elements(s) PROVE OnceIn(a, R)
  <2> SUFFICES ASSUME NEW i \in DOMAIN a, NEW j \in DOMAIN a, a[i] \in R, a[i] = a[j]
               PROVE  i = j
    BY DEF OnceIn
  <2>1. \A k \in DOMAIN s : s[k] \in Elements(s)
    BY DEF Elements
  <2> QED
    BY <1>2, <1>3, <1>5, <2>1 DEF OnceIn
<1> QED
  BY <1>1, <1>4, <1>5 DEF a

(* An element is taken from the front.                                     *)
LEMMA ElementsTail ==
  ASSUME NEW V, NEW s \in Seq(V), s # <<>>, NEW R
  PROVE  /\ Head(s) \in V /\ Tail(s) \in Seq(V)
         /\ Elements(s) = Elements(Tail(s)) \cup {Head(s)}
         /\ OnceIn(s, R) => /\ OnceIn(Tail(s), R)
                            /\ Head(s) \in R => Head(s) \notin Elements(Tail(s))
<1> DEFINE t == Tail(s)
<1>1. /\ Head(s) \in V /\ t \in Seq(V) /\ Len(s) \in Nat \ {0}
      /\ Head(s) = s[1] /\ Len(t) = Len(s) - 1
      /\ \A i \in 1 .. Len(t) : t[i] = s[i + 1]
      /\ DOMAIN s = 1 .. Len(s) /\ DOMAIN t = 1 .. Len(t)
  BY HeadTailProperties, EmptySeq
<1> HIDE DEF t
<1>2. \A i \in DOMAIN t : i \in Nat /\ i + 1 \in DOMAIN s /\ i + 1 # 1 /\ s[i + 1] = t[i]
  BY <1>1
<1>3. 1 \in DOMAIN s /\ \A i \in DOMAIN s : i = 1 \/ (i - 1 \in DOMAIN t /\ t[i - 1] = s[i])
  <2>1. ASSUME NEW i \in DOMAIN s, i # 1 PROVE i - 1 \in DOMAIN t /\ t[i - 1] = s[i]
    <3>1. i \in Nat /\ i - 1 \in 1 .. Len(t) /\ (i - 1) + 1 = i
      BY <1>1, <2>1
    <3> QED
      BY <1>1, <3>1
  <2> QED
    BY <1>1, <2>1
<1>4. Elements(s) = Elements(t) \cup {Head(s)}
  <2>1. ASSUME NEW x \in Elements(s) PROVE x \in Elements(t) \/ x = Head(s)
    <3>1. PICK i \in DOMAIN s : x = s[i]
      BY <2>1 DEF Elements
    <3> QED
      BY <1>1, <1>3, <3>1 DEF Elements
  <2>2. ASSUME NEW x \in Elements(t) PROVE x \in Elements(s)
    <3>1. PICK i \in DOMAIN t : x = t[i]
      BY <2>2 DEF Elements
    <3> QED
      BY <1>2, <3>1 DEF Elements
  <2>3. Head(s) \in Elements(s)
    BY <1>1, <1>3 DEF Elements
  <2> QED
    BY <2>1, <2>2, <2>3
<1>5. ASSUME OnceIn(s, R) PROVE OnceIn(t, R) /\ (Head(s) \in R => Head(s) \notin Elements(t))
  <2>1. ASSUME NEW i \in DOMAIN t, NEW j \in DOMAIN t, t[i] \in R, t[i] = t[j] PROVE i = j
    <3>1. i + 1 = j + 1
      BY <1>2, <1>5, <2>1 DEF OnceIn
    <3> QED
      BY <1>2, <3>1
  <2>2. ASSUME Head(s) \in R, Head(s) \in Elements(t) PROVE FALSE
    <3>1. PICK i \in DOMAIN t : Head(s) = t[i]
      BY <2>2 DEF Elements
    <3> QED
      BY <1>1, <1>2, <1>3, <1>5, <2>2, <3>1 DEF OnceIn
  <2> QED
    BY <2>1, <2>2 DEF OnceIn
<1> QED
  BY <1>1, <1>4, <1>5 DEF t

(* Two sequences, one after the other.                                     *)
LEMMA ElementsConcat ==
  ASSUME NEW V, NEW s \in Seq(V), NEW t \in Seq(V), NEW R
  PROVE  /\ s \o t \in Seq(V)
         /\ Elements(s \o t) = Elements(s) \cup Elements(t)
         /\ OnceIn(s, R) /\ OnceIn(t, R) /\ Elements(s) \cap Elements(t) \cap R = {}
              => OnceIn(s \o t, R)
<1> DEFINE a == s \o t
           m == Len(s)
           n == Len(t)
<1>1. /\ a \in Seq(V) /\ m \in Nat /\ n \in Nat
      /\ DOMAIN s = 1 .. m /\ DOMAIN t = 1 .. n /\ DOMAIN a = 1 .. m + n
      /\ \A i \in 1 .. m : a[i] = s[i]
      /\ \A i \in 1 .. m + n : a[i] = IF i <= m THEN s[i] ELSE t[i - m]
  BY ConcatProperties
<1> HIDE DEF a, m, n
<1>2. \A i \in DOMAIN a : \/ i \in DOMAIN s /\ a[i] = s[i]
                          \/ i \notin DOMAIN s /\ i - m \in DOMAIN t /\ a[i] = t[i - m]
  BY <1>1
<1>3. /\ \A i \in DOMAIN s : i \in DOMAIN a /\ a[i] = s[i]
      /\ \A i \in DOMAIN t : i + m \in DOMAIN a /\ a[i + m] = t[i]
  <2>1. ASSUME NEW i \in DOMAIN t PROVE i + m \in DOMAIN a /\ a[i + m] = t[i]
    <3>1. i + m \in 1 .. m + n /\ ~ (i + m <= m) /\ (i + m) - m = i
      BY <1>1
    <3> QED
      BY <1>1, <3>1
  <2> QED
    BY <1>1, <2>1
<1>4. Elements(a) = Elements(s) \cup Elements(t)
  <2>1. ASSUME NEW x \in Elements(a) PROVE x \in Elements(s) \cup Elements(t)
    <3>1. PICK i \in DOMAIN a : x = a[i]
      BY <2>1 DEF Elements
    <3> QED
      BY <1>2, <3>1 DEF Elements
  <2>2. ASSUME NEW x \in Elements(s) PROVE x \in Elements(a)
    <3>1. PICK i \in DOMAIN s : x = s[i]
      BY <2>2 DEF Elements
    <3> QED
      BY <1>3, <3>1 DEF Elements
  <2>3. ASSUME NEW x \in Elements(t) PROVE x \in Elements(a)
    <3>1. PICK i \in DOMAIN t : x = t[i]
      BY <2>3 DEF Elements
    <3> QED
      BY <1>3, <3>1 DEF Elements
  <2> QED
    BY <2>1, <2>2, <2>3
<1>5. ASSUME OnceIn(s, R), OnceIn(t, R), Elements(s) \cap Elements(t) \cap R = {}
      PROVE  OnceIn(a, R)
  <2> SUFFICES ASSUME NEW i \in DOMAIN a, NEW j \in DOMAIN a, a[i] \in R, a[i] = a[j]
               PROVE  i = j
    BY DEF OnceIn
  <2>1. (\A k \in DOMAIN s : s[k] \in Elements(s)) /\ (\A k \in DOMAIN t : t[k] \in Elements(t))
    BY DEF Elements
  <2>2. i \in DOMAIN s <=> j \in DOMAIN s
    BY <1>2, <1>5, <2>1
  <2>3. CASE i \in DOMAIN s
    BY <1>2, <1>5, <2>2, <2>3 DEF OnceIn
  <2>4. CASE i \notin DOMAIN s
    <3>1. i - m = j - m
      BY <1>2, <1>5, <2>2, <2>4 DEF OnceIn
    <3>2. i \in Int /\ j \in Int /\ m \in Int
      BY <1>1
    <3> QED
      BY <3>1, <3>2
  <2> QED
    BY <2>3, <2>4
<1> QED
  BY <1>1, <1>4, <1>5 DEF a

-----------------------------------------------------------------------------
(***************************************************************************)
(* What things lie in.  B are bags, I all things, P the places that are    *)
(* not things.                                                             *)
(***************************************************************************)
(* What a thing lies in is the least set with its parent and the parents   *)
(* of all bags in it.                                                      *)
LEMMA OverClosed ==
  ASSUME NEW B, NEW up, NEW i
  PROVE  up[i] \in Over(B, up, i) /\ \A h \in Over(B, up, i) \cap B : up[h] \in Over(B, up, i)
<1>1. \A h \in BagsOver(B, up, i) : up[h] \in B => up[h] \in BagsOver(B, up, i)
  BY DEF BagsOver, HasParents
<1>2. up[i] \in B => up[i] \in BagsOver(B, up, i)
  BY DEF BagsOver, HasParents
<1> QED
  BY <1>1, <1>2 DEF Over

LEMMA OverLeast ==
  ASSUME NEW B, NEW up, NEW i, NEW T, up[i] \in T, \A h \in T \cap B : up[h] \in T
  PROVE  Over(B, up, i) \subseteq T
<1>1. T \cap B \in SUBSET B /\ HasParents(B, up, i, T \cap B)
  BY DEF HasParents
<1>2. BagsOver(B, up, i) \subseteq T \cap B
  BY <1>1 DEF BagsOver
<1> QED
  BY <1>2 DEF Over

LEMMA OverStep ==
  ASSUME NEW B, NEW up, NEW i
  PROVE  /\ up[i] \in B => Over(B, up, i) = {up[i]} \cup Over(B, up, up[i])
         /\ up[i] \notin B => Over(B, up, i) = {up[i]}
<1>1. ASSUME up[i] \in B PROVE Over(B, up, i) = {up[i]} \cup Over(B, up, up[i])
  <2> DEFINE T == {up[i]} \cup Over(B, up, up[i])
  <2>1. \A h \in T \cap B : up[h] \in T
    BY OverClosed
  <2>2. Over(B, up, i) \subseteq T
    <3> HIDE DEF T
    <3>1. up[i] \in T
      BY DEF T
    <3> QED
      BY <2>1, <3>1, OverLeast
  <2>3. up[up[i]] \in Over(B, up, i) /\ up[i] \in Over(B, up, i)
    BY <1>1, OverClosed
  <2>4. Over(B, up, up[i]) \subseteq Over(B, up, i)
    BY <2>3, OverClosed, OverLeast
  <2> QED
    BY <2>2, <2>3, <2>4
<1>2. ASSUME up[i] \notin B PROVE Over(B, up, i) = {up[i]}
  <2> DEFINE T == {up[i]}
  <2>0. up[i] \in T /\ \A h \in T \cap B : up[h] \in T
    BY <1>2
  <2>1. Over(B, up, i) \subseteq T
    <3> HIDE DEF T
    <3> QED
      BY <2>0, OverLeast
  <2> QED
    BY <2>1, OverClosed
<1> QED
  BY <1>1, <1>2

LEMMA OverThrough ==
  ASSUME NEW B, NEW up, NEW i, NEW h \in B, h \in Over(B, up, i)
  PROVE  Over(B, up, h) \subseteq Over(B, up, i)
<1>1. up[h] \in Over(B, up, i)
  BY OverClosed
<1> QED
  BY <1>1, OverClosed, OverLeast

(* Two bags above an item lie one in the other.                            *)
LEMMA OverInLine ==
  ASSUME NEW B, NEW up, NEW i, NEW a1 \in B, a1 \in Over(B, up, i), NEW b1 \in Over(B, up, i)
  PROVE  b1 = a1 \/ b1 \in Over(B, up, a1) \/ (b1 \in B /\ a1 \in Over(B, up, b1))
<1> DEFINE T == {t \in Over(B, up, i) : t = a1 \/ t \in Over(B, up, a1)
                                       \/ (t \in B /\ a1 \in Over(B, up, t))}
<1>1. up[i] \in T
  <2>1. up[i] = a1 \/ (up[i] \in B /\ a1 \in Over(B, up, up[i]))
    BY OverStep
  <2> QED
    BY <2>1, OverClosed
<1>2. ASSUME NEW t \in T \cap B PROVE up[t] \in T
  <2>1. up[t] \in Over(B, up, i)
    BY OverClosed
  <2>2. CASE t = a1 \/ t \in Over(B, up, a1)
    BY <2>1, <2>2, OverClosed
  <2>3. CASE a1 \in Over(B, up, t)
    <3>1. up[t] = a1 \/ (up[t] \in B /\ a1 \in Over(B, up, up[t]))
      BY <2>3, OverStep
    <3> QED
      BY <2>1, <3>1
  <2> QED
    BY <2>2, <2>3
<1>3. Over(B, up, i) \subseteq T
  <2> HIDE DEF T
  <2> QED
    BY <1>1, <1>2, OverLeast
<1> QED
  BY <1>3

-----------------------------------------------------------------------------
(* The items lie in bags and places as in trees.                           *)
Forest(B, I, P, up) ==
    /\ up \in [I -> (P \cup B)]
    /\ \A i \in I : i \notin Over(B, up, i)
    /\ \A i \in I : \E t \in P : Over(B, up, i) \ B = {t}

MayMove(B, P, up, i, d) == d \in (P \cup B) /\ d \notin {i} /\ (d \in B => i \notin Over(B, up, d))

(* What does not lie in the item that is moved stays where it is.          *)
LEMMA OthersKeepTheirPlace ==
  ASSUME NEW B, NEW I, B \subseteq I, NEW up, NEW m, NEW i, \A k \in I : k # i => m[k] = up[k],
         NEW j \in I, j # i, i \notin Over(B, up, j)
  PROVE  Over(B, m, j) = Over(B, up, j)
<1>1. \A k \in I : k # i => m[k] = up[k]
  OBVIOUS
<1>2. Over(B, m, j) \subseteq Over(B, up, j)
  <2> DEFINE T == Over(B, up, j)
  <2>1. m[j] \in T /\ \A h \in T \cap B : m[h] \in T
    BY <1>1, OverClosed
  <2> HIDE DEF T
  <2>2. Over(B, m, j) \subseteq T
    BY <2>1, OverLeast
  <2> QED
    BY <2>2 DEF T
<1>3. Over(B, up, j) \subseteq Over(B, m, j)
  <2> DEFINE T == {t \in Over(B, up, j) : t \in Over(B, m, j)}
  <2>1. up[j] \in T
    BY <1>1, OverClosed
  <2>2. ASSUME NEW h \in T \cap B PROVE up[h] \in T
    <3>1. h # i /\ h \in I
      OBVIOUS
    <3>2. up[h] = m[h]
      BY <1>1, <3>1
    <3> QED
      BY <3>2, OverClosed
  <2>3. Over(B, up, j) \subseteq T
    <3> HIDE DEF T
    <3> QED
      BY <2>1, <2>2, OverLeast
  <2> QED
    BY <2>3
<1> QED
  BY <1>2, <1>3

(* The item that is moved lies where its new place lies.                   *)
LEMMA MovedThing ==
  ASSUME NEW B, NEW I, NEW P, B \subseteq I, P \cap I = {},
         NEW up, Forest(B, I, P, up), NEW i \in I, NEW d, MayMove(B, P, up, i, d)
  PROVE  /\ Over(B, [up EXCEPT ![i] = d], i) = {d} \cup (IF d \in B THEN Over(B, up, d) ELSE {})
         /\ i \notin Over(B, [up EXCEPT ![i] = d], i)
<1> DEFINE m == [up EXCEPT ![i] = d]
<1>1. m[i] = d /\ \A k \in I : k # i => m[k] = up[k]
  BY DEF Forest
<1>2. d \in B => Over(B, m, d) = Over(B, up, d)
  <2> HIDE DEF m
  <2> QED
    BY <1>1, OthersKeepTheirPlace DEF MayMove
<1> HIDE DEF m
<1>3. Over(B, m, i) = {d} \cup (IF d \in B THEN Over(B, up, d) ELSE {})
  BY <1>1, <1>2, OverStep
<1>4. i \notin Over(B, m, i)
  BY <1>3 DEF MayMove
<1> QED
  BY <1>3, <1>4 DEF m

(* What lies in it goes along.                                             *)
LEMMA InsideMoves ==
  ASSUME NEW B, NEW I, NEW P, B \subseteq I, P \cap I = {},
         NEW up, Forest(B, I, P, up), NEW i \in I, NEW d, MayMove(B, P, up, i, d),
         NEW j \in I, i \in Over(B, up, j)
  PROVE  LET m == [up EXCEPT ![i] = d]
             way == {h \in B : h \in Over(B, up, j) /\ (h = i \/ i \in Over(B, up, h))}
         IN  /\ Over(B, m, i) \subseteq Over(B, m, j) /\ i \in Over(B, m, j)
             /\ Over(B, m, j) \subseteq way \cup Over(B, m, i)
<1> DEFINE m == [up EXCEPT ![i] = d]
           way == {h \in B : h \in Over(B, up, j) /\ (h = i \/ i \in Over(B, up, h))}
           T == way \cup Over(B, m, i)
<1>1. m[i] = d /\ \A k \in I : k # i => m[k] = up[k]
  BY DEF Forest
<1>2. j # i
  BY DEF Forest
<1>3. i \in B
  <2>1. \E t \in P : Over(B, up, j) \ B = {t}
    BY DEF Forest
  <2> QED
    BY <2>1
<1> HIDE DEF m
<1>4. \A h \in I : i \in Over(B, up, h) => up[h] \in B /\ (up[h] = i \/ i \in Over(B, up, up[h]))
  BY <1>3, OverStep
<1>5. m[j] \in T
  BY <1>1, <1>2, <1>4, OverClosed
<1>6. ASSUME NEW h \in T \cap B PROVE m[h] \in T
  <2>1. CASE h \in Over(B, m, i)
    BY <2>1, OverClosed
  <2>2. CASE h = i
    BY <2>2, OverClosed
  <2>3. CASE h # i /\ h \in Over(B, up, j) /\ i \in Over(B, up, h)
    <3>1. m[h] = up[h] /\ up[h] \in Over(B, up, j)
      BY <1>1, <2>3, OverClosed
    <3> QED
      BY <1>4, <2>3, <3>1
  <2> QED
    BY <2>1, <2>2, <2>3
<1>7. Over(B, m, j) \subseteq T
  <2> HIDE DEF T
  <2> QED
    BY <1>5, <1>6, OverLeast
<1>8. i \in Over(B, m, j)
  <2> SUFFICES ASSUME i \notin Over(B, m, j) PROVE FALSE
    OBVIOUS
  <2> DEFINE U == Over(B, m, j)
  <2>1. up[j] \in U
    BY <1>1, <1>2, OverClosed
  <2>2. ASSUME NEW h \in U \cap B PROVE up[h] \in U
    BY <1>1, <2>2, OverClosed
  <2>3. Over(B, up, j) \subseteq U
    <3> HIDE DEF U
    <3> QED
      BY <2>1, <2>2, OverLeast
  <2> QED
    BY <2>3
<1>9. Over(B, m, i) \subseteq Over(B, m, j)
  BY <1>3, <1>8, OverThrough
<1> QED
  BY <1>7, <1>8, <1>9 DEF m

LEMMA ForestMoved ==
  ASSUME NEW B, NEW I, NEW P, B \subseteq I, P \cap I = {},
         NEW up, Forest(B, I, P, up), NEW i \in I, NEW d, MayMove(B, P, up, i, d)
  PROVE  Forest(B, I, P, [up EXCEPT ![i] = d])
<1> DEFINE m == [up EXCEPT ![i] = d]
<1>1. m \in [I -> (P \cup B)]
  BY DEF Forest, MayMove
<1>2. /\ Over(B, m, i) = {d} \cup (IF d \in B THEN Over(B, up, d) ELSE {})
      /\ i \notin Over(B, m, i)
  BY MovedThing
<1>3. \A j \in I : j # i /\ i \notin Over(B, up, j) => Over(B, m, j) = Over(B, up, j)
  <2>1. \A k \in I : k # i => m[k] = up[k]
    BY DEF Forest
  <2> HIDE DEF m
  <2> QED
    BY <2>1, OthersKeepTheirPlace
<1>4. \A j \in I : i \in Over(B, up, j) =>
        /\ Over(B, m, i) \subseteq Over(B, m, j)
        /\ \A t \in Over(B, m, j) : t \in Over(B, m, i)
                \/ (t \in B /\ t \in Over(B, up, j) /\ (t = i \/ i \in Over(B, up, t)))
  BY InsideMoves
<1> HIDE DEF m
<1>5. \E t \in P : Over(B, m, i) \ B = {t}
  <2>1. CASE d \in B
    <3>1. d \in I
      BY <2>1
    <3>2. Over(B, m, i) \ B = Over(B, up, d) \ B
      BY <1>2, <2>1
    <3> QED
      BY <3>1, <3>2 DEF Forest
  <2>2. CASE d \notin B
    BY <1>2, <2>2 DEF MayMove
  <2> QED
    BY <2>1, <2>2
<1>6. ASSUME NEW j \in I PROVE j \notin Over(B, m, j)
  <2>1. CASE j = i
    BY <1>2, <2>1
  <2>2. CASE j # i /\ i \notin Over(B, up, j)
    BY <1>3, <2>2 DEF Forest
  <2>3. CASE i \in Over(B, up, j)
    <3>1. j \notin Over(B, up, j) /\ j # i
      BY <2>3 DEF Forest
    <3>2. j \notin Over(B, m, i)
      <4> SUFFICES ASSUME j \in Over(B, m, i) PROVE FALSE
        OBVIOUS
      <4>1. j = d \/ (d \in B /\ j \in Over(B, up, d))
        BY <1>2
      <4>2. d \in B
        BY <4>1 DEF MayMove
      <4>3. i \notin Over(B, up, d)
        BY <4>2 DEF MayMove
      <4>4. j \in B /\ j \in Over(B, up, d)
        <5>1. j # d
          BY <2>3, <4>3
        <5>2. \E t \in P : Over(B, up, d) \ B = {t}
          BY <4>2 DEF Forest
        <5> QED
          BY <4>1, <5>1, <5>2
      <4>5. Over(B, up, j) \subseteq Over(B, up, d)
        BY <4>4, OverThrough
      <4> QED
        BY <2>3, <4>3, <4>5
    <3> QED
      BY <1>4, <2>3, <3>1, <3>2
  <2> QED
    BY <2>1, <2>2, <2>3
<1>7. ASSUME NEW j \in I PROVE \E t \in P : Over(B, m, j) \ B = {t}
  <2>1. CASE j = i
    BY <1>5, <2>1
  <2>2. CASE j # i /\ i \notin Over(B, up, j)
    BY <1>3, <2>2 DEF Forest
  <2>3. CASE i \in Over(B, up, j)
    <3>1. Over(B, m, j) \ B = Over(B, m, i) \ B
      BY <1>4, <2>3
    <3> QED
      BY <1>5, <3>1
  <2> QED
    BY <2>1, <2>2, <2>3
<1> QED
  BY <1>1, <1>6, <1>7 DEF Forest, m

=============================================================================
