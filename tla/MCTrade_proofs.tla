---------------------------- MODULE MCTrade_proofs ----------------------------
(***************************************************************************)
(* The market conserves gold and wares.  All sums are reduced to one over  *)
(* the merchants, of what each has, and one over the offers, of what each  *)
(* is worth; a request moves as much in the one as in the other.           *)
(*                                                                         *)
(* Face to face, offers stay as both traders saw them.  What lies in what  *)
(* is a tree, of which an operation moves a branch; the trades it does not *)
(* close offer things apart from that branch, so they stay what they were. *)
(***************************************************************************)
EXTENDS MCTrade, CollectionFacts

Offer == [id : M!Ids, owner : Merchants, sale : BOOLEAN, amount : Int, price : Int,
          old : BOOLEAN]

(* What an offer holds; the gold and wares of its owner only; and the      *)
(* amount, of the offer of one identifier only.                            *)
Worth(o) == IF o.sale THEN 0 ELSE o.price * o.amount
Goods(o) == IF o.sale THEN o.amount ELSE 0

GoldIn == [o \in Offer |-> Worth(o)]
WaresIn == [o \in Offer |-> Goods(o)]
GoldBy == [p \in Merchants |-> [o \in Offer |-> IF o.owner = p THEN Worth(o) ELSE 0]]
WaresBy == [p \in Merchants |-> [o \in Offer |-> IF o.owner = p THEN Goods(o) ELSE 0]]
AmountAt(n) == [o \in Offer |-> IF o.id = n THEN o.amount ELSE 0]

Purse == [p \in Merchants |-> M!GoldOf(p)]
Stock == [p \in Merchants |-> M!WaresOf(p)]

-----------------------------------------------------------------------------
(* The sums of the model are those of CollectionFacts.                     *)
LEMMA SameSum == \A f : M!SumFunction(f) = Sum(f, DOMAIN f)
BY DEF M!SumFunction, M!SumFunctionOnSet, M!FoldFunctionOnSet, M!MapThenFoldSet,
       Sum, MapThenSumSet, MapThenFoldSet

(* So is the number of merchants.                                          *)
LEMMA SameCount == M!Cardinality(Merchants) = Cardinality(Merchants)
BY DEF M!Cardinality, Cardinality

(* The terms of these sums are integers.                                   *)
LEMMA TermsAreInt ==
  /\ \A o \in Offer : /\ Worth(o) \in Int /\ Goods(o) \in Int
                      /\ GoldIn[o] = Worth(o) /\ WaresIn[o] = Goods(o)
                      /\ GoldIn[o] \in Int /\ WaresIn[o] \in Int
  /\ \A p \in Merchants : \A o \in Offer :
        /\ GoldBy[p][o] = IF o.owner = p THEN Worth(o) ELSE 0
        /\ WaresBy[p][o] = IF o.owner = p THEN Goods(o) ELSE 0
        /\ GoldBy[p][o] \in Int /\ WaresBy[p][o] \in Int
  /\ \A n, o : o \in Offer => /\ AmountAt(n)[o] = IF o.id = n THEN o.amount ELSE 0
                              /\ AmountAt(n)[o] \in Int
<1>1. ASSUME NEW o \in Offer PROVE Worth(o) \in Int /\ Goods(o) \in Int /\ o.amount \in Int
  <2>1. o.price \in Int /\ o.amount \in Int
    BY DEF Offer
  <2>2. o.price * o.amount \in Int
    BY ONLY <2>1
  <2> QED
    BY <2>1, <2>2 DEF Worth, Goods
<1>2. ASSUME NEW p \in Merchants, NEW o \in Offer
      PROVE  /\ GoldBy[p][o] = IF o.owner = p THEN Worth(o) ELSE 0
             /\ WaresBy[p][o] = IF o.owner = p THEN Goods(o) ELSE 0
  BY DEF GoldBy, WaresBy
<1>3. ASSUME NEW n, NEW o \in Offer PROVE AmountAt(n)[o] = IF o.id = n THEN o.amount ELSE 0
  BY DEF AmountAt
<1>4. ASSUME NEW o \in Offer PROVE GoldIn[o] = Worth(o) /\ WaresIn[o] = Goods(o)
  BY DEF GoldIn, WaresIn
<1> QED
  BY <1>1, <1>2, <1>3, <1>4

(* What the offers of one merchant hold.                                   *)
LEMMA HeldBy ==
  ASSUME NEW s \in SUBSET Offer, IsFiniteSet(s), NEW p \in Merchants
  PROVE  /\ M!GoldFor(s, p) = Sum(GoldBy[p], s) /\ M!GoldFor(s, p) \in Int
         /\ M!WaresFor(s, p) = Sum(WaresBy[p], s) /\ M!WaresFor(s, p) \in Int
<1> DEFINE bids == {o \in s : o.owner = p /\ ~ o.sale}
           sales == {o \in s : o.owner = p /\ o.sale}
           f == [o \in bids |-> o.price * o.amount]
           g == [o \in sales |-> o.amount]
<1>1. M!GoldFor(s, p) = Sum(f, bids)
  BY SameSum DEF M!GoldFor
<1>2. M!WaresFor(s, p) = Sum(g, sales)
  BY SameSum DEF M!WaresFor
<1>3. /\ \A o \in bids : GoldBy[p][o] = f[o]
      /\ \A o \in s \ bids : GoldBy[p][o] = 0
      /\ \A o \in s : GoldBy[p][o] \in Int
  BY TermsAreInt DEF Worth
<1>4. /\ \A o \in sales : WaresBy[p][o] = g[o]
      /\ \A o \in s \ sales : WaresBy[p][o] = 0
      /\ \A o \in s : WaresBy[p][o] \in Int
  BY TermsAreInt DEF Goods
<1>5. bids \in SUBSET s /\ sales \in SUBSET s
  OBVIOUS
<1> HIDE DEF bids, sales, f, g
<1>6. Sum(GoldBy[p], s) = Sum(f, bids) /\ Sum(f, bids) \in Int
  BY <1>3, <1>5, SumOfPart
<1>7. Sum(WaresBy[p], s) = Sum(g, sales) /\ Sum(g, sales) \in Int
  BY <1>4, <1>5, SumOfPart
<1> QED
  BY <1>1, <1>2, <1>6, <1>7

(* What the offers of one identifier hold.                                 *)
LEMMA HeldAt ==
  ASSUME NEW s \in SUBSET Offer, IsFiniteSet(s), NEW n
  PROVE  M!AmountOf(s, n) = Sum(AmountAt(n), s) /\ M!AmountOf(s, n) \in Int
<1> DEFINE those == {o \in s : o.id = n}
           f == [o \in those |-> o.amount]
<1>1. M!AmountOf(s, n) = Sum(f, those)
  BY SameSum DEF M!AmountOf
<1>2. /\ \A o \in those : AmountAt(n)[o] = f[o]
      /\ \A o \in s \ those : AmountAt(n)[o] = 0
      /\ \A o \in s : AmountAt(n)[o] \in Int
  BY TermsAreInt
<1>3. those \in SUBSET s
  OBVIOUS
<1> HIDE DEF those, f
<1> QED
  BY <1>1, <1>2, <1>3, SumOfPart

(* Counting by merchants or by offers is the same: a set without one       *)
(* offer holds less of its owner's only.                                   *)
LEMMA CountedByOffers ==
  ASSUME NEW s \in SUBSET Offer, IsFiniteSet(s), NEW W, NEW By,
         \A o \in Offer : W[o] \in Int,
         \A p \in Merchants : \A o \in Offer : By[p][o] = IF o.owner = p THEN W[o] ELSE 0
  PROVE  Sum([p \in Merchants |-> Sum(By[p], s)], Merchants) = Sum(W, s)
<1> DEFINE all(t) == [p \in Merchants |-> Sum(By[p], t)]
           Bad == {t \in SUBSET s : Sum(all(t), Merchants) # Sum(W, t)}
<1> SUFFICES ASSUME Bad # {} PROVE FALSE
  OBVIOUS
<1>1. Bad \in SUBSET (SUBSET s)
  OBVIOUS
<1>2. \A t \in SUBSET s : t \in Bad <=> Sum(all(t), Merchants) # Sum(W, t)
  OBVIOUS
<1>3. \A t : \A p \in Merchants : all(t)[p] = Sum(By[p], t)
  OBVIOUS
<1> HIDE DEF Bad
<1>4. PICK t \in Bad : \A v \in Bad : v \subseteq t => v = t
  BY <1>1, LeastSubset
<1>5. t \in SUBSET s /\ t \in SUBSET Offer /\ IsFiniteSet(t) /\ Sum(all(t), Merchants) # Sum(W, t)
  BY <1>1, <1>2, <1>4, FS_Subset
<1>6. IsFiniteSet(Merchants)
  BY MarketAssumption
<1>7. t # {}
  <2>1. ASSUME t = {} PROVE \A p \in Merchants : all(t)[p] = 0
    BY <1>3, <2>1, SumOfNothing
  <2>2. Cardinality(Merchants) * 0 = 0
    BY <1>6, FS_CardinalityType
  <2> HIDE DEF all
  <2>3. ASSUME t = {} PROVE Sum(all(t), Merchants) = 0
    BY <1>6, <2>1, <2>2, <2>3, SumOfEqual
  <2> QED
    BY <1>5, <2>3, SumOfNothing
<1>8. PICK o \in t : TRUE
  BY <1>7
<1> DEFINE r == t \ {o}
<1>9. /\ r \in SUBSET s /\ r \notin Bad /\ IsFiniteSet(r) /\ o \in Offer /\ o.owner \in Merchants
  <2>1. r \in SUBSET s /\ r # t /\ r \subseteq t
    BY <1>5, <1>8
  <2> QED
    BY <1>4, <1>5, <1>8, <2>1, FS_Subset DEF Offer
<1>10. \A p \in Merchants : /\ Sum(By[p], t) = By[p][o] + Sum(By[p], r)
              /\ Sum(By[p], t) \in Int /\ Sum(By[p], r) \in Int
  <2> SUFFICES ASSUME NEW p \in Merchants PROVE /\ Sum(By[p], t) = By[p][o] + Sum(By[p], r)
                                  /\ Sum(By[p], t) \in Int /\ Sum(By[p], r) \in Int
    OBVIOUS
  <2>1. \A u \in t : By[p][u] \in Int
    BY <1>5
  <2> QED
    BY <1>5, <1>8, <2>1, SumTaken
<1>11. Sum(W, t) = W[o] + Sum(W, r) /\ Sum(W, r) \in Int /\ W[o] \in Int
  <2>1. \A u \in t : W[u] \in Int
    BY <1>5
  <2> QED
    BY <1>5, <1>8, <2>1, SumTaken
<1>12. \A p \in Merchants : /\ all(t)[p] \in Int /\ all(r)[p] \in Int
                            /\ all(t)[p] = (IF o.owner = p THEN W[o] ELSE 0) + all(r)[p]
  BY <1>3, <1>9, <1>10, <1>11
<1> DEFINE before == all(r)
           after == all(t)
<1> HIDE DEF all, r
<1>13. PICK q \in Merchants : q = o.owner
  BY <1>9
<1>13a. /\ \A p \in Merchants : before[p] \in Int /\ after[p] \in Int
        /\ \A p \in Merchants \ {q} : before[p] = after[p]
        /\ after[q] - before[q] = W[o]
  BY <1>11, <1>12, <1>13
<1>13b. Sum(after, Merchants) - Sum(before, Merchants) = after[q] - before[q]
  <2> HIDE DEF before, after
  <2> QED
    BY <1>6, <1>13a, SumChangedAt
<1>14. Sum(before, Merchants) = Sum(W, r)
  BY <1>2, <1>9
<1>15. Sum(after, Merchants) \in Int /\ Sum(before, Merchants) \in Int
  <2> HIDE DEF before, after
  <2> QED
    BY <1>6, <1>13a, SumIsInt
<1>17. Sum(after, Merchants) # Sum(W, t)
  BY <1>5
<1> HIDE DEF before, after
<1> QED
  BY <1>11, <1>13a, <1>13b, <1>14, <1>15, <1>17

(* What all offers hold.                                                   *)
LEMMA AllHeld ==
  ASSUME NEW s \in SUBSET Offer, IsFiniteSet(s)
  PROVE  /\ M!AllGold(s) = Sum(GoldIn, s) /\ M!AllGold(s) \in Int
         /\ M!AllWares(s) = Sum(WaresIn, s) /\ M!AllWares(s) \in Int
<1> DEFINE gold == [p \in Merchants |-> Sum(GoldBy[p], s)]
           goods == [p \in Merchants |-> Sum(WaresBy[p], s)]
<1>1. M!AllGold(s) = Sum(gold, Merchants) /\ M!AllWares(s) = Sum(goods, Merchants)
  <2>1. /\ [p \in Merchants |-> M!GoldFor(s, p)] = gold
        /\ [p \in Merchants |-> M!WaresFor(s, p)] = goods
    BY HeldBy
  <2>2. DOMAIN gold = Merchants /\ DOMAIN goods = Merchants
    OBVIOUS
  <2> HIDE DEF gold, goods
  <2> QED
    BY <2>1, <2>2, SameSum DEF M!AllGold, M!AllWares
<1>2. Sum(gold, Merchants) = Sum(GoldIn, s)
  BY TermsAreInt, CountedByOffers
<1>3. Sum(goods, Merchants) = Sum(WaresIn, s)
  BY TermsAreInt, CountedByOffers
<1>4. (\A o \in s : GoldIn[o] \in Int) /\ (\A o \in s : WaresIn[o] \in Int)
  BY TermsAreInt
<1> HIDE DEF gold, goods
<1>5. Sum(GoldIn, s) \in Int /\ Sum(WaresIn, s) \in Int
  BY <1>4, SumIsInt
<1> QED
  BY <1>1, <1>2, <1>3, <1>5

(* What is held of a set and of the rest of it, for any of the sums.       *)
LEMMA AllTaken ==
  ASSUME NEW s \in SUBSET Offer, IsFiniteSet(s), NEW u \in SUBSET s
  PROVE  /\ IsFiniteSet(u) /\ IsFiniteSet(s \ u)
         /\ M!AllGold(s \ u) = M!AllGold(s) - M!AllGold(u)
         /\ M!AllWares(s \ u) = M!AllWares(s) - M!AllWares(u)
         /\ \A n : M!AmountOf(s \ u, n) = M!AmountOf(s, n) - M!AmountOf(u, n)
<1> DEFINE r == s \ u
<1>1. IsFiniteSet(u) /\ IsFiniteSet(r) /\ u \in SUBSET Offer /\ r \in SUBSET Offer
  BY FS_Subset
<1>2. /\ \A o \in s : GoldIn[o] \in Int
      /\ \A o \in s : WaresIn[o] \in Int
      /\ \A n : \A o \in s : AmountAt(n)[o] \in Int
  BY TermsAreInt
<1>3. /\ Sum(GoldIn, s) = Sum(GoldIn, u) + Sum(GoldIn, r)
      /\ Sum(WaresIn, s) = Sum(WaresIn, u) + Sum(WaresIn, r)
  BY <1>2, SumSplit
<1>4. ASSUME NEW n PROVE Sum(AmountAt(n), s) = Sum(AmountAt(n), u) + Sum(AmountAt(n), r)
  <2>1. \A o \in s : AmountAt(n)[o] \in Int
    BY <1>2
  <2> HIDE DEF r
  <2> QED
    BY <2>1, SumSplit DEF r
<1> HIDE DEF r
<1>5. /\ M!AllGold(s) = Sum(GoldIn, s) /\ M!AllGold(u) = Sum(GoldIn, u)
      /\ M!AllGold(r) = Sum(GoldIn, r) /\ M!AllGold(u) \in Int /\ M!AllGold(r) \in Int
      /\ M!AllWares(s) = Sum(WaresIn, s) /\ M!AllWares(u) = Sum(WaresIn, u)
      /\ M!AllWares(r) = Sum(WaresIn, r) /\ M!AllWares(u) \in Int /\ M!AllWares(r) \in Int
  BY <1>1, AllHeld
<1>6. \A n : /\ M!AmountOf(s, n) = Sum(AmountAt(n), s) /\ M!AmountOf(u, n) = Sum(AmountAt(n), u)
             /\ M!AmountOf(r, n) = Sum(AmountAt(n), r)
             /\ M!AmountOf(u, n) \in Int /\ M!AmountOf(r, n) \in Int
  BY <1>1, HeldAt
<1>7. M!AllGold(r) = M!AllGold(s) - M!AllGold(u) /\ M!AllWares(r) = M!AllWares(s) - M!AllWares(u)
  BY <1>3, <1>5
<1>8. \A n : M!AmountOf(r, n) = M!AmountOf(s, n) - M!AmountOf(u, n)
  BY <1>4, <1>6
<1> QED
  BY <1>1, <1>7, <1>8 DEF r

(* What one offer holds.                                                   *)
LEMMA OneHeld ==
  ASSUME NEW o \in Offer
  PROVE  /\ IsFiniteSet({o}) /\ M!AllGold({o}) = Worth(o) /\ M!AllWares({o}) = Goods(o)
         /\ \A n : M!AmountOf({o}, n) = IF o.id = n THEN o.amount ELSE 0
<1>1. IsFiniteSet({o}) /\ {o} \in SUBSET Offer /\ {o} \ {o} = {}
  BY FS_Singleton
<1>2. ASSUME NEW w, w[o] \in Int PROVE Sum(w, {o}) = w[o]
  <2>1. \A u \in {o} : w[u] \in Int
    BY <1>2
  <2>2. Sum(w, {o}) = w[o] + Sum(w, {o} \ {o})
    BY <1>1, <2>1, SumTaken
  <2> QED
    BY <1>1, <1>2, <2>2, SumOfNothing
<1>3. M!AllGold({o}) = Worth(o) /\ M!AllWares({o}) = Goods(o)
  BY <1>1, <1>2, AllHeld, TermsAreInt
<1>4. ASSUME NEW n PROVE M!AmountOf({o}, n) = IF o.id = n THEN o.amount ELSE 0
  <2>1. M!AmountOf({o}, n) = Sum(AmountAt(n), {o})
    BY <1>1, HeldAt
  <2>2. AmountAt(n)[o] \in Int /\ AmountAt(n)[o] = IF o.id = n THEN o.amount ELSE 0
    BY TermsAreInt
  <2> QED
    BY <1>2, <2>1, <2>2
<1> QED
  BY <1>1, <1>3, <1>4

(* No offer of an identifier, and nothing is held for it.                  *)
LEMMA NoneAt ==
  ASSUME NEW s, NEW n, \A o \in s : o.id # n
  PROVE  M!AmountOf(s, n) = 0
<1> DEFINE those == {o \in s : o.id = n}
           f == [o \in those |-> o.amount]
<1>1. M!AmountOf(s, n) = Sum(f, those)
  BY SameSum DEF M!AmountOf
<1>2. those = {}
  OBVIOUS
<1> HIDE DEF f, those
<1> QED
  BY <1>1, <1>2, SumOfNothing

(* The offers become t: they hold gold, goods and, for one identifier,     *)
(* amount more than s.                                                     *)
Moves(s, t, gold, goods, id, number) ==
    /\ t \in SUBSET Offer /\ IsFiniteSet(t)
    /\ M!AllGold(t) = M!AllGold(s) + gold /\ M!AllWares(t) = M!AllWares(s) + goods
    /\ \A n : M!AmountOf(t, n) = M!AmountOf(s, n) + IF n = id THEN number ELSE 0

(* A set with one offer less.                                              *)
LEMMA OneTaken ==
  ASSUME NEW s \in SUBSET Offer, IsFiniteSet(s), NEW o \in s
  PROVE  Moves(s, s \ {o}, -Worth(o), -Goods(o), o.id, -o.amount)
<1> DEFINE t == s \ {o}
<1>1. {o} \in SUBSET s /\ o \in Offer /\ t \in SUBSET Offer
  OBVIOUS
<1>2. /\ IsFiniteSet(t)
      /\ M!AllGold(t) = M!AllGold(s) - M!AllGold({o})
      /\ M!AllWares(t) = M!AllWares(s) - M!AllWares({o})
      /\ \A n : M!AmountOf(t, n) = M!AmountOf(s, n) - M!AmountOf({o}, n)
  BY <1>1, AllTaken
<1> HIDE DEF t
<1>3. /\ M!AllGold({o}) = Worth(o) /\ M!AllWares({o}) = Goods(o)
      /\ \A n : M!AmountOf({o}, n) = IF o.id = n THEN o.amount ELSE 0
  BY <1>1, OneHeld
<1>4. /\ Worth(o) \in Int /\ Goods(o) \in Int /\ o.amount \in Int
      /\ M!AllGold(s) \in Int /\ M!AllWares(s) \in Int
  BY <1>1, TermsAreInt, AllHeld DEF Offer
<1>5. M!AllGold(t) = M!AllGold(s) + (-Worth(o)) /\ M!AllWares(t) = M!AllWares(s) + (-Goods(o))
  BY <1>2, <1>3, <1>4
<1>6. ASSUME NEW n
      PROVE  M!AmountOf(t, n) = M!AmountOf(s, n) + IF n = o.id THEN -o.amount ELSE 0
  <2>1. M!AmountOf({o}, n) = IF o.id = n THEN o.amount ELSE 0
    BY <1>3
  <2>2. M!AmountOf(t, n) = M!AmountOf(s, n) - M!AmountOf({o}, n)
    BY <1>2
  <2>3. M!AmountOf(s, n) \in Int
    BY HeldAt
  <2> QED
    BY ONLY <1>4, <2>1, <2>2, <2>3
<1> QED
  BY <1>1, <1>2, <1>5, <1>6 DEF Moves, t

(* A set with one offer more.                                              *)
LEMMA OneAdded ==
  ASSUME NEW s \in SUBSET Offer, IsFiniteSet(s), NEW o \in Offer, o \notin s
  PROVE  Moves(s, s \cup {o}, Worth(o), Goods(o), o.id, o.amount)
<1> DEFINE t == s \cup {o}
<1>1. t \in SUBSET Offer /\ IsFiniteSet(t) /\ o \in t /\ t \ {o} = s
  BY FS_AddElement
<1> HIDE DEF t
<1>2. Moves(t, s, -Worth(o), -Goods(o), o.id, -o.amount)
  <2>1. Moves(t, t \ {o}, -Worth(o), -Goods(o), o.id, -o.amount)
    BY <1>1, OneTaken
  <2> QED
    BY <1>1, <2>1
<1>3. M!AllGold(t) \in Int /\ M!AllWares(t) \in Int
  BY <1>1, AllHeld
<1>4. Worth(o) \in Int /\ Goods(o) \in Int /\ o.amount \in Int
  BY TermsAreInt DEF Offer
<1>5. M!AllGold(t) = M!AllGold(s) + Worth(o) /\ M!AllWares(t) = M!AllWares(s) + Goods(o)
  <2>1. /\ M!AllGold(s) = M!AllGold(t) + (-Worth(o))
        /\ M!AllWares(s) = M!AllWares(t) + (-Goods(o))
    BY <1>2 DEF Moves
  <2> QED
    BY ONLY <1>3, <1>4, <2>1
<1>6. ASSUME NEW n
      PROVE  M!AmountOf(t, n) = M!AmountOf(s, n) + IF n = o.id THEN o.amount ELSE 0
  <2>1. M!AmountOf(s, n) = M!AmountOf(t, n) + IF n = o.id THEN -o.amount ELSE 0
    BY <1>2 DEF Moves
  <2>2. M!AmountOf(t, n) \in Int
    BY <1>1, HeldAt
  <2> QED
    BY ONLY <1>4, <2>1, <2>2
<1> QED
  BY <1>1, <1>5, <1>6 DEF Moves, t

(* An offer that takes the place of another, with its identifier.          *)
LEMMA OneReplaced ==
  ASSUME NEW s \in SUBSET Offer, IsFiniteSet(s), NEW o \in s, NEW k \in Offer,
         k.id = o.id, \A q \in s : q.id = o.id => q = o
  PROVE  Moves(s, (s \ {o}) \cup {k}, Worth(k) - Worth(o), Goods(k) - Goods(o),
               o.id, k.amount - o.amount)
<1> DEFINE r == s \ {o}
           t == r \cup {k}
<1>1. r \in SUBSET Offer /\ o \in Offer /\ k \notin r
  OBVIOUS
<1>2. Moves(s, r, -Worth(o), -Goods(o), o.id, -o.amount)
  BY OneTaken
<1> HIDE DEF r
<1>3. Moves(r, t, Worth(k), Goods(k), k.id, k.amount)
  <2>1. IsFiniteSet(r)
    BY <1>2 DEF Moves
  <2> QED
    BY <1>1, <2>1, OneAdded
<1> HIDE DEF t
<1>4. /\ Worth(o) \in Int /\ Goods(o) \in Int /\ o.amount \in Int
      /\ Worth(k) \in Int /\ Goods(k) \in Int /\ k.amount \in Int
      /\ M!AllGold(s) \in Int /\ M!AllWares(s) \in Int
  BY <1>1, TermsAreInt, AllHeld DEF Offer
<1>5. /\ M!AllGold(t) = M!AllGold(s) + (Worth(k) - Worth(o))
      /\ M!AllWares(t) = M!AllWares(s) + (Goods(k) - Goods(o))
  <2>1. /\ M!AllGold(r) = M!AllGold(s) + (-Worth(o)) /\ M!AllWares(r) = M!AllWares(s) + (-Goods(o))
        /\ M!AllGold(t) = M!AllGold(r) + Worth(k) /\ M!AllWares(t) = M!AllWares(r) + Goods(k)
    BY <1>2, <1>3 DEF Moves
  <2> QED
    BY ONLY <1>4, <2>1
<1>6. ASSUME NEW n
      PROVE  M!AmountOf(t, n) = M!AmountOf(s, n) + IF n = o.id THEN k.amount - o.amount ELSE 0
  <2>1. /\ M!AmountOf(r, n) = M!AmountOf(s, n) + IF n = o.id THEN -o.amount ELSE 0
        /\ M!AmountOf(t, n) = M!AmountOf(r, n) + IF n = o.id THEN k.amount ELSE 0
    BY <1>2, <1>3 DEF Moves
  <2>2. M!AmountOf(s, n) \in Int
    BY HeldAt
  <2> QED
    BY ONLY <1>4, <2>1, <2>2
<1>7. t \in SUBSET Offer /\ IsFiniteSet(t)
  BY <1>3 DEF Moves
<1> QED
  BY <1>5, <1>6, <1>7 DEF Moves, t, r

-----------------------------------------------------------------------------
(* The inductive invariant.  An identifier is given out once, so that an   *)
(* offer that is changed or removed is no other one.                       *)
MarketTypes ==
    /\ online \subseteq Merchants /\ inMarket \subseteq online
    /\ cash \in [Merchants -> Int] /\ bank \in [Merchants -> Int]
    /\ wares \in [Merchants -> Int]
    /\ row \in [Merchants -> [cash : Int, bank : Int, wares : Int]]
    /\ offers \in SUBSET Offer /\ IsFiniteSet(offers) /\ made \in Nat
    /\ answers \in Seq({s \in SUBSET Offer : IsFiniteSet(s)})
    /\ listed \in [M!Ids -> Int] /\ settled \in [M!Ids -> Int]
    /\ fees \in Int /\ stale \in [gold : Int, wares : Int]

Numbered ==
    /\ \A o \in offers : o.id <= made
    /\ \A o, q \in offers : o.id = q.id => o = q
    /\ \A n \in M!Ids : n > made => settled[n] = 0

Balanced ==
    /\ Sum(Purse, Merchants) + M!AllGold(offers) + fees
         = Cardinality(Merchants) * (StartCash + StartBank) + stale.gold
    /\ Sum(Stock, Merchants) + M!AllWares(offers)
         = Cardinality(Merchants) * StartWares + stale.wares

MarketInv == MarketTypes /\ Numbered /\ Balanced /\ M!HistoryAddsUp

(* What each merchant has is an integer, before and after a step.          *)
LEMMA HavingsAreInt ==
  /\ MarketTypes => \A p \in Merchants : /\ Purse[p] = M!GoldOf(p) /\ Purse[p] \in Int
                                         /\ Stock[p] = M!WaresOf(p) /\ Stock[p] \in Int
  /\ MarketTypes' => \A p \in Merchants : /\ Purse'[p] = M!GoldOf(p)' /\ Purse'[p] \in Int
                                          /\ Stock'[p] = M!WaresOf(p)' /\ Stock'[p] \in Int
<1>1. ASSUME MarketTypes, NEW p \in Merchants
      PROVE  /\ Purse[p] = M!GoldOf(p) /\ Purse[p] \in Int
             /\ Stock[p] = M!WaresOf(p) /\ Stock[p] \in Int
  <2>1. row[p].cash \in Int /\ row[p].bank \in Int /\ row[p].wares \in Int
        /\ cash[p] \in Int /\ bank[p] \in Int /\ wares[p] \in Int
    BY <1>1 DEF MarketTypes
  <2> QED
    BY <2>1 DEF Purse, Stock, M!GoldOf, M!WaresOf
<1>2. ASSUME MarketTypes', NEW p \in Merchants
      PROVE  /\ Purse'[p] = M!GoldOf(p)' /\ Purse'[p] \in Int
             /\ Stock'[p] = M!WaresOf(p)' /\ Stock'[p] \in Int
  <2>1. row'[p].cash \in Int /\ row'[p].bank \in Int /\ row'[p].wares \in Int
        /\ cash'[p] \in Int /\ bank'[p] \in Int /\ wares'[p] \in Int
    BY <1>2 DEF MarketTypes
  <2> QED
    BY <2>1 DEF Purse, Stock, M!GoldOf, M!WaresOf
<1> QED
  BY <1>1, <1>2

(* So are the totals.                                                      *)
LEMMA TotalsAreInt ==
  /\ MarketTypes => /\ Sum(Purse, Merchants) \in Int /\ Sum(Stock, Merchants) \in Int
                    /\ M!AllGold(offers) \in Int /\ M!AllWares(offers) \in Int
                    /\ fees \in Int /\ stale.gold \in Int /\ stale.wares \in Int
                    /\ \A p \in Merchants : M!GoldOf(p) \in Int /\ M!WaresOf(p) \in Int
  /\ MarketTypes' => /\ Sum(Purse', Merchants) \in Int /\ Sum(Stock', Merchants) \in Int
                     /\ M!AllGold(offers') \in Int /\ M!AllWares(offers') \in Int
                     /\ fees' \in Int /\ stale'.gold \in Int /\ stale'.wares \in Int
  /\ Cardinality(Merchants) * (StartCash + StartBank) \in Int
  /\ Cardinality(Merchants) * StartWares \in Int
<1>1. IsFiniteSet(Merchants) /\ StartCash \in Int /\ StartBank \in Int /\ StartWares \in Int
  BY MarketAssumption
<1>2. /\ Cardinality(Merchants) * (StartCash + StartBank) \in Int
      /\ Cardinality(Merchants) * StartWares \in Int
  BY <1>1, FS_CardinalityType
<1>3. ASSUME MarketTypes
      PROVE  /\ Sum(Purse, Merchants) \in Int /\ Sum(Stock, Merchants) \in Int
             /\ M!AllGold(offers) \in Int /\ M!AllWares(offers) \in Int
             /\ fees \in Int /\ stale.gold \in Int /\ stale.wares \in Int
             /\ \A p \in Merchants : M!GoldOf(p) \in Int /\ M!WaresOf(p) \in Int
  <2>1. (\A p \in Merchants : Purse[p] \in Int) /\ (\A p \in Merchants : Stock[p] \in Int)
    BY <1>3, HavingsAreInt
  <2>2. Sum(Purse, Merchants) \in Int /\ Sum(Stock, Merchants) \in Int
    BY <1>1, <2>1, SumIsInt
  <2>3. M!AllGold(offers) \in Int /\ M!AllWares(offers) \in Int
    BY <1>3, AllHeld DEF MarketTypes
  <2> QED
    BY <1>3, <2>2, <2>3, HavingsAreInt DEF MarketTypes
<1>4. ASSUME MarketTypes'
      PROVE  /\ Sum(Purse', Merchants) \in Int /\ Sum(Stock', Merchants) \in Int
             /\ M!AllGold(offers') \in Int /\ M!AllWares(offers') \in Int
             /\ fees' \in Int /\ stale'.gold \in Int /\ stale'.wares \in Int
  <2>1. (\A p \in Merchants : Purse'[p] \in Int) /\ (\A p \in Merchants : Stock'[p] \in Int)
    BY <1>4, HavingsAreInt
  <2>2. Sum(Purse', Merchants) \in Int /\ Sum(Stock', Merchants) \in Int
    BY <1>1, <2>1, SumIsInt
  <2>3. M!AllGold(offers') \in Int /\ M!AllWares(offers') \in Int
    BY <1>4, AllHeld DEF MarketTypes
  <2> QED
    BY <1>4, <2>2, <2>3 DEF MarketTypes
<1> QED
  BY <1>2, <1>3, <1>4

(* A step that concerns no merchant leaves the totals alone.               *)
LEMMA NobodyTrades ==
  ASSUME \A p \in Merchants : M!GoldOf(p)' = M!GoldOf(p) /\ M!WaresOf(p)' = M!WaresOf(p)
  PROVE  Purse' = Purse /\ Stock' = Stock
BY DEF Purse, Stock

(* A step that concerns one merchant changes them by what he gets.         *)
LEMMA OneTrades ==
  ASSUME MarketTypes, MarketTypes', NEW p \in Merchants,
         \A q \in Merchants \ {p} : M!GoldOf(q)' = M!GoldOf(q) /\ M!WaresOf(q)' = M!WaresOf(q)
  PROVE  /\ Sum(Purse', Merchants) - Sum(Purse, Merchants) = M!GoldOf(p)' - M!GoldOf(p)
         /\ Sum(Stock', Merchants) - Sum(Stock, Merchants) = M!WaresOf(p)' - M!WaresOf(p)
<1>1. IsFiniteSet(Merchants)
  BY MarketAssumption
<1>2. /\ \A q \in Merchants : Purse[q] \in Int /\ Purse'[q] \in Int
      /\ \A q \in Merchants : Stock[q] \in Int /\ Stock'[q] \in Int
      /\ \A q \in Merchants \ {p} : Purse[q] = Purse'[q] /\ Stock[q] = Stock'[q]
  BY HavingsAreInt
<1>3. Sum(Purse', Merchants) - Sum(Purse, Merchants) = Purse'[p] - Purse[p]
  BY <1>1, <1>2, SumChangedAt
<1>4. Sum(Stock', Merchants) - Sum(Stock, Merchants) = Stock'[p] - Stock[p]
  BY <1>1, <1>2, SumChangedAt
<1> QED
  BY <1>3, <1>4, HavingsAreInt

(* One that concerns two, by what both get.                                *)
LEMMA TwoTrade ==
  ASSUME MarketTypes, MarketTypes', NEW p \in Merchants, NEW q \in Merchants, p # q,
         \A r \in Merchants \ {p, q} :
            M!GoldOf(r)' = M!GoldOf(r) /\ M!WaresOf(r)' = M!WaresOf(r)
  PROVE  /\ Sum(Purse', Merchants) - Sum(Purse, Merchants)
              = (M!GoldOf(p)' - M!GoldOf(p)) + (M!GoldOf(q)' - M!GoldOf(q))
         /\ Sum(Stock', Merchants) - Sum(Stock, Merchants)
              = (M!WaresOf(p)' - M!WaresOf(p)) + (M!WaresOf(q)' - M!WaresOf(q))
<1>1. IsFiniteSet(Merchants)
  BY MarketAssumption
<1>2. /\ \A r \in Merchants : Purse[r] \in Int /\ Purse'[r] \in Int
      /\ \A r \in Merchants : Stock[r] \in Int /\ Stock'[r] \in Int
      /\ \A r \in Merchants \ {p, q} : Purse[r] = Purse'[r] /\ Stock[r] = Stock'[r]
  BY HavingsAreInt
<1>3. Sum(Purse', Merchants) - Sum(Purse, Merchants)
        = (Purse'[p] - Purse[p]) + (Purse'[q] - Purse[q])
  BY ZenonT(60), <1>1, <1>2, SumChangedAtTwo
<1>4. Sum(Stock', Merchants) - Sum(Stock, Merchants)
        = (Stock'[p] - Stock[p]) + (Stock'[q] - Stock[q])
  BY <1>1, <1>2, SumChangedAtTwo
<1> QED
  BY <1>3, <1>4, HavingsAreInt

-----------------------------------------------------------------------------
(* Nobody has anything but what he started with.                           *)
LEMMA MarketStarts == M!MarketInit => MarketInv
<1> SUFFICES ASSUME M!MarketInit PROVE MarketInv
  OBVIOUS
<1>0. /\ IsFiniteSet(Merchants) /\ StartCash \in Int /\ StartBank \in Int /\ StartWares \in Int
      /\ StartCash + StartBank \in Int
  BY MarketAssumption
<1>1. MarketTypes
  <2>1. offers \in SUBSET Offer /\ IsFiniteSet(offers)
    BY FS_EmptySet DEF M!MarketInit
  <2>2. answers \in Seq({s \in SUBSET Offer : IsFiniteSet(s)})
    BY DEF M!MarketInit
  <2> QED
    BY <1>0, <2>1, <2>2 DEF MarketTypes, M!MarketInit, M!Ids
<1>2. Numbered
  BY DEF Numbered, M!MarketInit
<1>3. Balanced
  <2>1. \A p \in Merchants : Purse[p] = StartCash + StartBank /\ Stock[p] = StartWares
    BY DEF Purse, Stock, M!GoldOf, M!WaresOf, M!MarketInit
  <2>2. Sum(Purse, Merchants) = Cardinality(Merchants) * (StartCash + StartBank)
    BY <1>0, <2>1, SumOfEqual
  <2>3. Sum(Stock, Merchants) = Cardinality(Merchants) * StartWares
    BY <1>0, <2>1, SumOfEqual
  <2>4. M!AllGold(offers) = 0 /\ M!AllWares(offers) = 0
    <3>1. offers = {} /\ offers \in SUBSET Offer /\ IsFiniteSet(offers)
      BY <1>1 DEF M!MarketInit, MarketTypes
    <3> QED
      BY <3>1, AllHeld, SumOfNothing
  <2>5. Sum(Purse, Merchants) \in Int /\ Sum(Stock, Merchants) \in Int
    BY <1>0, <2>1, SumIsInt
  <2>6. fees = 0 /\ stale.gold = 0 /\ stale.wares = 0
    BY DEF M!MarketInit
  <2> QED
    BY <2>2, <2>3, <2>4, <2>5, <2>6 DEF Balanced
<1>4. M!HistoryAddsUp
  <2>1. \A n : M!AmountOf(offers, n) = 0
    BY NoneAt DEF M!MarketInit
  <2> QED
    BY <2>1 DEF M!HistoryAddsUp, M!MarketInit, M!Ids
<1> QED
  BY <1>1, <1>2, <1>3, <1>4 DEF MarketInv

(* A step that leaves the offers and everybody's belongings alone.         *)
LEMMA NothingMoves ==
  ASSUME MarketInv, MarketTypes',
         \A p \in Merchants : M!GoldOf(p)' = M!GoldOf(p) /\ M!WaresOf(p)' = M!WaresOf(p),
         UNCHANGED <<offers, made, listed, settled, fees, stale>>
  PROVE  MarketInv'
<1>1. Purse' = Purse /\ Stock' = Stock
  BY NobodyTrades
<1> QED
  BY <1>1 DEF MarketInv, Numbered, Balanced, M!HistoryAddsUp

(* What leaves the purses and the fees is in the offers.                   *)
LEMMA GoldMoves ==
  \A p, q, g, d, f, e \in Int : q - p = (f - e) - d => q + (g + d) + e = p + g + f
OBVIOUS

(* What leaves the stocks is in the offers.                                *)
LEMMA WaresMove == \A p, q, g, d \in Int : q - p = -d => q + (g + d) = p + g
OBVIOUS

(* A deal: what the offers hold more is what the purses hold less, but for *)
(* the fees, and what they hold of an offer is settled.                    *)
LEMMA DealKeeps ==
  ASSUME MarketInv, MarketTypes', Numbered',
         NEW gold \in Int, NEW goods \in Int, NEW id, NEW number \in Int,
         Moves(offers, offers', gold, goods, id, number), stale' = stale,
         Sum(Purse', Merchants) - Sum(Purse, Merchants) = (fees - fees') - gold,
         Sum(Stock', Merchants) - Sum(Stock, Merchants) = -goods,
         \A n \in M!Ids : listed'[n] - settled'[n]
                            = (listed[n] - settled[n]) + IF n = id THEN number ELSE 0
  PROVE  MarketInv'
<1>1. MarketTypes /\ Balanced /\ M!HistoryAddsUp
  BY DEF MarketInv
<1>2. /\ Sum(Purse, Merchants) \in Int /\ Sum(Stock, Merchants) \in Int
      /\ M!AllGold(offers) \in Int /\ M!AllWares(offers) \in Int
      /\ fees \in Int /\ stale.gold \in Int /\ stale.wares \in Int
      /\ Sum(Purse', Merchants) \in Int /\ Sum(Stock', Merchants) \in Int /\ fees' \in Int
      /\ Cardinality(Merchants) * (StartCash + StartBank) \in Int
      /\ Cardinality(Merchants) * StartWares \in Int
  BY <1>1, TotalsAreInt
<1>3. /\ M!AllGold(offers') = M!AllGold(offers) + gold
      /\ M!AllWares(offers') = M!AllWares(offers) + goods
  BY DEF Moves
<1>4. Balanced'
  <2> DEFINE allGold == Cardinality(Merchants) * (StartCash + StartBank)
             allWares == Cardinality(Merchants) * StartWares
  <2>1. /\ Sum(Purse, Merchants) + M!AllGold(offers) + fees = allGold + stale.gold
        /\ Sum(Stock, Merchants) + M!AllWares(offers) = allWares + stale.wares
    BY <1>1 DEF Balanced
  <2>1a. allGold \in Int /\ allWares \in Int
    BY <1>2
  <2>1b. /\ Sum(Purse, Merchants) \in Int /\ Sum(Stock, Merchants) \in Int
         /\ M!AllGold(offers) \in Int /\ M!AllWares(offers) \in Int
         /\ fees \in Int /\ stale.gold \in Int /\ stale.wares \in Int
         /\ Sum(Purse', Merchants) \in Int /\ Sum(Stock', Merchants) \in Int /\ fees' \in Int
         /\ Sum(Purse', Merchants) - Sum(Purse, Merchants) = (fees - fees') - gold
         /\ Sum(Stock', Merchants) - Sum(Stock, Merchants) = -goods
         /\ gold \in Int /\ goods \in Int
    BY <1>2
  <2> HIDE DEF allGold, allWares
  <2>2. Sum(Purse', Merchants) + M!AllGold(offers') + fees' = allGold + stale.gold
    <3> DEFINE p == Sum(Purse, Merchants)
               q == Sum(Purse', Merchants)
               g == M!AllGold(offers)
               f == fees
               e == fees'
    <3>1. q + (g + gold) + e = p + g + f
      <4>1. /\ p \in Int /\ q \in Int /\ g \in Int /\ f \in Int /\ e \in Int
            /\ gold \in Int /\ q - p = (f - e) - gold
        BY <2>1b
      <4> HIDE DEF p, q, g, f, e
      <4> QED
        BY ONLY <4>1, GoldMoves
    <3> QED
      BY ONLY <1>3, <2>1, <3>1
  <2>3. Sum(Stock', Merchants) + M!AllWares(offers') = allWares + stale.wares
    <3> DEFINE p == Sum(Stock, Merchants)
               q == Sum(Stock', Merchants)
               g == M!AllWares(offers)
    <3>1. q + (g + goods) = p + g
      <4>1. p \in Int /\ q \in Int /\ g \in Int /\ goods \in Int /\ q - p = -goods
        BY <2>1b
      <4> HIDE DEF p, q, g
      <4> QED
        BY ONLY <4>1, WaresMove
    <3> QED
      BY ONLY <1>3, <2>1, <3>1
  <2> QED
    BY <2>2, <2>3 DEF Balanced, allGold, allWares
<1>5. ASSUME NEW n \in M!Ids PROVE listed'[n] = settled'[n] + M!AmountOf(offers', n)
  <2>1. M!AmountOf(offers', n) = M!AmountOf(offers, n) + IF n = id THEN number ELSE 0
    BY DEF Moves
  <2>2. listed[n] = settled[n] + M!AmountOf(offers, n)
    BY <1>1 DEF M!HistoryAddsUp
  <2>3. /\ listed[n] \in Int /\ settled[n] \in Int /\ listed'[n] \in Int /\ settled'[n] \in Int
        /\ M!AmountOf(offers, n) \in Int
    BY <1>1, HeldAt DEF MarketTypes
  <2>4. listed'[n] - settled'[n] = (listed[n] - settled[n]) + IF n = id THEN number ELSE 0
    OBVIOUS
  <2> QED
    BY ONLY <2>1, <2>2, <2>3, <2>4, number \in Int
<1> QED
  BY <1>4, <1>5 DEF MarketInv, M!HistoryAddsUp

(* Coming and going: what is saved is what a player has.                   *)
LEMMA VisitsKeep ==
  ASSUME MarketInv, NEW p \in Merchants,
         M!Login(p) \/ M!Logout(p) \/ M!EnterMarket(p) \/ M!LeaveMarket(p)
  PROVE  MarketInv'
<1>1. MarketTypes
  BY DEF MarketInv
<1>2. CASE M!Login(p)
  <2>1. MarketTypes'
    BY <1>1, <1>2 DEF MarketTypes, M!Login, M!ledger
  <2>2. \A q \in Merchants : M!GoldOf(q)' = M!GoldOf(q) /\ M!WaresOf(q)' = M!WaresOf(q)
    BY <1>1, <1>2 DEF MarketTypes, M!Login, M!GoldOf, M!WaresOf
  <2> QED
    BY <1>2, <2>1, <2>2, NothingMoves DEF M!Login, M!ledger
<1>3. CASE M!Logout(p)
  <2>1. MarketTypes'
    BY <1>1, <1>3 DEF MarketTypes, M!Logout, M!ledger
  <2>2. \A q \in Merchants : M!GoldOf(q)' = M!GoldOf(q) /\ M!WaresOf(q)' = M!WaresOf(q)
    BY <1>1, <1>3 DEF MarketTypes, M!Logout, M!GoldOf, M!WaresOf
  <2> QED
    BY <1>3, <2>1, <2>2, NothingMoves DEF M!Logout, M!ledger
<1>4. CASE M!EnterMarket(p) \/ M!LeaveMarket(p)
  <2>1. /\ UNCHANGED <<online, cash, bank, wares, row>>
        /\ UNCHANGED <<offers, made, listed, settled, fees, stale, answers>>
        /\ inMarket' \subseteq online
    BY <1>1, <1>4 DEF MarketTypes, M!EnterMarket, M!LeaveMarket, M!ledger, M!purses
  <2>2. MarketTypes'
    BY <1>1, <2>1 DEF MarketTypes
  <2>3. \A q \in Merchants : M!GoldOf(q)' = M!GoldOf(q) /\ M!WaresOf(q)' = M!WaresOf(q)
    BY <2>1 DEF M!GoldOf, M!WaresOf
  <2> QED
    BY <2>1, <2>2, <2>3, NothingMoves
<1> QED
  BY <1>2, <1>3, <1>4

(* The search for expired offers, until its answer is processed.           *)
LEMMA SearchKeeps ==
  ASSUME MarketInv, M!CheckExpiredOffers \/ M!AnswerQuery
  PROVE  MarketInv'
<1>1. MarketTypes
  BY DEF MarketInv
<1>2. /\ UNCHANGED <<online, inMarket, cash, bank, wares, row>>
      /\ UNCHANGED <<offers, made, listed, settled, fees, stale>>
      /\ answers' = answers \/ answers' = Append(answers, {o \in offers : o.old})
  BY DEF M!CheckExpiredOffers, M!AnswerQuery, M!purses, M!ledger
<1>3. answers' \in Seq({s \in SUBSET Offer : IsFiniteSet(s)})
  <2> DEFINE found == {o \in offers : o.old}
  <2>1. found \subseteq offers
    OBVIOUS
  <2>2. found \in {s \in SUBSET Offer : IsFiniteSet(s)}
    BY <1>1, <2>1, FS_Subset DEF MarketTypes
  <2> HIDE DEF found
  <2>3. answers \in Seq({s \in SUBSET Offer : IsFiniteSet(s)})
    BY <1>1 DEF MarketTypes
  <2>4. Append(answers, found) \in Seq({s \in SUBSET Offer : IsFiniteSet(s)})
    BY <2>2, <2>3, AppendProperties
  <2>5. answers' = answers \/ answers' = Append(answers, found)
    BY <1>2 DEF found
  <2> QED
    BY <2>3, <2>4, <2>5, Zenon
<1>4. MarketTypes'
  BY <1>1, <1>2, <1>3 DEF MarketTypes
<1>5. \A q \in Merchants : M!GoldOf(q)' = M!GoldOf(q) /\ M!WaresOf(q)' = M!WaresOf(q)
  BY <1>2 DEF M!GoldOf, M!WaresOf
<1> QED
  BY <1>2, <1>4, <1>5, NothingMoves

(* An offer grows old.                                                     *)
LEMMA GrowOldKeeps ==
  ASSUME MarketInv, NEW o, M!GrowOld(o)
  PROVE  MarketInv'
<1> DEFINE k == [o EXCEPT !.old = TRUE]
<1>1. /\ MarketTypes /\ Numbered /\ Balanced /\ M!HistoryAddsUp
      /\ offers \in SUBSET Offer /\ IsFiniteSet(offers) /\ o \in offers /\ o \in Offer
  BY DEF MarketInv, MarketTypes, M!GrowOld
<1>2. /\ offers' = (offers \ {o}) \cup {k}
      /\ UNCHANGED <<online, inMarket, cash, bank, wares, row, made, answers, listed,
                     settled, fees, stale>>
  BY DEF M!GrowOld, M!purses, M!ledger
<1>3. /\ k \in Offer /\ k.id = o.id /\ k.amount = o.amount
      /\ Worth(k) = Worth(o) /\ Goods(k) = Goods(o)
      /\ Worth(o) \in Int /\ Goods(o) \in Int /\ o.amount \in Int
  BY <1>1, TermsAreInt DEF Offer, Worth, Goods
<1> HIDE DEF k
<1>4. Moves(offers, offers', Worth(k) - Worth(o), Goods(k) - Goods(o), o.id, k.amount - o.amount)
  <2>1. \A q \in offers : q.id = o.id => q = o
    BY <1>1 DEF Numbered
  <2> QED
    BY <1>1, <1>2, <1>3, <2>1, OneReplaced
<1>5. Moves(offers, offers', 0, 0, o.id, 0)
  <2>1. Worth(k) - Worth(o) = 0 /\ Goods(k) - Goods(o) = 0 /\ k.amount - o.amount = 0
    BY <1>3
  <2> QED
    BY <1>4, <2>1
<1>6. MarketTypes'
  BY <1>1, <1>2, <1>5 DEF MarketTypes, Moves
<1>7. Numbered'
  BY <1>1, <1>2, <1>3 DEF Numbered
<1>8. Purse' = Purse /\ Stock' = Stock
  BY <1>2, NobodyTrades DEF M!GoldOf, M!WaresOf
<1>9. /\ Sum(Purse', Merchants) - Sum(Purse, Merchants) = (fees - fees') - 0
      /\ Sum(Stock', Merchants) - Sum(Stock, Merchants) = -0
  BY <1>1, <1>2, <1>8, TotalsAreInt
<1>10. \A n \in M!Ids : listed'[n] - settled'[n]
                          = (listed[n] - settled[n]) + IF n = o.id THEN 0 ELSE 0
  BY <1>1, <1>2 DEF MarketTypes
<1> QED
  BY <1>2, <1>5, <1>6, <1>7, <1>9, <1>10, DealKeeps

(* Paying takes as much from purse and bank as was to be paid.             *)
LEMMA PayTakes ==
  ASSUME MarketTypes, NEW p \in online, NEW gold \in Int, M!Pay(p, gold)
  PROVE  /\ cash' \in [Merchants -> Int] /\ bank' \in [Merchants -> Int]
         /\ cash'[p] + bank'[p] = cash[p] + bank[p] - gold
         /\ \A q \in Merchants \ {p} : cash'[q] = cash[q] /\ bank'[q] = bank[q]
<1> DEFINE debit == M!Least(cash[p], gold)
<1>1. /\ cash \in [Merchants -> Int] /\ bank \in [Merchants -> Int] /\ p \in Merchants
      /\ cash[p] \in Int /\ bank[p] \in Int
  BY DEF MarketTypes
<1>2. debit \in Int
  BY <1>1 DEF M!Least
<1>3. /\ cash' = [cash EXCEPT ![p] = cash[p] - debit]
      /\ bank' = [bank EXCEPT ![p] = bank[p] - (gold - debit)]
  BY DEF M!Pay
<1> HIDE DEF debit
<1>4. cash'[p] = cash[p] - debit /\ bank'[p] = bank[p] - (gold - debit)
  BY <1>1, <1>3
<1>5. cash'[p] + bank'[p] = cash[p] + bank[p] - gold
  BY <1>1, <1>2, <1>4
<1> QED
  BY <1>1, <1>2, <1>3, <1>5

(* An offer is made: what it holds is taken from its owner.                *)
LEMMA CreateKeeps ==
  ASSUME MarketInv, NEW p \in Merchants, NEW sale \in BOOLEAN,
         NEW n \in Int, NEW price \in Int, M!PlayerCreateMarketOffer(p, sale, n, price)
  PROVE  MarketInv'
<1> DEFINE id == made + 1
           o == [id |-> id, owner |-> p, sale |-> sale, amount |-> n, price |-> price,
                 old |-> FALSE]
           fee == M!Fee(price, n)
<1>1. /\ MarketTypes /\ Numbered /\ Balanced /\ M!HistoryAddsUp /\ p \in online
      /\ made \in Nat /\ offers \in SUBSET Offer /\ IsFiniteSet(offers)
  BY DEF MarketInv, MarketTypes, M!PlayerCreateMarketOffer
<1>2. /\ id \in M!Ids /\ offers' = offers \cup {o} /\ made' = id
      /\ listed' = [listed EXCEPT ![id] = n] /\ fees' = fees + fee
      /\ UNCHANGED <<online, inMarket, row, answers, settled, stale>>
      /\ \/ /\ sale /\ wares' = [wares EXCEPT ![p] = wares[p] - n] /\ M!Pay(p, fee)
         \/ /\ ~ sale /\ wares' = wares /\ M!Pay(p, price * n + fee)
  BY DEF M!PlayerCreateMarketOffer
<1>3. price * n \in Int
  BY ONLY n \in Int, price \in Int
<1>4. fee \in Int
  <2> DEFINE part == (price * n) \div 100
  <2>1. part \in Int
    BY <1>3
  <2>2. MinFee \in Int /\ MaxFee \in Int
    BY MarketAssumption
  <2> HIDE DEF part
  <2>3. (IF part < MinFee THEN MinFee ELSE M!Least(part, MaxFee)) \in Int
    BY <2>1, <2>2 DEF M!Least
  <2> QED
    BY <2>3 DEF M!Fee, part
<1>5. /\ o \in Offer /\ o.id = id /\ o.amount = n
      /\ Worth(o) = IF sale THEN 0 ELSE price * n
      /\ Goods(o) = IF sale THEN n ELSE 0
      /\ Worth(o) \in Int /\ Goods(o) \in Int
  BY <1>2, <1>3 DEF Offer, Worth, Goods
<1>6. o \notin offers /\ \A q \in offers : q.id # id
  BY <1>1, <1>5 DEF Numbered, Offer, M!Ids
<1> HIDE DEF o, fee
<1>7. Moves(offers, offers', Worth(o), Goods(o), id, n)
  BY <1>1, <1>2, <1>5, <1>6, OneAdded
<1>8. M!Pay(p, Worth(o) + fee) /\ wares' = [wares EXCEPT ![p] = wares[p] - Goods(o)]
  BY SMTT(40), <1>1, <1>2, <1>3, <1>4, <1>5 DEF MarketTypes
<1>9. /\ cash' \in [Merchants -> Int] /\ bank' \in [Merchants -> Int]
      /\ cash'[p] + bank'[p] = cash[p] + bank[p] - (Worth(o) + fee)
      /\ \A q \in Merchants \ {p} : cash'[q] = cash[q] /\ bank'[q] = bank[q]
  BY <1>1, <1>4, <1>5, <1>8, PayTakes
<1>10. MarketTypes'
  <2>1. offers' \in SUBSET Offer /\ IsFiniteSet(offers')
    BY <1>7 DEF Moves
  <2>2. wares' \in [Merchants -> Int] /\ listed' \in [M!Ids -> Int] /\ fees' \in Int /\ made' \in Nat
    BY SMTT(40), <1>1, <1>2, <1>4, <1>5, <1>8 DEF MarketTypes
  <2> QED
    BY <1>1, <1>2, <1>9, <2>1, <2>2 DEF MarketTypes
<1>11. Numbered'
  <2>1. ASSUME NEW q \in offers' PROVE q.id <= id
    <3>1. made <= id /\ id <= id
      BY <1>1
    <3>2. q \in offers => q.id <= made /\ q.id \in Nat
      BY <1>1 DEF Numbered, Offer, M!Ids
    <3> QED
      BY <1>1, <1>2, <1>5, <3>1, <3>2
  <2>2. \A q, r \in offers' : q.id = r.id => q = r
    BY <1>1, <1>2, <1>5, <1>6 DEF Numbered
  <2>3. \A m \in M!Ids : m > id => settled'[m] = 0
    BY <1>1, <1>2 DEF Numbered, M!Ids
  <2> QED
    BY <1>2, <2>1, <2>2, <2>3 DEF Numbered
<1>12. ASSUME NEW q \in Merchants, q # p
       PROVE  M!GoldOf(q)' = M!GoldOf(q) /\ M!WaresOf(q)' = M!WaresOf(q)
  <2>1. wares'[q] = wares[q]
    BY <1>1, <1>8, <1>12 DEF MarketTypes
  <2> QED
    BY <1>2, <1>9, <1>12, <2>1 DEF M!GoldOf, M!WaresOf
<1>13. /\ M!GoldOf(p)' - M!GoldOf(p) = (fees - fees') - Worth(o)
       /\ M!WaresOf(p)' - M!WaresOf(p) = -Goods(o)
  <2>1. cash[p] \in Int /\ bank[p] \in Int /\ wares[p] \in Int /\ fees \in Int
    BY <1>1 DEF MarketTypes
  <2>2. M!GoldOf(p)' = cash'[p] + bank'[p] /\ M!GoldOf(p) = cash[p] + bank[p]
    BY <1>1, <1>2 DEF M!GoldOf
  <2>3. M!WaresOf(p)' = wares[p] - Goods(o) /\ M!WaresOf(p) = wares[p]
    BY <1>1, <1>2, <1>8 DEF M!WaresOf, MarketTypes
  <2>4. fees' = fees + fee
    BY <1>2
  <2> QED
    BY <1>4, <1>5, <1>9, <2>1, <2>2, <2>3, <2>4
<1>14. /\ Sum(Purse', Merchants) - Sum(Purse, Merchants) = (fees - fees') - Worth(o)
       /\ Sum(Stock', Merchants) - Sum(Stock, Merchants) = -Goods(o)
  BY <1>1, <1>10, <1>12, <1>13, OneTrades
<1>15. ASSUME NEW m \in M!Ids
       PROVE  listed'[m] - settled'[m] = (listed[m] - settled[m]) + IF m = id THEN n ELSE 0
  <2>1. listed \in [M!Ids -> Int] /\ settled' = settled /\ settled[m] \in Int /\ listed[m] \in Int
    BY <1>1, <1>2 DEF MarketTypes
  <2>2. listed'[m] = IF m = id THEN n ELSE listed[m]
    BY <1>2, <2>1
  <2>3. m = id => listed[m] = 0 /\ settled[m] = 0
    <3>1. M!AmountOf(offers, id) = 0
      BY <1>6, NoneAt
    <3>2. settled[id] = 0
      BY <1>1, <1>2 DEF Numbered
    <3> QED
      BY <1>1, <2>1, <3>1, <3>2 DEF M!HistoryAddsUp
  <2> QED
    BY <2>1, <2>2, <2>3
<1>16. stale' = stale /\ n \in Int
  BY <1>2
<1> HIDE DEF id
<1> QED
  BY <1>5, <1>7, <1>10, <1>11, <1>14, <1>15, <1>16, DealKeeps

(* An offer is taken back: what it still holds is given back.              *)
LEMMA CancelKeeps ==
  ASSUME MarketInv, NEW p \in Merchants, NEW o, M!PlayerCancelMarketOffer(p, o)
  PROVE  MarketInv'
<1>1. /\ MarketTypes /\ Numbered /\ p \in online
      /\ offers \in SUBSET Offer /\ IsFiniteSet(offers) /\ o \in offers /\ o \in Offer
  BY DEF MarketInv, MarketTypes, M!PlayerCancelMarketOffer
<1>2. /\ offers' = offers \ {o}
      /\ settled' = [n \in M!Ids |-> settled[n] + M!AmountOf({o}, n)]
      /\ UNCHANGED <<online, inMarket, cash, row, made, answers, listed, fees, stale>>
      /\ IF o.sale THEN wares' = [wares EXCEPT ![p] = wares[p] + o.amount] /\ bank' = bank
         ELSE bank' = [bank EXCEPT ![p] = bank[p] + o.price * o.amount] /\ wares' = wares
  BY DEF M!PlayerCancelMarketOffer, M!Settle
<1>3. /\ Worth(o) \in Int /\ Goods(o) \in Int /\ o.amount \in Int /\ o.id \in M!Ids
      /\ o.sale => Worth(o) = 0 /\ Goods(o) = o.amount
      /\ ~ o.sale => Worth(o) = o.price * o.amount /\ Goods(o) = 0
  BY <1>1, TermsAreInt DEF Offer, Worth, Goods
<1>4. /\ bank' = [bank EXCEPT ![p] = bank[p] + Worth(o)]
      /\ wares' = [wares EXCEPT ![p] = wares[p] + Goods(o)]
  <2>1. /\ bank \in [Merchants -> Int] /\ wares \in [Merchants -> Int]
        /\ bank[p] \in Int /\ wares[p] \in Int
    BY <1>1 DEF MarketTypes
  <2>2. /\ [bank EXCEPT ![p] = bank[p] + 0] = bank
        /\ [wares EXCEPT ![p] = wares[p] + 0] = wares
    BY <2>1
  <2> QED
    BY <1>2, <1>3, <2>2
<1>5. Moves(offers, offers', -Worth(o), -Goods(o), o.id, -o.amount)
  BY <1>1, <1>2, OneTaken
<1>6. \A n : M!AmountOf({o}, n) = IF o.id = n THEN o.amount ELSE 0
  BY <1>1, OneHeld
<1>7. MarketTypes'
  <2>1. offers' \in SUBSET Offer /\ IsFiniteSet(offers')
    BY <1>5 DEF Moves
  <2>2. bank' \in [Merchants -> Int] /\ wares' \in [Merchants -> Int]
    BY SMTT(40), <1>1, <1>3, <1>4 DEF MarketTypes
  <2>3. settled' \in [M!Ids -> Int]
    <3>1. ASSUME NEW n \in M!Ids PROVE settled[n] + M!AmountOf({o}, n) \in Int
      <4>1. settled[n] \in Int
        BY <1>1 DEF MarketTypes
      <4>2. M!AmountOf({o}, n) \in Int
        BY <1>3, <1>6
      <4> QED
        BY <4>1, <4>2
    <3> QED
      BY <1>2, <3>1
  <2> QED
    BY <1>1, <1>2, <2>1, <2>2, <2>3 DEF MarketTypes
<1>8. Numbered'
  <2>1. ASSUME NEW n \in M!Ids, n > made PROVE settled'[n] = 0
    <3>1. o.id # n
      BY <1>1, <1>3, <2>1 DEF Numbered, M!Ids, MarketTypes
    <3>2. settled[n] = 0 /\ M!AmountOf({o}, n) = 0
      BY <1>1, <1>6, <2>1, <3>1 DEF Numbered
    <3> QED
      BY <1>2, <3>2
  <2> QED
    BY <1>1, <1>2, <2>1 DEF Numbered
<1>9. ASSUME NEW q \in Merchants, q # p
      PROVE  M!GoldOf(q)' = M!GoldOf(q) /\ M!WaresOf(q)' = M!WaresOf(q)
  <2>1. wares'[q] = wares[q] /\ bank'[q] = bank[q]
    BY <1>1, <1>4, <1>9 DEF MarketTypes
  <2> QED
    BY <1>2, <2>1 DEF M!GoldOf, M!WaresOf
<1>10. /\ M!GoldOf(p)' - M!GoldOf(p) = Worth(o)
       /\ M!WaresOf(p)' - M!WaresOf(p) = Goods(o)
  <2>1. cash[p] \in Int /\ bank[p] \in Int /\ wares[p] \in Int
    BY <1>1 DEF MarketTypes
  <2>2. bank'[p] = bank[p] + Worth(o) /\ wares'[p] = wares[p] + Goods(o) /\ cash' = cash
    BY <1>1, <1>2, <1>4 DEF MarketTypes
  <2>3. M!GoldOf(p)' = cash'[p] + bank'[p] /\ M!GoldOf(p) = cash[p] + bank[p]
    BY <1>1, <1>2 DEF M!GoldOf
  <2>4. M!WaresOf(p)' = wares'[p] /\ M!WaresOf(p) = wares[p]
    BY <1>1, <1>2 DEF M!WaresOf
  <2> QED
    BY <1>3, <2>1, <2>2, <2>3, <2>4
<1>11. /\ Sum(Purse', Merchants) - Sum(Purse, Merchants) = Worth(o)
       /\ Sum(Stock', Merchants) - Sum(Stock, Merchants) = Goods(o)
  BY <1>1, <1>7, <1>9, <1>10, OneTrades
<1>12. /\ Sum(Purse', Merchants) - Sum(Purse, Merchants) = (fees - fees') - (-Worth(o))
       /\ Sum(Stock', Merchants) - Sum(Stock, Merchants) = -(-Goods(o))
  <2>1. fees' = fees /\ fees \in Int
    BY <1>1, <1>2 DEF MarketTypes
  <2> QED
    BY <1>3, <1>11, <2>1
<1>13. ASSUME NEW n \in M!Ids
       PROVE  listed'[n] - settled'[n]
                = (listed[n] - settled[n]) + IF n = o.id THEN -o.amount ELSE 0
  <2>1. listed' = listed /\ listed[n] \in Int /\ settled[n] \in Int
    BY <1>1, <1>2 DEF MarketTypes
  <2>2. settled'[n] = settled[n] + IF o.id = n THEN o.amount ELSE 0
    BY <1>2, <1>6
  <2> QED
    BY <1>3, <2>1, <2>2
<1> DEFINE gold == -Worth(o)
           goods == -Goods(o)
           id == o.id
           number == -o.amount
<1>14. gold \in Int /\ goods \in Int /\ number \in Int /\ stale' = stale
  BY <1>2, <1>3
<1>15. /\ Moves(offers, offers', gold, goods, id, number)
       /\ Sum(Purse', Merchants) - Sum(Purse, Merchants) = (fees - fees') - gold
       /\ Sum(Stock', Merchants) - Sum(Stock, Merchants) = -goods
  BY <1>5, <1>12
<1>16. \A n \in M!Ids : listed'[n] - settled'[n]
                          = (listed[n] - settled[n]) + IF n = id THEN number ELSE 0
  BY <1>13
<1> HIDE DEF gold, goods, id, number
<1> QED
  BY <1>7, <1>8, <1>14, <1>15, <1>16, DealKeeps

(* An offer to sell is accepted: gold goes from the one who accepts to the *)
(* owner, in the game or in its row, and wares go from the offer.          *)
LEMMA SaleMoves ==
  ASSUME MarketTypes, NEW p \in online, NEW q \in Merchants, p # q,
         NEW gold \in Int, NEW n \in Int, online' = online,
         cash' = [cash EXCEPT ![p] = @ - M!Least(cash[p], gold)],
         bank' = [bank EXCEPT ![p] = @ - (gold - M!Least(cash[p], gold)),
                              ![q] = IF q \in online THEN @ + gold ELSE @],
         wares' = [wares EXCEPT ![p] = @ + n],
         row' = [row EXCEPT ![q].bank = IF q \in online THEN @ ELSE @ + gold]
  PROVE  /\ cash' \in [Merchants -> Int] /\ bank' \in [Merchants -> Int]
         /\ wares' \in [Merchants -> Int]
         /\ row' \in [Merchants -> [cash : Int, bank : Int, wares : Int]]
         /\ \A r \in Merchants \ {p, q} :
                M!GoldOf(r)' = M!GoldOf(r) /\ M!WaresOf(r)' = M!WaresOf(r)
         /\ M!GoldOf(p)' - M!GoldOf(p) = -gold /\ M!GoldOf(q)' - M!GoldOf(q) = gold
         /\ M!WaresOf(p)' - M!WaresOf(p) = n /\ M!WaresOf(q)' - M!WaresOf(q) = 0
<1>1. /\ cash \in [Merchants -> Int] /\ bank \in [Merchants -> Int]
      /\ wares \in [Merchants -> Int]
      /\ row \in [Merchants -> [cash : Int, bank : Int, wares : Int]] /\ p \in Merchants
  BY DEF MarketTypes
<1>2. PICK debit \in Int : debit = M!Least(cash[p], gold)
  BY <1>1 DEF M!Least
<1>3. /\ cash' \in [Merchants -> Int] /\ bank' \in [Merchants -> Int]
      /\ wares' \in [Merchants -> Int]
  BY <1>1, <1>2
<1>4. /\ cash'[p] = cash[p] - debit /\ bank'[p] = bank[p] - (gold - debit)
      /\ cash'[q] = cash[q] /\ bank'[q] = IF q \in online THEN bank[q] + gold ELSE bank[q]
      /\ wares'[p] = wares[p] + n /\ wares'[q] = wares[q]
      /\ cash[p] \in Int /\ bank[p] \in Int /\ wares[p] \in Int
      /\ cash[q] \in Int /\ bank[q] \in Int /\ wares[q] \in Int
  BY <1>1, <1>2
<1>5. \A r \in Merchants \ {p, q} : cash'[r] = cash[r] /\ bank'[r] = bank[r] /\ wares'[r] = wares[r]
  BY <1>1, <1>2
<1>6. /\ row' = [row EXCEPT ![q] = [row[q] EXCEPT !.bank = IF q \in online THEN row[q].bank
                                                           ELSE row[q].bank + gold]]
      /\ row[q] \in [cash : Int, bank : Int, wares : Int]
  BY <1>1
<1>7. /\ row' \in [Merchants -> [cash : Int, bank : Int, wares : Int]]
      /\ \A r \in Merchants \ {q} : row'[r] = row[r]
      /\ row'[q].cash = row[q].cash /\ row'[q].wares = row[q].wares
      /\ row'[q].bank = IF q \in online THEN row[q].bank ELSE row[q].bank + gold
      /\ row[q].cash \in Int /\ row[q].bank \in Int /\ row[q].wares \in Int
  BY <1>1, <1>6
<1>8. ASSUME NEW r \in Merchants \ {p, q}
      PROVE  M!GoldOf(r)' = M!GoldOf(r) /\ M!WaresOf(r)' = M!WaresOf(r)
  <2>1. /\ row'[r] = row[r] /\ online' = online
        /\ cash'[r] = cash[r] /\ bank'[r] = bank[r] /\ wares'[r] = wares[r]
    BY <1>5, <1>7
  <2> QED
    BY ONLY <2>1 DEF M!GoldOf, M!WaresOf
<1>9. M!GoldOf(p)' - M!GoldOf(p) = -gold /\ M!WaresOf(p)' - M!WaresOf(p) = n
  BY <1>4 DEF M!GoldOf, M!WaresOf
<1>10. M!GoldOf(q)' - M!GoldOf(q) = gold /\ M!WaresOf(q)' - M!WaresOf(q) = 0
  BY <1>4, <1>7 DEF M!GoldOf, M!WaresOf
<1> QED
  BY <1>3, <1>7, <1>8, <1>9, <1>10

(* An offer to buy is accepted: wares go from the one who accepts to the   *)
(* owner, in the game or in its row, and gold goes from the offer.         *)
LEMMA PurchaseMoves ==
  ASSUME MarketTypes, NEW p \in online, NEW q \in Merchants, p # q,
         NEW gold \in Int, NEW n \in Int, online' = online, cash' = cash,
         wares' = [wares EXCEPT ![p] = @ - n, ![q] = IF q \in online THEN @ + n ELSE @],
         bank' = [bank EXCEPT ![p] = @ + gold],
         row' = [row EXCEPT ![q].wares = IF q \in online THEN @ ELSE @ + n]
  PROVE  /\ cash' \in [Merchants -> Int] /\ bank' \in [Merchants -> Int]
         /\ wares' \in [Merchants -> Int]
         /\ row' \in [Merchants -> [cash : Int, bank : Int, wares : Int]]
         /\ \A r \in Merchants \ {p, q} :
                M!GoldOf(r)' = M!GoldOf(r) /\ M!WaresOf(r)' = M!WaresOf(r)
         /\ M!GoldOf(p)' - M!GoldOf(p) = gold /\ M!GoldOf(q)' - M!GoldOf(q) = 0
         /\ M!WaresOf(p)' - M!WaresOf(p) = -n /\ M!WaresOf(q)' - M!WaresOf(q) = n
<1>1. /\ cash \in [Merchants -> Int] /\ bank \in [Merchants -> Int]
      /\ wares \in [Merchants -> Int]
      /\ row \in [Merchants -> [cash : Int, bank : Int, wares : Int]] /\ p \in Merchants
  BY DEF MarketTypes
<1>2. /\ cash' \in [Merchants -> Int] /\ bank' \in [Merchants -> Int]
      /\ wares' \in [Merchants -> Int]
  BY <1>1
<1>3. /\ bank'[p] = bank[p] + gold /\ bank'[q] = bank[q]
      /\ wares'[p] = wares[p] - n /\ wares'[q] = IF q \in online THEN wares[q] + n ELSE wares[q]
      /\ cash[p] \in Int /\ bank[p] \in Int /\ wares[p] \in Int
      /\ cash[q] \in Int /\ bank[q] \in Int /\ wares[q] \in Int
  BY <1>1
<1>4. \A r \in Merchants \ {p, q} : bank'[r] = bank[r] /\ wares'[r] = wares[r]
  BY <1>1
<1>5. /\ row' = [row EXCEPT ![q] = [row[q] EXCEPT !.wares = IF q \in online THEN row[q].wares
                                                            ELSE row[q].wares + n]]
      /\ row[q] \in [cash : Int, bank : Int, wares : Int]
  BY <1>1
<1>6. /\ row' \in [Merchants -> [cash : Int, bank : Int, wares : Int]]
      /\ \A r \in Merchants \ {q} : row'[r] = row[r]
      /\ row'[q].cash = row[q].cash /\ row'[q].bank = row[q].bank
      /\ row'[q].wares = IF q \in online THEN row[q].wares ELSE row[q].wares + n
      /\ row[q].cash \in Int /\ row[q].bank \in Int /\ row[q].wares \in Int
  BY <1>1, <1>5
<1>7. ASSUME NEW r \in Merchants \ {p, q}
      PROVE  M!GoldOf(r)' = M!GoldOf(r) /\ M!WaresOf(r)' = M!WaresOf(r)
  <2>1. /\ row'[r] = row[r] /\ online' = online
        /\ cash'[r] = cash[r] /\ bank'[r] = bank[r] /\ wares'[r] = wares[r]
    BY <1>4, <1>6
  <2> QED
    BY ONLY <2>1 DEF M!GoldOf, M!WaresOf
<1>8. M!GoldOf(p)' - M!GoldOf(p) = gold /\ M!WaresOf(p)' - M!WaresOf(p) = -n
  BY <1>3 DEF M!GoldOf, M!WaresOf
<1>9. M!GoldOf(q)' - M!GoldOf(q) = 0 /\ M!WaresOf(q)' - M!WaresOf(q) = n
  BY <1>3, <1>6 DEF M!GoldOf, M!WaresOf
<1> QED
  BY <1>2, <1>6, <1>7, <1>8, <1>9

(* An offer is accepted, or a part of it.  The one who accepts and the     *)
(* owner are two: their accounts differ.                                   *)
LEMMA AcceptKeeps ==
  ASSUME MarketInv, NEW p \in Merchants, NEW o, o \in offers, NEW n \in 1..o.amount,
         M!PlayerAcceptMarketOffer(p, o, n)
  PROVE  MarketInv'
<1> DEFINE q == o.owner
           price == o.price * n
           k == [o EXCEPT !.amount = o.amount - n]
<1>1. /\ MarketTypes /\ Numbered /\ p \in online
      /\ offers \in SUBSET Offer /\ IsFiniteSet(offers) /\ o \in Offer
  BY DEF MarketInv, MarketTypes, M!PlayerAcceptMarketOffer
<1>1a. /\ q \in Merchants /\ o.amount \in Int /\ o.price \in Int /\ n \in Int
       /\ o.id \in M!Ids /\ o.sale \in BOOLEAN
  BY <1>1 DEF Offer
<1>1b. p # q
  BY DEF M!PlayerAcceptMarketOffer
<1>2. price \in Int
  BY ONLY <1>1a
<1>3. /\ offers' = (offers \ {o}) \cup (IF n = o.amount THEN {} ELSE {k})
      /\ settled' = [settled EXCEPT ![o.id] = settled[o.id] + n]
      /\ UNCHANGED <<online, inMarket, made, answers, listed, fees, stale>>
  BY DEF M!PlayerAcceptMarketOffer, M!AcceptOffer
<1> DEFINE gold == IF o.sale THEN 0 ELSE -price
           goods == IF o.sale THEN -n ELSE 0
           id == o.id
           number == -n
<1>4. gold \in Int /\ goods \in Int /\ number \in Int /\ stale' = stale
  BY <1>1a, <1>2, <1>3
<1>5. /\ k \in Offer /\ k.id = o.id /\ k.amount - o.amount = -n
      /\ Worth(k) - Worth(o) = gold /\ Goods(k) - Goods(o) = goods
  <2>1. k \in Offer /\ k.id = o.id /\ k.amount = o.amount - n /\ k.price = o.price /\ k.sale = o.sale
    BY <1>1, <1>1a DEF Offer
  <2> HIDE DEF k
  <2>2. o.price * (o.amount - n) - o.price * o.amount = -(o.price * n)
    BY ONLY <1>1a
  <2> QED
    BY <1>1a, <2>1, <2>2 DEF Worth, Goods
<1>6. n = o.amount => -Worth(o) = gold /\ -Goods(o) = goods /\ -o.amount = -n
  BY <1>1a DEF Worth, Goods
<1> HIDE DEF k
<1>7. Moves(offers, offers', gold, goods, id, number)
  <2>1. CASE n = o.amount
    <3>1. offers' = offers \ {o}
      BY <1>3, <2>1
    <3>2. Moves(offers, offers \ {o}, -Worth(o), -Goods(o), o.id, -o.amount)
      BY <1>1, OneTaken
    <3> HIDE DEF gold, goods
    <3> QED
      BY <1>6, <2>1, <3>1, <3>2
  <2>2. CASE n # o.amount
    <3>1. offers' = (offers \ {o}) \cup {k}
      BY <1>3, <2>2
    <3>2. \A r \in offers : r.id = o.id => r = o
      BY <1>1 DEF Numbered
    <3>3. Moves(offers, (offers \ {o}) \cup {k}, Worth(k) - Worth(o), Goods(k) - Goods(o),
                o.id, k.amount - o.amount)
      BY <1>1, <1>5, <3>2, OneReplaced
    <3> HIDE DEF gold, goods
    <3> QED
      BY <1>5, <3>1, <3>3
  <2> QED
    BY <2>1, <2>2
<1>8. /\ cash' \in [Merchants -> Int] /\ bank' \in [Merchants -> Int]
      /\ wares' \in [Merchants -> Int]
      /\ row' \in [Merchants -> [cash : Int, bank : Int, wares : Int]]
      /\ \A r \in Merchants \ {p, q} :
            M!GoldOf(r)' = M!GoldOf(r) /\ M!WaresOf(r)' = M!WaresOf(r)
      /\ (M!GoldOf(p)' - M!GoldOf(p)) + (M!GoldOf(q)' - M!GoldOf(q)) = -gold
      /\ (M!WaresOf(p)' - M!WaresOf(p)) + (M!WaresOf(q)' - M!WaresOf(q)) = -goods
  <2>1. CASE o.sale
    <3>1. /\ cash' = [cash EXCEPT ![p] = @ - M!Least(cash[p], price)]
          /\ bank' = [bank EXCEPT ![p] = @ - (price - M!Least(cash[p], price)),
                                  ![q] = IF q \in online THEN @ + price ELSE @]
          /\ wares' = [wares EXCEPT ![p] = @ + n]
          /\ row' = [row EXCEPT ![q].bank = IF q \in online THEN @ ELSE @ + price]
      BY <2>1 DEF M!PlayerAcceptMarketOffer
    <3>2. /\ cash' \in [Merchants -> Int] /\ bank' \in [Merchants -> Int]
          /\ wares' \in [Merchants -> Int]
          /\ row' \in [Merchants -> [cash : Int, bank : Int, wares : Int]]
          /\ \A r \in Merchants \ {p, q} :
                M!GoldOf(r)' = M!GoldOf(r) /\ M!WaresOf(r)' = M!WaresOf(r)
          /\ M!GoldOf(p)' - M!GoldOf(p) = -price /\ M!GoldOf(q)' - M!GoldOf(q) = price
          /\ M!WaresOf(p)' - M!WaresOf(p) = n /\ M!WaresOf(q)' - M!WaresOf(q) = 0
      <4> HIDE DEF price, q
      <4> QED
        BY <1>1, <1>1a, <1>1b, <1>2, <1>3, <3>1, SaleMoves
    <3> HIDE DEF price, q
    <3>3. (-price) + price = -0 /\ n + 0 = -(-n)
      BY <1>1a, <1>2
    <3> QED
      BY <2>1, <3>2, <3>3
  <2>2. CASE ~ o.sale
    <3>1. /\ cash' = cash
          /\ wares' = [wares EXCEPT ![p] = @ - n, ![q] = IF q \in online THEN @ + n ELSE @]
          /\ bank' = [bank EXCEPT ![p] = @ + price]
          /\ row' = [row EXCEPT ![q].wares = IF q \in online THEN @ ELSE @ + n]
      BY <2>2 DEF M!PlayerAcceptMarketOffer
    <3>2. /\ cash' \in [Merchants -> Int] /\ bank' \in [Merchants -> Int]
          /\ wares' \in [Merchants -> Int]
          /\ row' \in [Merchants -> [cash : Int, bank : Int, wares : Int]]
          /\ \A r \in Merchants \ {p, q} :
                M!GoldOf(r)' = M!GoldOf(r) /\ M!WaresOf(r)' = M!WaresOf(r)
          /\ M!GoldOf(p)' - M!GoldOf(p) = price /\ M!GoldOf(q)' - M!GoldOf(q) = 0
          /\ M!WaresOf(p)' - M!WaresOf(p) = -n /\ M!WaresOf(q)' - M!WaresOf(q) = n
      <4> HIDE DEF price, q
      <4> QED
        BY <1>1, <1>1a, <1>1b, <1>2, <1>3, <3>1, PurchaseMoves
    <3> HIDE DEF price, q
    <3>3. price + 0 = -(-price) /\ (-n) + n = -0
      BY <1>1a, <1>2
    <3> QED
      BY <2>2, <3>2, <3>3
  <2> QED
    BY <2>1, <2>2
<1>9. settled' \in [M!Ids -> Int]
  BY SMTT(40), <1>1, <1>1a, <1>3 DEF MarketTypes
<1>10. MarketTypes'
  <2>1. offers' \in SUBSET Offer /\ IsFiniteSet(offers')
    BY <1>7 DEF Moves
  <2> HIDE DEF q, price, gold, goods, id, number
  <2> QED
    BY <1>1, <1>3, <1>8, <1>9, <2>1 DEF MarketTypes
<1>11. Numbered'
  <2>1. \A r \in offers' : (r \in offers /\ r # o) \/ r = k
    BY <1>3
  <2>2. k.id = o.id /\ o.id <= made
    BY <1>1, <1>5 DEF Numbered
  <2>3. \A r \in offers' : r.id <= made'
    BY <1>1, <1>3, <2>1, <2>2 DEF Numbered
  <2>4. \A r, u \in offers' : r.id = u.id => r = u
    BY <1>1, <2>1, <2>2 DEF Numbered
  <2>5. ASSUME NEW m \in M!Ids, m > made PROVE settled'[m] = 0
    <3>1. m # o.id
      BY <1>1, <1>1a, <2>2, <2>5 DEF M!Ids, MarketTypes
    <3> QED
      BY <1>1, <1>3, <2>5, <3>1 DEF Numbered, MarketTypes
  <2> QED
    BY <1>3, <2>3, <2>4, <2>5 DEF Numbered
<1>12. /\ Sum(Purse', Merchants) - Sum(Purse, Merchants) = -gold
       /\ Sum(Stock', Merchants) - Sum(Stock, Merchants) = -goods
  <2> HIDE DEF q, price, gold, goods, id, number
  <2>1. /\ Sum(Purse', Merchants) - Sum(Purse, Merchants)
             = (M!GoldOf(p)' - M!GoldOf(p)) + (M!GoldOf(q)' - M!GoldOf(q))
        /\ Sum(Stock', Merchants) - Sum(Stock, Merchants)
             = (M!WaresOf(p)' - M!WaresOf(p)) + (M!WaresOf(q)' - M!WaresOf(q))
    BY <1>1, <1>1a, <1>1b, <1>8, <1>10, TwoTrade
  <2> QED
    BY <1>8, <2>1
<1>13. Sum(Purse', Merchants) - Sum(Purse, Merchants) = (fees - fees') - gold
  <2>1. fees \in Int /\ fees' = fees
    BY <1>1, <1>3 DEF MarketTypes
  <2> HIDE DEF gold
  <2> QED
    BY <1>4, <1>12, <2>1
<1>14. ASSUME NEW m \in M!Ids
       PROVE  listed'[m] - settled'[m] = (listed[m] - settled[m]) + IF m = id THEN number ELSE 0
  <2>1. listed' = listed /\ listed[m] \in Int /\ settled[m] \in Int
    BY <1>1, <1>3 DEF MarketTypes
  <2>2. settled'[m] = IF m = o.id THEN settled[m] + n ELSE settled[m]
    BY <1>1, <1>3 DEF MarketTypes
  <2> QED
    BY <1>1a, <2>1, <2>2
<1> HIDE DEF gold, goods, id, number
<1> QED
  BY <1>4, <1>7, <1>10, <1>11, <1>12, <1>13, <1>14, DealKeeps

(* Expired offers are given back, by an old answer: what the answer says   *)
(* and what the offers held is accounted for apart.                        *)
LEMMA ProcessKeeps ==
  ASSUME MarketInv, M!ProcessExpiredOffers
  PROVE  MarketInv'
<1> DEFINE old == Head(answers)
           back == M!StillThere(old)
           gone == {o \in offers : \E e \in back : e.id = o.id}
<1>1. /\ MarketTypes /\ Numbered /\ Balanced /\ M!HistoryAddsUp
      /\ offers \in SUBSET Offer /\ IsFiniteSet(offers)
      /\ answers \in Seq({s \in SUBSET Offer : IsFiniteSet(s)})
  BY DEF MarketInv, MarketTypes
<1>2. /\ answers # <<>> /\ answers' = Tail(answers) /\ offers' = offers \ gone
      /\ wares' = [p \in Merchants |->
                     wares[p] + IF p \in online THEN M!WaresFor(back, p) ELSE 0]
      /\ bank' = [p \in Merchants |->
                    bank[p] + IF p \in online THEN M!GoldFor(back, p) ELSE 0]
      /\ row' = [p \in Merchants |->
                   IF p \in online THEN row[p]
                   ELSE [row[p] EXCEPT !.wares = row[p].wares + M!WaresFor(back, p),
                                       !.bank = row[p].bank + M!GoldFor(back, p)]]
      /\ settled' = [n \in M!Ids |-> settled[n] + M!AmountOf(gone, n)]
      /\ stale' = IF gone = {} THEN stale
                  ELSE [gold |-> stale.gold + M!AllGold(back) - M!AllGold(gone),
                        wares |-> stale.wares + M!AllWares(back) - M!AllWares(gone)]
      /\ UNCHANGED <<online, inMarket, cash, made, listed, fees>>
  BY DEF M!ProcessExpiredOffers, M!Settle
<1>3. old \in SUBSET Offer /\ IsFiniteSet(old) /\ answers' \in Seq({s \in SUBSET Offer : IsFiniteSet(s)})
  <2> DEFINE V == {s \in SUBSET Offer : IsFiniteSet(s)}
  <2>1. old \in V /\ Tail(answers) \in Seq(V)
    <3> HIDE DEF V
    <3> QED
      BY <1>1, <1>2, ElementsTail DEF V
  <2> QED
    BY <1>2, <2>1
<1>4. back \in SUBSET Offer /\ IsFiniteSet(back)
  <2>1. back \subseteq old
    BY DEF M!StillThere
  <2> QED
    BY <1>3, <2>1, FS_Subset
<1>5. gone \in SUBSET offers
  OBVIOUS
<1>6. gone = {} => back = {}
  <2> SUFFICES ASSUME NEW e \in back PROVE gone # {}
    OBVIOUS
  <2>1. PICK o \in offers : o.id = e.id
    BY DEF M!StillThere
  <2> QED
    BY <2>1
<1> HIDE DEF old, back, gone
<1>7. /\ IsFiniteSet(gone) /\ IsFiniteSet(offers')
      /\ M!AllGold(offers') = M!AllGold(offers) - M!AllGold(gone)
      /\ M!AllWares(offers') = M!AllWares(offers) - M!AllWares(gone)
      /\ \A n : M!AmountOf(offers', n) = M!AmountOf(offers, n) - M!AmountOf(gone, n)
  BY <1>1, <1>2, <1>5, AllTaken
<1>8. gone \in SUBSET Offer
  BY <1>1, <1>5
<1>9. /\ M!AllGold(back) \in Int /\ M!AllWares(back) \in Int
      /\ M!AllGold(gone) \in Int /\ M!AllWares(gone) \in Int
      /\ stale.gold \in Int /\ stale.wares \in Int
  BY <1>1, <1>4, <1>7, <1>8, AllHeld DEF MarketTypes
<1>10. /\ stale' \in [gold : Int, wares : Int]
       /\ stale'.gold = stale.gold + M!AllGold(back) - M!AllGold(gone)
       /\ stale'.wares = stale.wares + M!AllWares(back) - M!AllWares(gone)
  <2>1. CASE gone = {}
    <3>1. gone = back
      BY <1>6, <2>1
    <3>2. stale' = stale
      BY <1>2, <2>1
    <3> QED
      BY <1>1, <1>9, <3>1, <3>2 DEF MarketTypes
  <2>2. CASE gone # {}
    <3>1. stale' = [gold |-> stale.gold + M!AllGold(back) - M!AllGold(gone),
                    wares |-> stale.wares + M!AllWares(back) - M!AllWares(gone)]
      BY <1>2, <2>2
    <3> QED
      BY <1>9, <3>1
  <2> QED
    BY <2>1, <2>2
<1>11. \A p \in Merchants : M!GoldFor(back, p) \in Int /\ M!WaresFor(back, p) \in Int
  BY <1>4, HeldBy
<1>12. ASSUME NEW p \in Merchants
       PROVE  /\ cash[p] \in Int /\ bank[p] \in Int /\ wares[p] \in Int
              /\ row[p] \in [cash : Int, bank : Int, wares : Int]
              /\ bank'[p] \in Int /\ wares'[p] \in Int
              /\ row'[p] \in [cash : Int, bank : Int, wares : Int]
              /\ M!GoldOf(p)' = M!GoldOf(p) + M!GoldFor(back, p)
              /\ M!WaresOf(p)' = M!WaresOf(p) + M!WaresFor(back, p)
  <2>1. /\ cash[p] \in Int /\ bank[p] \in Int /\ wares[p] \in Int
        /\ row[p] \in [cash : Int, bank : Int, wares : Int]
    BY <1>1 DEF MarketTypes
  <2>2. PICK g \in Int : g = M!GoldFor(back, p)
    BY <1>11
  <2>3. PICK w \in Int : w = M!WaresFor(back, p)
    BY <1>11
  <2>4. /\ wares'[p] = wares[p] + IF p \in online THEN w ELSE 0
        /\ bank'[p] = bank[p] + IF p \in online THEN g ELSE 0
        /\ row'[p] = IF p \in online THEN row[p]
                     ELSE [row[p] EXCEPT !.wares = row[p].wares + w, !.bank = row[p].bank + g]
        /\ cash' = cash /\ online' = online
    BY <1>2, <2>2, <2>3
  <2>5. bank'[p] \in Int /\ wares'[p] \in Int
    BY <2>1, <2>4
  <2>6. row'[p] \in [cash : Int, bank : Int, wares : Int]
    <3>1. row[p].wares + w \in Int /\ row[p].bank + g \in Int
      BY <2>1
    <3>2. \A i, j \in Int : [row[p] EXCEPT !.wares = i, !.bank = j]
                             \in [cash : Int, bank : Int, wares : Int]
      BY <2>1
    <3> QED
      BY <2>1, <2>4, <3>1, <3>2
  <2>7. M!GoldOf(p)' = M!GoldOf(p) + g /\ M!WaresOf(p)' = M!WaresOf(p) + w
    BY <2>1, <2>4 DEF M!GoldOf, M!WaresOf
  <2> QED
    BY <2>1, <2>2, <2>3, <2>5, <2>6, <2>7
<1>13. settled' \in [M!Ids -> Int] /\ \A n : M!AmountOf(gone, n) \in Int
  <2>1. \A n : M!AmountOf(gone, n) \in Int
    BY <1>7, <1>8, HeldAt
  <2>2. ASSUME NEW n \in M!Ids PROVE settled[n] + M!AmountOf(gone, n) \in Int
    <3>1. settled[n] \in Int
      BY <1>1 DEF MarketTypes
    <3> QED
      BY <2>1, <3>1
  <2> QED
    BY <1>2, <2>1, <2>2
<1>14. MarketTypes'
  <2>1. /\ bank' \in [Merchants -> Int] /\ wares' \in [Merchants -> Int]
        /\ row' \in [Merchants -> [cash : Int, bank : Int, wares : Int]]
    <3>1. DOMAIN bank' = Merchants /\ DOMAIN wares' = Merchants /\ DOMAIN row' = Merchants
      BY <1>2
    <3>2. bank' = [p \in Merchants |-> bank'[p]]
      BY <1>2
    <3>3. wares' = [p \in Merchants |-> wares'[p]]
      BY <1>2
    <3>4. row' = [p \in Merchants |-> row'[p]]
      BY <1>2
    <3> QED
      BY <1>12, <3>2, <3>3, <3>4
  <2>2. offers' \in SUBSET Offer
    BY <1>1, <1>2
  <2>3. /\ online' \subseteq Merchants /\ inMarket' \subseteq online' /\ made' \in Nat
        /\ cash' \in [Merchants -> Int] /\ listed' \in [M!Ids -> Int] /\ fees' \in Int
    BY <1>1, <1>2 DEF MarketTypes
  <2> QED
    BY <1>3, <1>7, <1>10, <1>13, <2>1, <2>2, <2>3 DEF MarketTypes
<1>15. Numbered'
  <2>1. ASSUME NEW n \in M!Ids, n > made PROVE settled'[n] = 0
    <3>1. \A o \in gone : o.id # n
      <4>1. ASSUME NEW o \in gone PROVE o.id # n
        <5>1. o \in offers /\ o.id \in M!Ids
          BY <1>5, <1>8 DEF Offer
        <5>2. o.id <= made
          BY <1>1, <5>1 DEF Numbered
        <5> QED
          BY <1>1, <2>1, <5>1, <5>2 DEF M!Ids, MarketTypes
      <4> QED
        BY <4>1
    <3>2. M!AmountOf(gone, n) = 0
      BY <3>1, NoneAt
    <3>3. settled[n] = 0
      BY <1>1, <2>1 DEF Numbered
    <3>4. settled'[n] = settled[n] + M!AmountOf(gone, n)
      BY <1>2
    <3> QED
      BY ONLY <3>2, <3>3, <3>4
  <2> QED
    BY <1>1, <1>2, <2>1 DEF Numbered
<1>16. Sum(Purse', Merchants) = Sum(Purse, Merchants) + M!AllGold(back)
  <2> DEFINE given == [p \in Merchants |-> M!GoldFor(back, p)]
  <2>1. \A p \in Merchants : /\ Purse[p] \in Int /\ given[p] \in Int
                             /\ Purse'[p] = Purse[p] + given[p]
    BY <1>1, <1>11, <1>12, <1>14, HavingsAreInt
  <2>2. M!AllGold(back) = Sum(given, Merchants)
    BY SameSum DEF M!AllGold
  <2>3. IsFiniteSet(Merchants)
    BY MarketAssumption
  <2> HIDE DEF given
  <2>4. ASSUME NEW u, NEW v, u = Purse', v = Purse
        PROVE  Sum(u, Merchants) = Sum(v, Merchants) + Sum(given, Merchants)
    <3>1. \A p \in Merchants : v[p] \in Int /\ given[p] \in Int /\ u[p] = v[p] + given[p]
      BY <2>1, <2>4
    <3> QED
      BY ONLY <2>3, <3>1, SumsAdd
  <2> QED
    BY <2>2, <2>4
<1>17. Sum(Stock', Merchants) = Sum(Stock, Merchants) + M!AllWares(back)
  <2> DEFINE given == [p \in Merchants |-> M!WaresFor(back, p)]
  <2>1. \A p \in Merchants : /\ Stock[p] \in Int /\ given[p] \in Int
                             /\ Stock'[p] = Stock[p] + given[p]
    BY <1>1, <1>11, <1>12, <1>14, HavingsAreInt
  <2>2. M!AllWares(back) = Sum(given, Merchants)
    BY SameSum DEF M!AllWares
  <2>3. IsFiniteSet(Merchants)
    BY MarketAssumption
  <2> HIDE DEF given
  <2>4. ASSUME NEW u, NEW v, u = Stock', v = Stock
        PROVE  Sum(u, Merchants) = Sum(v, Merchants) + Sum(given, Merchants)
    <3>1. \A p \in Merchants : v[p] \in Int /\ given[p] \in Int /\ u[p] = v[p] + given[p]
      BY <2>1, <2>4
    <3> QED
      BY ONLY <2>3, <3>1, SumsAdd
  <2> QED
    BY <2>2, <2>4
<1>18. Balanced'
  <2> DEFINE allGold == Cardinality(Merchants) * (StartCash + StartBank)
             allWares == Cardinality(Merchants) * StartWares
  <2>1. /\ Sum(Purse, Merchants) + M!AllGold(offers) + fees = allGold + stale.gold
        /\ Sum(Stock, Merchants) + M!AllWares(offers) = allWares + stale.wares
    BY <1>1 DEF Balanced
  <2>2. /\ Sum(Purse, Merchants) \in Int /\ Sum(Stock, Merchants) \in Int
        /\ M!AllGold(offers) \in Int /\ M!AllWares(offers) \in Int /\ fees \in Int
        /\ allGold \in Int /\ allWares \in Int
    BY <1>1, TotalsAreInt
  <2>3. fees' = fees
    BY <1>2
  <2> HIDE DEF allGold, allWares
  <2>4. Sum(Purse', Merchants) + M!AllGold(offers') + fees' = allGold + stale'.gold
    <3>1. (Sum(Purse, Merchants) + M!AllGold(back)) + (M!AllGold(offers) - M!AllGold(gone)) + fees
            = allGold + (stale.gold + M!AllGold(back) - M!AllGold(gone))
      BY ONLY <1>9, <2>1, <2>2
    <3> QED
      BY ONLY <1>7, <1>10, <1>16, <2>3, <3>1
  <2>5. Sum(Stock', Merchants) + M!AllWares(offers') = allWares + stale'.wares
    <3>1. (Sum(Stock, Merchants) + M!AllWares(back)) + (M!AllWares(offers) - M!AllWares(gone))
            = allWares + (stale.wares + M!AllWares(back) - M!AllWares(gone))
      BY ONLY <1>9, <2>1, <2>2
    <3> QED
      BY ONLY <1>7, <1>10, <1>17, <3>1
  <2> QED
    BY <2>4, <2>5 DEF Balanced, allGold, allWares
<1>19. ASSUME NEW n \in M!Ids PROVE listed'[n] = settled'[n] + M!AmountOf(offers', n)
  <2>1. listed[n] = settled[n] + M!AmountOf(offers, n)
    BY <1>1 DEF M!HistoryAddsUp
  <2>2. settled[n] \in Int /\ M!AmountOf(offers, n) \in Int /\ M!AmountOf(gone, n) \in Int
    BY <1>1, <1>13, HeldAt DEF MarketTypes
  <2>3. /\ listed'[n] = listed[n] /\ settled'[n] = settled[n] + M!AmountOf(gone, n)
        /\ M!AmountOf(offers', n) = M!AmountOf(offers, n) - M!AmountOf(gone, n)
    BY <1>2, <1>7
  <2> QED
    BY ONLY <2>1, <2>2, <2>3
<1> QED
  BY <1>14, <1>15, <1>18, <1>19 DEF MarketInv, M!HistoryAddsUp

-----------------------------------------------------------------------------
(* Every request, and every step of the search, keeps the balance.         *)
LEMMA MarketStepKeeps == MarketInv /\ M!MarketNext => MarketInv'
<1> SUFFICES ASSUME MarketInv, M!MarketNext PROVE MarketInv'
  OBVIOUS
<1>1. ASSUME NEW p \in Merchants, M!Login(p) \/ M!Logout(p) \/ M!EnterMarket(p) \/ M!LeaveMarket(p)
      PROVE  MarketInv'
  BY <1>1, VisitsKeep
<1>2. ASSUME NEW p \in Merchants, NEW sale \in BOOLEAN, NEW n \in 1..StartWares,
             NEW price \in Prices, M!PlayerCreateMarketOffer(p, sale, n, price)
      PROVE  MarketInv'
  <2>1. n \in Int /\ price \in Int
    BY MarketAssumption
  <2> QED
    BY <1>2, <2>1, CreateKeeps
<1>3. ASSUME NEW p \in Merchants, NEW o \in offers, M!PlayerCancelMarketOffer(p, o)
      PROVE  MarketInv'
  BY <1>3, CancelKeeps
<1>4. ASSUME NEW p \in Merchants, NEW o \in offers, NEW n \in 1..o.amount,
             M!PlayerAcceptMarketOffer(p, o, n)
      PROVE  MarketInv'
  BY <1>4, AcceptKeeps
<1>5. ASSUME NEW o \in offers, M!GrowOld(o) PROVE MarketInv'
  BY <1>5, GrowOldKeeps
<1>6. CASE M!CheckExpiredOffers \/ M!AnswerQuery
  BY <1>6, SearchKeeps
<1>7. CASE M!ProcessExpiredOffers
  BY <1>7, ProcessKeeps
<1> QED
  BY <1>1, <1>2, <1>3, <1>4, <1>5, <1>6, <1>7 DEF M!MarketNext

(* Gold and wares are neither made nor lost, but for what old answers give *)
(* back beyond what offers still held, and the history of every offer is   *)
(* complete: for any number of merchants, offers and searches, whoever is  *)
(* in the game when an offer is accepted, cancelled or expires             *)
(* (iomarket.cpp:113, game.cpp:5130).                                      *)
THEOREM MarketStaysKept == MCSpec => []MarketKept
<1>1. MCInit => MarketInv
  BY MarketStarts DEF MCInit
<1>2. MarketInv /\ [MCNext]_<<vars, venue, marketState>> => MarketInv'
  <2> SUFFICES ASSUME MarketInv, [MCNext]_<<vars, venue, marketState>> PROVE MarketInv'
    OBVIOUS
  <2>1. CASE UNCHANGED marketState
    <3>1. /\ online' = online /\ inMarket' = inMarket /\ cash' = cash /\ bank' = bank
          /\ wares' = wares /\ row' = row /\ offers' = offers /\ made' = made
          /\ answers' = answers /\ listed' = listed /\ settled' = settled
          /\ fees' = fees /\ stale' = stale
      BY <2>1 DEF marketState
    <3>2. MarketTypes'
      BY <3>1 DEF MarketInv, MarketTypes
    <3>3. \A p \in Merchants : M!GoldOf(p)' = M!GoldOf(p) /\ M!WaresOf(p)' = M!WaresOf(p)
      BY <3>1 DEF M!GoldOf, M!WaresOf
    <3> QED
      BY <3>1, <3>2, <3>3, NothingMoves
  <2>2. CASE M!MarketNext
    BY <2>2, MarketStepKeeps
  <2> QED
    BY <2>1, <2>2 DEF MCNext
<1>3. MarketInv => MarketKept
  <2> SUFFICES ASSUME MarketInv PROVE M!Kept /\ M!HistoryAddsUp
    BY DEF MarketKept
  <2>1. /\ M!SumFunction([p \in Merchants |-> M!GoldOf(p)]) = Sum(Purse, Merchants)
        /\ M!SumFunction([p \in Merchants |-> M!WaresOf(p)]) = Sum(Stock, Merchants)
    BY SameSum DEF Purse, Stock
  <2>2. M!Kept
    BY <2>1, SameCount, Zenon DEF MarketInv, Balanced, M!Kept
  <2> QED
    BY <2>2 DEF MarketInv
<1> QED
  BY <1>1, <1>2, <1>3, PTL DEF MCSpec

-----------------------------------------------------------------------------
(***************************************************************************)
(* The street.                                                             *)
(***************************************************************************)
(* The places are apart from the items and from each other.               *)
LEMMA PlacesApart ==
  /\ AllSlots \cap Items = {} /\ {Tile, Gone, None} \cap Items = {}
  /\ {Tile, Gone, None} \cap Players = {} /\ {Tile, Gone} \cap AllSlots = {} /\ Tile # Gone
  /\ Bags \subseteq Items /\ AllSlots \cap Bags = {} /\ {Tile, Gone} \cap Bags = {}
  /\ \A s \in AllSlots : s[1] \in Players /\ s \in Slots(s[1])
  /\ \A p \in Players : Slots(p) \subseteq AllSlots /\ \A s \in Slots(p) : s[1] = p
<1>1. {Tile, Gone} \cap AllSlots = {} /\ Tile # Gone
  BY DEF Tile, Gone, AllSlots
<1>2. \A s \in AllSlots : s[1] \in Players /\ s \in Slots(s[1])
  BY DEF AllSlots, Slots
<1>3. \A p \in Players : Slots(p) \subseteq AllSlots /\ \A s \in Slots(p) : s[1] = p
  BY DEF AllSlots, Slots
<1> QED
  BY <1>1, <1>2, <1>3, ItemsAssumption, PlacesAssumption

(* What is above an item, in the words of the facts about nesting.         *)
LEMMA AboveClosed ==
  ASSUME NEW l, NEW i
  PROVE  l[i] \in Above(l, i) /\ \A h \in Above(l, i) \cap Bags : l[h] \in Above(l, i)
BY OverClosed DEF Above

LEMMA AboveLeast ==
  ASSUME NEW l, NEW i, NEW T, l[i] \in T, \A h \in T \cap Bags : l[h] \in T
  PROVE  Above(l, i) \subseteq T
BY OverLeast DEF Above

LEMMA AboveStep ==
  ASSUME NEW l, NEW i
  PROVE  /\ l[i] \in Bags => Above(l, i) = {l[i]} \cup Above(l, l[i])
         /\ l[i] \notin Bags => Above(l, i) = {l[i]}
BY OverStep DEF Above

LEMMA AboveThrough ==
  ASSUME NEW l, NEW i, NEW h \in Bags, h \in Above(l, i)
  PROVE  Above(l, h) \subseteq Above(l, i)
BY OverThrough DEF Above

(* Two bags above an item lie one in the other.                            *)
LEMMA AboveInLine ==
  ASSUME NEW l, NEW i, NEW a1 \in Bags, a1 \in Above(l, i), NEW b1 \in Above(l, i)
  PROVE  b1 = a1 \/ b1 \in Above(l, a1) \/ (b1 \in Bags /\ a1 \in Above(l, b1))
BY OverInLine DEF Above

-----------------------------------------------------------------------------
(* The items lie in bags and places as in trees.                           *)
Tree(l) ==
    /\ l \in [Items -> Where]
    /\ \A i \in Items : i \notin Above(l, i)
    /\ \A i \in Items : \E t \in Where \ Bags : Above(l, i) \ Bags = {t}

Legal(l, i, d) == d \in Where /\ d \notin {i} /\ (d \in Bags => i \notin Above(l, d))

(* The places of the street that are no items.                             *)
Grounds == Where \ Bags

LEMMA TreeIsForest ==
  /\ Bags \subseteq Items /\ Grounds \cap Items = {} /\ Grounds \cup Bags = Where
  /\ \A l : Tree(l) <=> Forest(Bags, Items, Grounds, l)
  /\ \A l, i, d : Legal(l, i, d) <=> MayMove(Bags, Grounds, l, i, d)
<1>1. Bags \subseteq Items /\ Grounds \cap Items = {} /\ Grounds \cup Bags = Where
  BY PlacesApart DEF Grounds, Where
<1>2. \A l : Tree(l) <=> Forest(Bags, Items, Grounds, l)
  BY <1>1 DEF Tree, Forest, Above, Grounds
<1>3. \A l, i, d : Legal(l, i, d) <=> MayMove(Bags, Grounds, l, i, d)
  BY <1>1 DEF Legal, MayMove, Above
<1> QED
  BY <1>1, <1>2, <1>3

(* What does not lie in the item that is moved stays where it is.          *)
LEMMA OthersStay ==
  ASSUME NEW l, Tree(l), NEW i \in Items, NEW d, NEW j \in Items, j # i, i \notin Above(l, j)
  PROVE  Above([l EXCEPT ![i] = d], j) = Above(l, j)
<1> DEFINE m == [l EXCEPT ![i] = d]
<1>1. \A k \in Items : k # i => m[k] = l[k]
  BY DEF Tree
<1>2. Bags \subseteq Items
  BY ItemsAssumption
<1> HIDE DEF m
<1>3. i \notin Over(Bags, l, j)
  BY DEF Above
<1>4. Over(Bags, m, j) = Over(Bags, l, j)
  BY <1>1, <1>2, <1>3, OthersKeepTheirPlace
<1> QED
  BY <1>4 DEF Above, m

(* The item that is moved lies where its new place lies.                   *)
LEMMA MovedLies ==
  ASSUME NEW l, Tree(l), NEW i \in Items, NEW d, Legal(l, i, d)
  PROVE  /\ Above([l EXCEPT ![i] = d], i) = {d} \cup (IF d \in Bags THEN Above(l, d) ELSE {})
         /\ i \notin Above([l EXCEPT ![i] = d], i)
BY TreeIsForest, MovedThing DEF Above

(* What lies in it goes along.                                             *)
LEMMA InsideFollows ==
  ASSUME NEW l, Tree(l), NEW i \in Items, NEW d, Legal(l, i, d),
         NEW j \in Items, i \in Above(l, j)
  PROVE  LET m == [l EXCEPT ![i] = d]
             way == {h \in Bags : h \in Above(l, j) /\ (h = i \/ i \in Above(l, h))}
         IN  Above(m, i) \subseteq Above(m, j) /\ Above(m, j) \subseteq way \cup Above(m, i)
BY TreeIsForest, InsideMoves DEF Above

LEMMA MovedTree ==
  ASSUME NEW l, Tree(l), NEW i \in Items, NEW d, Legal(l, i, d)
  PROVE  Tree([l EXCEPT ![i] = d])
BY TreeIsForest, ForestMoved

-----------------------------------------------------------------------------
(* On whom, or where, an item lies in the end.                             *)
LEMMA TopIs ==
  ASSUME NEW l, Tree(l), NEW i \in Items
  PROVE  /\ \E t \in Above(l, i) : t \notin Bags
         /\ \A t \in Above(l, i) : t \notin Bags =>
              t \in Where /\ TopParent(l, i) = IF t \in AllSlots THEN t[1] ELSE t
<1>1. PICK u \in Where \ Bags : Above(l, i) \ Bags = {u}
  BY DEF Tree
<1>2. (CHOOSE t \in Above(l, i) : t \notin Bags) = u
  <2>1. \E t \in Above(l, i) : t \notin Bags
    BY <1>1
  <2> DEFINE u1 == CHOOSE t \in Above(l, i) : t \notin Bags
  <2>2. u1 \in Above(l, i) /\ u1 \notin Bags
    BY <2>1
  <2> HIDE DEF u1
  <2>3. u1 = u
    BY <1>1, <2>2
  <2> QED
    BY <2>3 DEF u1
<1>3. TopParent(l, i) = IF u \in AllSlots THEN u[1] ELSE u
  <2> DEFINE u1 == CHOOSE t \in Above(l, i) : t \notin Bags
  <2>1. TopParent(l, i) = IF u1 \in AllSlots THEN u1[1] ELSE u1
    BY DEF TopParent
  <2>2. u1 = u
    BY <1>2
  <2> HIDE DEF u1
  <2> QED
    BY <2>1, <2>2
<1> QED
  BY <1>1, <1>3

LEMMA TopSame ==
  ASSUME NEW l, Tree(l), NEW i \in Items, NEW m, Tree(m), NEW j \in Items,
         Above(l, i) \subseteq Above(m, j)
  PROVE  TopParent(l, i) = TopParent(m, j)
BY TopIs

LEMMA TopInside ==
  ASSUME NEW l, Tree(l), NEW i \in Items, NEW h \in Bags, h \in Above(l, i)
  PROVE  TopParent(l, i) = TopParent(l, h)
BY TopSame, AboveThrough, ItemsAssumption

LEMMA TopType ==
  ASSUME NEW l, Tree(l), NEW i \in Items
  PROVE  /\ TopParent(l, i) \in Players \cup {Tile, Gone}
         /\ l[i] \in AllSlots => TopParent(l, i) = l[i][1]
         /\ l[i] \in {Tile, Gone} => TopParent(l, i) = l[i]
         /\ l[i] \in Bags => TopParent(l, i) = TopParent(l, l[i])
<1>1. PICK t \in Above(l, i) : t \notin Bags
  BY TopIs
<1>2. TopParent(l, i) \in Players \cup {Tile, Gone}
  BY <1>1, TopIs, PlacesApart DEF Where
<1>3. l[i] \in Above(l, i)
  BY AboveClosed
<1> QED
  BY <1>2, <1>3, TopIs, TopInside, PlacesApart

(* Whoever is at the tile is next to what lies on it and to what he has.   *)
LEMMA Near ==
  ASSUME NEW r \in Players, place[r] = "here", NEW top, top \in {r, Tile}
  PROVE  r \in NextTo(top)
<1>1. top # Gone /\ (top = Tile \/ (top = r /\ top # Tile))
  BY PlacesApart
<1> QED
  BY <1>1 DEF NextTo

(* Whose trade is not closed by a move has an offer that has nothing to do *)
(* with the item that is moved.                                            *)
Apart(l, off, i) == off # i /\ off \notin Above(l, i) /\ i \notin Above(l, off)

LEMMA UnclosedRemoval ==
  ASSUME NEW l, Tree(l), NEW i \in Items, NEW r \in Players, tradeItem[r] \in Items,
         place[r] = "here", TopParent(l, tradeItem[r]) \in {r, Tile},
         r \notin ClosedByRemoval(l, i)
  PROVE  Apart(l, tradeItem[r], i)
<1> DEFINE off == tradeItem[r]
<1>1. ~ Apart(l, off, i) => TopParent(l, i) = TopParent(l, off)
  <2>1. CASE off \in Above(l, i)
    <3>1. off \in Bags
      BY <2>1, PlacesApart DEF Tree, Where
    <3> QED
      BY <2>1, <3>1, TopInside
  <2>2. CASE i \in Above(l, off)
    <3>1. i \in Bags
      BY <2>2, PlacesApart DEF Tree, Where
    <3> QED
      BY <2>2, <3>1, TopInside
  <2> QED
    BY <2>1, <2>2 DEF Apart
<1>2. ~ Apart(l, off, i) => r \in NextTo(TopParent(l, i))
  BY <1>1, Near
<1>3. off # None
  BY PlacesApart
<1> QED
  BY <1>2, <1>3 DEF Apart, ClosedByRemoval, CheckTradeState, IsHoldingItem

LEMMA UnclosedUpdate ==
  ASSUME NEW l, Tree(l), NEW i \in Items, NEW r \in Players, tradeItem[r] \in Items,
         place[r] = "here", TopParent(l, tradeItem[r]) \in {r, Tile},
         r \notin ClosedByUpdate(l, i)
  PROVE  tradeItem[r] # i /\ tradeItem[r] \notin Above(l, i)
<1> DEFINE off == tradeItem[r]
<1>1. off = i \/ off \in Above(l, i) => TopParent(l, i) = TopParent(l, off)
  <2>1. CASE off \in Above(l, i)
    <3>1. off \in Bags
      BY <2>1, PlacesApart DEF Tree, Where
    <3> QED
      BY <2>1, <3>1, TopInside
  <2> QED
    BY <2>1
<1>2. off = i \/ off \in Above(l, i) => r \in NextTo(TopParent(l, i))
  BY <1>1, Near
<1>3. off # None
  BY PlacesApart
<1> QED
  BY <1>2, <1>3 DEF ClosedByUpdate, CheckTradeState

(* What is apart from the item that is moved is what it was, if the item   *)
(* is not moved into it.                                                   *)
SameOffer(l, m, off) ==
    /\ Above(m, off) = Above(l, off) /\ TopParent(m, off) = TopParent(l, off)
    /\ \A j \in Items : off \in Above(m, j) <=> off \in Above(l, j)

LEMMA ApartStays ==
  ASSUME NEW l, Tree(l), NEW i \in Items, NEW d, Legal(l, i, d), NEW off \in Items,
         Apart(l, off, i), off \notin Above([l EXCEPT ![i] = d], i)
  PROVE  SameOffer(l, [l EXCEPT ![i] = d], off)
<1> DEFINE m == [l EXCEPT ![i] = d]
<1>1. Tree(m)
  BY MovedTree
<1>2. \A j \in Items : j # i /\ i \notin Above(l, j) => Above(m, j) = Above(l, j)
  BY OthersStay
<1>3. \A j \in Items : i \in Above(l, j) =>
        \A t \in Above(m, j) : t \in Above(m, i)
                \/ (t \in Bags /\ t \in Above(l, j) /\ (t = i \/ i \in Above(l, t)))
  BY InsideFollows
<1> HIDE DEF m
<1>4. Above(m, off) = Above(l, off) /\ TopParent(m, off) = TopParent(l, off)
  BY <1>1, <1>2, TopSame DEF Apart
<1>5. ASSUME NEW j \in Items PROVE off \in Above(m, j) <=> off \in Above(l, j)
  <2>1. CASE j = i
    BY <2>1 DEF Apart, m
  <2>2. CASE j # i /\ i \notin Above(l, j)
    BY <1>2, <2>2
  <2>3. CASE i \in Above(l, j)
    <3>1. i \in Bags
      BY <2>3, PlacesApart DEF Tree, Where
    <3>2. off \notin Above(l, j)
      BY <2>3, <3>1, AboveInLine DEF Apart
    <3>3. off \notin Above(m, j)
      BY <1>3, <2>3 DEF Apart, m
    <3> QED
      BY <3>2, <3>3
  <2> QED
    BY <2>1, <2>2, <2>3
<1> QED
  BY <1>4, <1>5 DEF SameOffer, m

LEMMA UnclosedMove ==
  ASSUME NEW l, Tree(l), NEW i \in Items, NEW d, Legal(l, i, d),
         NEW r \in Players, tradeItem[r] \in Items,
         place[r] = "here", TopParent(l, tradeItem[r]) \in {r, Tile},
         r \notin ClosedByMove(l, i, d)
  PROVE  Apart(l, tradeItem[r], i) /\ SameOffer(l, [l EXCEPT ![i] = d], tradeItem[r])
<1> DEFINE m == [l EXCEPT ![i] = d]
           off == tradeItem[r]
<1>1. Apart(l, off, i)
  BY UnclosedRemoval DEF ClosedByMove
<1>2. Tree(m) /\ Above(m, off) = Above(l, off) /\ m[i] = d
  <2>1. off # i /\ i \notin Above(l, off)
    BY <1>1 DEF Apart
  <2>2. m[i] = d
    BY DEF Tree
  <2>3. Tree(m)
    BY MovedTree
  <2>4. Above(m, off) = Above(l, off)
    BY <2>1, OthersStay
  <2> QED
    BY <2>2, <2>3, <2>4
<1>3. r \notin ClosedByAdding(m, i)
  BY DEF ClosedByMove
<1> HIDE DEF m
<1>4. off \notin Above(m, i)
  <2> SUFFICES ASSUME off \in Above(m, i) PROVE FALSE
    OBVIOUS
  <2>1. off \in Bags
    BY <1>2, PlacesApart DEF Tree, Where
  <2>2. d \in Bags
    BY <1>2, <2>1, AboveStep
  <2>3. TopParent(m, i) = TopParent(m, off) /\ TopParent(m, off) = TopParent(l, off)
    BY <1>2, <2>1, TopInside, TopSame
  <2>4. r \in NextTo(TopParent(m, i))
    BY <2>3, Near
  <2>5. off # None
    BY PlacesApart
  <2> QED
    BY <1>2, <1>3, <2>2, <2>4, <2>5 DEF ClosedByAdding, CheckTradeState
<1>5. SameOffer(l, m, off)
  BY <1>1, <1>4, ApartStays DEF m
<1> QED
  BY <1>1, <1>5 DEF m

LEMMA SameOfferTwice ==
  ASSUME NEW l, NEW m, NEW n, NEW off, SameOffer(l, m, off), SameOffer(m, n, off)
  PROVE  SameOffer(l, n, off)
BY DEF SameOffer

-----------------------------------------------------------------------------
(* The inductive invariant of the street: what the run checks, and the     *)
(* shape of the places, the stages of a trade, and what a click has seen.  *)
Fits(l) == \A h \in Bags : Cardinality(Children(l, h)) <= BagSize

(* Who asked has an offer, who is asked has none yet, and whoever has no   *)
(* offer trades with one who has just asked and has not clicked.           *)
Stages ==
    \A p \in Players :
        /\ tradeState[p] = "INITIATED" => tradeItem[p] # None
        /\ tradeState[p] = "ACKNOWLEDGE" => tradeItem[p] = None
        /\ tradeState[p] # "NONE" /\ tradeItem[p] = None =>
              tradePartner[p] \notin clicked /\ tradeState[tradePartner[p]] = "INITIATED"

(* A click under way has seen the offers that are still there.             *)
Clicks ==
    \A p \in clicked :
        tradeItem[p] # None => agreed[p] = <<tradeItem[p], tradeItem[tradePartner[p]]>>

Histories ==
    shown = [p \in Players |-> shown[p]] /\ agreed = [p \in Players |-> agreed[p]]

TradeInv ==
    /\ TypeOK /\ Tree(at) /\ Fits(at)
    /\ Mutual /\ Disjoint /\ AsShown /\ AsAgreed /\ InReach /\ Counted
    /\ Stages /\ Clicks /\ Histories

LEMMA MovedFits ==
  ASSUME NEW l, Tree(l), Fits(l), NEW i \in Items, NEW d,
         d \in Bags => Cardinality(Children(l, d)) < BagSize
  PROVE  Fits([l EXCEPT ![i] = d])
<1> DEFINE m == [l EXCEPT ![i] = d]
<1>1. \A j \in Items : m[j] = IF j = i THEN d ELSE l[j]
  BY DEF Tree
<1> HIDE DEF m
<1> SUFFICES ASSUME NEW h \in Bags PROVE Cardinality(Children(m, h)) <= BagSize
  BY DEF Fits, m
<1>2. IsFiniteSet(Children(l, h)) /\ Cardinality(Children(l, h)) \in Nat
  BY ItemsAssumption, FS_Subset, FS_CardinalityType DEF Children
<1>3. CASE d = h
  <2>1. Children(m, h) \subseteq Children(l, h) \cup {i}
    BY <1>1 DEF Children
  <2>2. IsFiniteSet(Children(l, h) \cup {i})
        /\ Cardinality(Children(l, h) \cup {i}) <= Cardinality(Children(l, h)) + 1
    <3> DEFINE C == Children(l, h)
    <3>1. IsFiniteSet(C) /\ Cardinality(C) \in Nat
      BY <1>2
    <3> HIDE DEF C
    <3>2. IsFiniteSet(C \cup {i}) /\ Cardinality(C \cup {i}) = IF i \in C THEN Cardinality(C) ELSE Cardinality(C) + 1
      BY <3>1, FS_AddElement
    <3>3. Cardinality(C \cup {i}) <= Cardinality(C) + 1
      BY <3>1, <3>2
    <3> QED
      BY <3>2, <3>3 DEF C
  <2>3. Cardinality(Children(m, h)) <= Cardinality(Children(l, h) \cup {i})
        /\ Cardinality(Children(l, h) \cup {i}) \in Nat /\ Cardinality(Children(m, h)) \in Nat
    BY <2>1, <2>2, FS_Subset, FS_CardinalityType
  <2> QED
    BY <1>2, <1>3, <2>2, <2>3, ItemsAssumption
<1>4. CASE d # h
  <2>1. Children(m, h) \subseteq Children(l, h)
    BY <1>1, <1>4 DEF Children
  <2>2. Cardinality(Children(m, h)) <= Cardinality(Children(l, h))
        /\ Cardinality(Children(m, h)) \in Nat
    BY <1>2, <2>1, FS_Subset, FS_CardinalityType
  <2> QED
    BY <1>2, <2>2, ItemsAssumption DEF Fits
<1> QED
  BY <1>3, <1>4

LEMMA RoomIsLegal ==
  ASSUME NEW l, Tree(l), NEW i \in Items, NEW d, HasRoom(l, d, i)
  PROVE  /\ Legal(l, i, d) /\ d # Gone
         /\ d \in Bags => Cardinality(Children(l, d)) < BagSize
<1>1. d = Tile => Legal(l, i, d) /\ d # Gone /\ d \notin Bags
  BY PlacesApart DEF Legal, Where
<1>2. d \in AllSlots => Legal(l, i, d) /\ d # Gone /\ d \notin Bags
  BY PlacesApart DEF Legal, Where
<1>3. d \in Bags /\ i # d /\ i \notin Above(l, d) => Legal(l, i, d) /\ d # Gone
  BY PlacesApart DEF Legal, Where
<1> QED
  BY <1>1, <1>2, <1>3 DEF HasRoom

-----------------------------------------------------------------------------
(* A trade is closed for both, so whoever is left trades as before.        *)
LEMMA PartiesClosed ==
  ASSUME Mutual, NEW S \in SUBSET Players
  PROVE  /\ Parties(S) \subseteq Players /\ S \subseteq Parties(S)
         /\ \A p \in Parties(S) : tradePartner[p] \in Players => tradePartner[p] \in Parties(S)
         /\ \A p \in Players \ Parties(S) :
              tradePartner[p] \in Players => tradePartner[p] \notin Parties(S)
<1>1. \A p \in Players : tradePartner[p] \in Players => tradePartner[tradePartner[p]] = p
  BY PlacesApart DEF Mutual
<1> QED
  BY <1>1, PlacesApart DEF Parties

LEMMA OffersOwned ==
  ASSUME TypeOK, Mutual, NEW C \in SUBSET Players, NEW i \in Items
  PROVE  /\ i \in OffersOf(C) <=> tradeItems[i] \in C
         /\ tradeItems[i] # None => tradeItems[i] \in Players /\ tradeItem[tradeItems[i]] = i
         /\ \A p \in Players : tradeItem[p] = i <=> tradeItems[i] = p
<1>1. tradeItems[i] \in Players \cup {None} /\ None \notin Players
  BY PlacesApart DEF TypeOK
<1>2. \A p \in Players : tradeItem[p] = i <=> tradeItems[i] = p
  BY DEF Mutual
<1> QED
  BY <1>1, <1>2 DEF OffersOf

(* What a step may do to the places and the things, if it closes every     *)
(* trade that it disturbs.                                                 *)
Disturbs(S, more) ==
    /\ Tree(at') /\ Fits(at') /\ amount' \in [Items -> 1..StackSize]
    /\ place' \in [Players -> {"here", "away", "offline"}]
    /\ clicked' \subseteq clicked /\ refs' = refs /\ fault' = None
    /\ \A r \in Players \ Parties(S) :
        /\ tradeState[r] # "NONE" => place'[r] = "here"
        /\ tradeItem[r] # None =>
            /\ SameOffer(at, at', tradeItem[r])
            /\ \A j \in Items :
                 j = tradeItem[r] \/ tradeItem[r] \in Above(at, j) => amount'[j] = amount[j]
    /\ \A i \in Items : at'[i] = Gone <=> at[i] = Gone \/ i \in more
    /\ \A i \in more : at[i] # Gone

LEMMA ClosingKeeps ==
  ASSUME TradeInv, NEW S \in SUBSET Players, NEW more \in SUBSET Items,
         CloseTrades(S, more), Disturbs(S, more)
  PROVE  TradeInv'
<1> DEFINE C == Parties(S)
           R == OffersOf(C)
<1>1. /\ C \subseteq Players
      /\ \A p \in C : tradePartner[p] \in Players => tradePartner[p] \in C
      /\ \A p \in Players \ C : tradePartner[p] \in Players => tradePartner[p] \notin C
  BY PartiesClosed DEF TradeInv
<1>2. /\ \A i \in Items : i \in R <=> tradeItems[i] \in C
      /\ \A i \in Items : tradeItems[i] # None =>
           tradeItems[i] \in Players /\ tradeItem[tradeItems[i]] = i
      /\ \A p \in Players, i \in Items : tradeItem[p] = i <=> tradeItems[i] = p
  BY <1>1, OffersOwned DEF TradeInv
<1>3. /\ \A p \in C : tradeState'[p] = "NONE" /\ tradePartner'[p] = None /\ tradeItem'[p] = None
      /\ \A p \in Players \ C :
            /\ tradeState'[p] = tradeState[p] /\ tradePartner'[p] = tradePartner[p]
            /\ tradeItem'[p] = tradeItem[p] /\ shown'[p] = shown[p] /\ agreed'[p] = agreed[p]
      /\ \A p \in clicked' : agreed'[p] = agreed[p]
      /\ \A i \in Items : tradeItems'[i] = IF i \in R THEN None ELSE tradeItems[i]
      /\ \A i \in Items : toRelease'[i] = toRelease[i]
             + (IF i \in R THEN 1 ELSE 0) + (IF i \in more THEN 1 ELSE 0)
  BY <1>1 DEF CloseTrades, CloseFor, Disturbs, TradeInv, TypeOK
<1>4. /\ tradeState' \in [Players -> {"NONE", "INITIATED", "ACKNOWLEDGE", "ACCEPT"}]
      /\ tradePartner' \in [Players -> Players \cup {None}]
      /\ tradeItem' \in [Players -> Items \cup {None}]
      /\ tradeItems' \in [Items -> Players \cup {None}]
  BY DEF CloseTrades, CloseFor, TradeInv, TypeOK
<1>4b. toRelease' \in [Items -> Nat]
  <2>1. toRelease' = [i \in Items |-> toRelease[i]
             + (IF i \in R THEN 1 ELSE 0) + (IF i \in more THEN 1 ELSE 0)]
    BY DEF CloseTrades, CloseFor
  <2>2. \A i \in Items : toRelease[i] \in Nat
    BY DEF TradeInv, TypeOK
  <2> HIDE DEF R
  <2> QED
    BY <2>1, <2>2
<1>4a. shown' = [p \in Players |-> shown'[p]] /\ agreed' = [p \in Players |-> agreed'[p]]
  BY DEF CloseTrades, CloseFor
<1>5. TypeOK' /\ Histories'
  BY <1>4, <1>4a, <1>4b DEF TypeOK, Histories, Disturbs, Tree, TradeInv
<1> HIDE DEF C, R
<1>6. Mutual'
  <2> SUFFICES ASSUME NEW p \in Players
               PROVE  /\ IF tradeState'[p] = "NONE"
                         THEN tradePartner'[p] = None /\ tradeItem'[p] = None
                         ELSE /\ tradePartner'[p] \in Players \ {p}
                              /\ tradePartner'[tradePartner'[p]] = p
                      /\ \A i \in Items : tradeItems'[i] = p <=> tradeItem'[p] = i
    BY DEF Mutual
  <2>1. CASE p \in C
    BY <1>1, <1>2, <1>3, <2>1, PlacesApart
  <2>2. CASE p \notin C
    <3>1. /\ IF tradeState[p] = "NONE"
             THEN tradePartner[p] = None /\ tradeItem[p] = None
             ELSE /\ tradePartner[p] \in Players \ {p}
                  /\ tradePartner[tradePartner[p]] = p
          /\ \A i \in Items : tradeItems[i] = p <=> tradeItem[p] = i
      BY DEF TradeInv, Mutual
    <3>2. \A i \in Items : tradeItems'[i] = p <=> tradeItems[i] = p
      BY <1>2, <1>3, <2>2, PlacesApart
    <3> QED
      BY <1>1, <1>3, <2>2, <3>1, <3>2
  <2> QED
    BY <2>1, <2>2
<1>7. \A i \in Items : tradeItems'[i] # None =>
         /\ tradeItems'[i] = tradeItems[i] /\ tradeItems[i] \in Players \ C
         /\ tradeItem[tradeItems[i]] = i /\ SameOffer(at, at', i)
  BY <1>2, <1>3, PlacesApart DEF Disturbs, C
<1>8. Disjoint'
  <2> SUFFICES ASSUME NEW i \in Items, NEW j \in Items, i # j,
                      tradeItems'[i] # None, tradeItems'[j] # None
               PROVE  i \notin Above(at', j)
    BY DEF Disjoint, IsHoldingItem
  <2>1. i \notin Above(at, j)
    BY <1>7 DEF TradeInv, Disjoint, IsHoldingItem
  <2> QED
    BY <1>7, <2>1 DEF SameOffer
<1>9. ASSUME NEW p \in Players, tradeItem'[p] # None
      PROVE  /\ p \notin C /\ tradeItem'[p] = tradeItem[p] /\ tradeItem[p] # None
             /\ tradeState[p] # "NONE" /\ tradePartner'[p] = tradePartner[p]
             /\ tradePartner[p] \in Players \ C
             /\ tradeItem'[tradePartner[p]] = tradeItem[tradePartner[p]]
  BY <1>1, <1>3, <1>9 DEF TradeInv, Mutual
<1>10. AsShown'
  <2> SUFFICES ASSUME NEW p \in Players, tradeItem'[p] # None
               PROVE  shown'[p] = Contents(at, tradeItem[p])'
    BY <1>9 DEF AsShown
  <2> QED
    <3> DEFINE off == tradeItem[p]
    <3>1. /\ \A j \in Items : off \in Above(at', j) <=> off \in Above(at, j)
          /\ \A j \in Items : j = off \/ off \in Above(at, j) => amount'[j] = amount[j]
      BY <1>9 DEF Disturbs, SameOffer, C
    <3>2. shown'[p] = {<<j, amount[j]>> : j \in {j \in Items : j = off \/ off \in Above(at, j)}}
      BY <1>3, <1>9 DEF TradeInv, AsShown, Contents
    <3>3. tradeItem'[p] = off
      BY <1>9
    <3> HIDE DEF off
    <3>4. {j \in Items : j = off \/ off \in Above(at, j)} = {j \in Items : j = off \/ off \in Above(at', j)}
      BY <3>1
    <3>5. shown'[p] = {<<j, amount'[j]>> : j \in {j \in Items : j = off \/ off \in Above(at', j)}}
      BY <3>1, <3>2, <3>4
    <3> QED
      BY <3>3, <3>5 DEF Contents
<1>11. AsAgreed'
  <2>1. \A p \in Players : tradeState'[p] = "ACCEPT" /\ tradeItem'[p] # None =>
           agreed'[p] = <<tradeItem[p], tradeItem[tradePartner[p]]>>
    BY <1>3, <1>9 DEF TradeInv, AsAgreed
  <2> QED
    BY <1>9, <2>1 DEF AsAgreed, Disturbs
<1>12. InReach'
  <2>1. \A p \in Players : tradeState'[p] # "NONE" =>
          place'[p] = "here" /\ place'[tradePartner'[p]] = "here"
    <3> SUFFICES ASSUME NEW p \in Players, tradeState'[p] # "NONE"
                 PROVE  place'[p] = "here" /\ place'[tradePartner'[p]] = "here"
      OBVIOUS
    <3>1. p \notin C /\ tradeState[p] # "NONE" /\ tradePartner'[p] = tradePartner[p]
      BY <1>3
    <3>2. tradePartner[p] \in Players \ C /\ tradePartner[tradePartner[p]] = p
      BY <1>1, <3>1 DEF TradeInv, Mutual
    <3>3. tradeState[tradePartner[p]] # "NONE"
      BY <3>2, PlacesApart DEF TradeInv, Mutual
    <3> QED
      BY <3>1, <3>2, <3>3 DEF Disturbs, C
  <2>2. ASSUME NEW p \in Players, tradeItem'[p] # None
        PROVE  TopParent(at', tradeItem'[p]) \in {p, Tile}
    BY <1>9, <2>2 DEF TradeInv, InReach, Disturbs, SameOffer, C
  <2> QED
    BY <2>1, <2>2 DEF InReach
<1>13. Counted'
  <2> SUFFICES ASSUME NEW i \in Items
               PROVE  refs'[i] = (IF at'[i] # Gone THEN 1 ELSE 0)
                          + (IF tradeItems'[i] # None THEN 1 ELSE 0) + toRelease'[i]
    BY DEF Counted
  <2>1. refs[i] = (IF at[i] # Gone THEN 1 ELSE 0)
                   + (IF tradeItems[i] # None THEN 1 ELSE 0) + toRelease[i]
        /\ toRelease[i] \in Nat
    BY DEF TradeInv, Counted, TypeOK
  <2>2. i \in R => tradeItems[i] # None
    BY <1>1, <1>2, PlacesApart
  <2>3. refs'[i] = refs[i] /\ (at'[i] = Gone <=> at[i] = Gone \/ i \in more)
        /\ (i \in more => at[i] # Gone)
    BY DEF Disturbs
  <2>4. /\ tradeItems'[i] = IF i \in R THEN None ELSE tradeItems[i]
        /\ toRelease'[i] = toRelease[i] + (IF i \in R THEN 1 ELSE 0) + (IF i \in more THEN 1 ELSE 0)
    BY <1>3
  <2> QED
    BY <2>1, <2>2, <2>3, <2>4
<1>14. Stages'
  <2> SUFFICES ASSUME NEW p \in Players, tradeState'[p] # "NONE"
               PROVE  /\ tradeState'[p] = "INITIATED" => tradeItem'[p] # None
                      /\ tradeState'[p] = "ACKNOWLEDGE" => tradeItem'[p] = None
                      /\ tradeItem'[p] = None => tradePartner'[p] \notin clicked'
                             /\ tradeState'[tradePartner'[p]] = "INITIATED"
    BY DEF Stages
  <2>1. p \notin C /\ tradePartner[p] \in Players \ C
    BY <1>1, <1>3 DEF TradeInv, Mutual
  <2>2. /\ tradeState[p] = "INITIATED" => tradeItem[p] # None
        /\ tradeState[p] = "ACKNOWLEDGE" => tradeItem[p] = None
        /\ tradeState[p] # "NONE" /\ tradeItem[p] = None =>
              tradePartner[p] \notin clicked /\ tradeState[tradePartner[p]] = "INITIATED"
    BY DEF TradeInv, Stages
  <2> QED
    BY <1>3, <2>1, <2>2 DEF Disturbs
<1>15. Clicks'
  <2> SUFFICES ASSUME NEW p \in clicked', tradeItem'[p] # None
               PROVE  agreed'[p] = <<tradeItem'[p], tradeItem'[tradePartner'[p]]>>
    BY DEF Clicks
  <2>1. p \in clicked /\ p \in Players
    BY DEF Disturbs, TradeInv, TypeOK
  <2> QED
    BY <1>3, <1>9, <2>1 DEF TradeInv, Clicks
<1> QED
  BY <1>5, <1>6, <1>8, <1>10, <1>11, <1>12, <1>13, <1>14, <1>15 DEF TradeInv, Disturbs

(* A player that is left out of a close trades within reach of its offer.  *)
LEMMA Offering ==
  ASSUME TradeInv, NEW r \in Players, tradeItem[r] # None
  PROVE  /\ tradeItem[r] \in Items /\ place[r] = "here" /\ tradeState[r] # "NONE"
         /\ TopParent(at, tradeItem[r]) \in {r, Tile}
         /\ tradePartner[r] \in Players \ {r} /\ tradePartner[tradePartner[r]] = r
<1>1. tradeState[r] # "NONE" /\ tradePartner[r] \in Players \ {r}
      /\ tradePartner[tradePartner[r]] = r
  BY DEF TradeInv, Mutual
<1>2. tradeItem[r] \in Items
  BY DEF TradeInv, TypeOK
<1> QED
  BY <1>1, <1>2 DEF TradeInv, InReach

LEMMA NextToPlayers ==
  ASSUME NEW l, Tree(l), NEW i \in Items
  PROVE  NextTo(TopParent(l, i)) \subseteq Players
<1> DEFINE top == TopParent(l, i)
<1>1. top \in Players \cup {Tile, Gone}
  BY TopType
<1> SUFFICES NextTo(top) \subseteq Players
  OBVIOUS
<1> HIDE DEF top
<1>2. CASE top = Gone
  BY <1>2 DEF NextTo
<1>3. CASE top = Tile
  BY <1>3, PlacesApart DEF NextTo
<1>4. CASE top \in Players /\ top # Gone /\ top # Tile
  BY <1>4 DEF NextTo
<1> QED
  BY <1>1, <1>2, <1>3, <1>4

LEMMA ClosedPlayers ==
  ASSUME NEW l, Tree(l), NEW i \in Items
  PROVE  /\ ClosedByRemoval(l, i) \subseteq Players /\ ClosedByUpdate(l, i) \subseteq Players
         /\ \A d : Legal(l, i, d) => ClosedByMove(l, i, d) \subseteq Players
<1>1. ClosedByRemoval(l, i) \subseteq Players /\ ClosedByUpdate(l, i) \subseteq Players
  BY NextToPlayers DEF ClosedByRemoval, ClosedByUpdate
<1>2. ASSUME NEW d, Legal(l, i, d)
      PROVE  ClosedByMove(l, i, d) \subseteq Players
  <2> DEFINE m == [l EXCEPT ![i] = d]
  <2>1. Tree(m)
    BY <1>2, MovedTree
  <2> HIDE DEF m
  <2>2. ClosedByAdding(m, i) \subseteq Players
    BY <2>1, NextToPlayers DEF ClosedByAdding
  <2> QED
    BY <1>1, <2>2 DEF ClosedByMove, m
<1> QED
  BY <1>1, <1>2

LEMMA SameAt ==
  ASSUME NEW l, NEW off
  PROVE  SameOffer(l, l, off)
BY DEF SameOffer

(* Every operation on the items closes the trades it disturbs.             *)
LEMMA MoveKeeps ==
  ASSUME TradeInv, NEW p \in Players, NEW i \in Items, MoveItem(p, i)
  PROVE  TradeInv'
<1>1. PICK t : /\ HasRoom(at, t, i) /\ at' = [at EXCEPT ![i] = t]
               /\ CloseTrades(ClosedByMove(at, i, t), {})
  BY DEF MoveItem
<1> DEFINE S == ClosedByMove(at, i, t)
<1>3. /\ Legal(at, i, t) /\ t # Gone /\ Tree(at)
      /\ t \in Bags => Cardinality(Children(at, t)) < BagSize
  BY <1>1, RoomIsLegal DEF TradeInv
<1>2. S \in SUBSET Players
  BY <1>3, ClosedPlayers
<1>4. Tree(at') /\ Fits(at')
  BY <1>1, <1>3, MovedTree, MovedFits DEF TradeInv
<1>5. clicked' = clicked /\ UNCHANGED <<amount, refs, place, fault>>
  BY DEF MoveItem
<1>6. ASSUME NEW r \in Players \ Parties(S), tradeItem[r] # None
      PROVE  SameOffer(at, at', tradeItem[r])
  <2>1. r \notin S
    BY <1>6 DEF Parties
  <2> QED
    BY <1>1, <1>3, <1>6, <2>1, Offering, UnclosedMove
<1>7. at[i] # Gone
  <2>1. TopParent(at, i) # Gone
    BY PlacesApart DEF MoveItem, Reachable
  <2> QED
    BY <1>3, <2>1, TopType
<1>8. \A j \in Items : at'[j] = Gone <=> at[j] = Gone
  BY <1>1, <1>3, <1>7 DEF Tree
<1> HIDE DEF S
<1>9. Disturbs(S, {})
  BY <1>4, <1>5, <1>6, <1>8 DEF Disturbs, TradeInv, TypeOK, AsAgreed, InReach
<1> QED
  BY <1>1, <1>2, <1>9, ClosingKeeps DEF S

LEMMA UseKeeps ==
  ASSUME TradeInv, NEW i \in Items, UseOne(i)
  PROVE  TradeInv'
<1> DEFINE S == ClosedByUpdate(at, i)
<1>1. S \in SUBSET Players
  BY ClosedPlayers DEF TradeInv
<1>2. /\ CloseTrades(S, {}) /\ clicked' = clicked /\ UNCHANGED <<at, refs, place, fault>>
      /\ amount[i] > 1 /\ amount' = [amount EXCEPT ![i] = @ - 1]
  BY DEF UseOne
<1>3. amount' \in [Items -> 1..StackSize] /\ \A j \in Items : j # i => amount'[j] = amount[j]
  <2>1. amount \in [Items -> 1..StackSize] /\ StackSize \in Nat
    BY ItemsAssumption DEF TradeInv, TypeOK
  <2> QED
    BY <1>2, <2>1
<1>4. ASSUME NEW r \in Players \ Parties(S), tradeItem[r] # None
      PROVE  tradeItem[r] # i /\ tradeItem[r] \notin Above(at, i)
  <2>1. r \notin S
    BY <1>4 DEF Parties
  <2> QED
    BY <1>4, <2>1, Offering, UnclosedUpdate DEF TradeInv
<1> HIDE DEF S
<1>5. Disturbs(S, {})
  <2>1. ASSUME NEW r \in Players \ Parties(S), tradeItem[r] # None
        PROVE  /\ SameOffer(at, at', tradeItem[r])
               /\ \A j \in Items : j = tradeItem[r] \/ tradeItem[r] \in Above(at, j)
                      => amount'[j] = amount[j]
    BY <1>2, <1>3, <1>4, <2>1, SameAt
  <2> QED
    BY <1>2, <1>3, <2>1 DEF Disturbs, TradeInv, TypeOK, AsAgreed, InReach
<1> QED
  BY <1>1, <1>2, <1>5, ClosingKeeps

LEMMA RemoveKeeps ==
  ASSUME TradeInv, NEW i \in Items, RemoveItem(i)
  PROVE  TradeInv'
<1> DEFINE S == ClosedByRemoval(at, i)
<1>1. S \in SUBSET Players
  BY ClosedPlayers DEF TradeInv
<1>2. /\ CloseTrades(S, {i}) /\ clicked' = clicked /\ UNCHANGED <<amount, refs, place, fault>>
      /\ at[i] # Gone /\ at' = [at EXCEPT ![i] = Gone]
  BY DEF RemoveItem
<1>3. Legal(at, i, Gone) /\ Tree(at) /\ Gone \notin Bags
  BY PlacesApart DEF Legal, Where, TradeInv
<1>4. Tree(at') /\ Fits(at')
  BY <1>2, <1>3, MovedTree, MovedFits DEF TradeInv
<1>5. ASSUME NEW r \in Players \ Parties(S), tradeItem[r] # None
      PROVE  SameOffer(at, at', tradeItem[r])
  <2>1. r \notin S
    BY <1>5 DEF Parties
  <2>2. tradeItem[r] \in Items /\ Apart(at, tradeItem[r], i)
    BY <1>3, <1>5, <2>1, Offering, UnclosedRemoval
  <2>3. tradeItem[r] \notin Above(at', i)
    <3>1. Above([at EXCEPT ![i] = Gone], i)
              = {Gone} \cup (IF Gone \in Bags THEN Above(at, Gone) ELSE {})
      BY <1>3, MovedLies
    <3>2. Above(at', i) = {Gone}
      BY <1>2, <1>3, <3>1
    <3> QED
      BY <2>2, <3>2, PlacesApart
  <2> QED
    BY <1>2, <1>3, <2>2, <2>3, ApartStays
<1>6. \A j \in Items : at'[j] = Gone <=> at[j] = Gone \/ j \in {i}
  BY <1>2, <1>3 DEF Tree
<1> HIDE DEF S
<1>7. Disturbs(S, {i})
  BY <1>2, <1>4, <1>5, <1>6 DEF Disturbs, TradeInv, TypeOK, AsAgreed, InReach
<1> QED
  BY <1>1, <1>2, <1>7, ClosingKeeps

LEMMA StillKeeps ==
  ASSUME TradeInv, NEW S \in SUBSET Players, CloseTrades(S, {}),
         UNCHANGED <<items, refs, fault>>, clicked' \subseteq clicked,
         place' \in [Players -> {"here", "away", "offline"}],
         \A r \in Players \ Parties(S) : tradeState[r] # "NONE" => place'[r] = "here"
  PROVE  TradeInv'
<1>1. \A r \in Players \ Parties(S) : SameOffer(at, at', tradeItem[r])
  BY SameAt DEF items
<1>2. Disturbs(S, {})
  BY <1>1 DEF Disturbs, TradeInv, TypeOK, AsAgreed, items
<1> QED
  BY <1>2, ClosingKeeps

LEMMA WalkKeeps ==
  ASSUME TradeInv, NEW p \in Players, Walk(p)
  PROVE  TradeInv'
<1> DEFINE S == ClosedByWalk(p, place'[p])
<1>1. S \in SUBSET Players
  BY DEF ClosedByWalk
<1>2. /\ CloseTrades(S, {}) /\ clicked' = clicked /\ UNCHANGED <<items, refs, fault>>
      /\ place' = [place EXCEPT ![p] = IF @ = "here" THEN "away" ELSE "here"]
  BY DEF Walk
<1>3. place' \in [Players -> {"here", "away", "offline"}]
      /\ \A r \in Players : r # p => place'[r] = place[r]
  BY <1>2 DEF TradeInv, TypeOK
<1>4. ASSUME NEW r \in Players \ Parties(S), tradeState[r] # "NONE"
      PROVE  place'[r] = "here"
  <2>1. CASE r = p
    <3>1. r \notin S
      BY <1>4 DEF Parties
    <3>2. tradePartner[r] # None
      BY <1>4, PlacesApart DEF TradeInv, Mutual
    <3> QED
      BY <2>1, <3>1, <3>2 DEF ClosedByWalk
  <2>2. CASE r # p
    BY <1>3, <1>4, <2>2 DEF TradeInv, InReach
  <2> QED
    BY <2>1, <2>2
<1> QED
  BY <1>1, <1>2, <1>3, <1>4, StillKeeps

LEMMA LogoutKeeps ==
  ASSUME TradeInv, NEW p \in Players, Logout(p)
  PROVE  TradeInv'
<1> DEFINE S == IF tradePartner[p] # None THEN {p} ELSE {}
<1>1. S \in SUBSET Players
  OBVIOUS
<1>2. /\ CloseTrades(S, {}) /\ clicked' \subseteq clicked /\ UNCHANGED <<items, refs, fault>>
      /\ place' = [place EXCEPT ![p] = "offline"]
  BY DEF Logout
<1>3. place' \in [Players -> {"here", "away", "offline"}]
      /\ \A r \in Players : r # p => place'[r] = place[r]
  BY <1>2 DEF TradeInv, TypeOK
<1>4. ASSUME NEW r \in Players \ Parties(S), tradeState[r] # "NONE"
      PROVE  place'[r] = "here"
  <2>1. r # p
    BY <1>4, PlacesApart DEF TradeInv, Mutual, Parties
  <2> QED
    BY <1>3, <1>4, <2>1 DEF TradeInv, InReach
<1> QED
  BY <1>1, <1>2, <1>3, <1>4, StillKeeps

LEMMA CloseKeeps ==
  ASSUME TradeInv, NEW p \in Players, PlayerCloseTrade(p)
  PROVE  TradeInv'
<1>1. /\ CloseTrades({p}, {}) /\ clicked' = clicked
      /\ UNCHANGED <<items, refs, place, fault>>
  BY DEF PlayerCloseTrade
<1> QED
  BY <1>1, StillKeeps DEF TradeInv, TypeOK, InReach

-----------------------------------------------------------------------------
(* The steps that close nothing.                                           *)
LEMMA CleanupKeeps ==
  ASSUME TradeInv, Cleanup
  PROVE  TradeInv'
<1>1. /\ refs' = [i \in Items |-> refs[i] - toRelease[i]] /\ toRelease' = [i \in Items |-> 0]
      /\ UNCHANGED <<items, place, trades, client, fault>>
  BY DEF Cleanup
<1>2. \A i \in Items : /\ toRelease[i] \in Nat /\ refs[i] \in Nat
                       /\ refs[i] = (IF at[i] # Gone THEN 1 ELSE 0)
                            + (IF tradeItems[i] # None THEN 1 ELSE 0) + toRelease[i]
  BY DEF TradeInv, Counted, TypeOK
<1>3. \A i \in Items : refs'[i] = (IF at[i] # Gone THEN 1 ELSE 0)
                            + (IF tradeItems[i] # None THEN 1 ELSE 0)
  BY <1>1, <1>2
<1>4. refs' \in [Items -> Nat] /\ toRelease' \in [Items -> Nat]
  BY <1>1, <1>3
<1>5. Counted'
  BY <1>1, <1>3 DEF Counted, items, trades
<1>6. TypeOK'
  BY <1>1, <1>4 DEF TypeOK, items, trades, client, TradeInv
<1>7. /\ Tree(at)' /\ Fits(at)' /\ Mutual' /\ Disjoint' /\ AsShown' /\ AsAgreed' /\ Histories'
      /\ Stages' /\ Clicks'
  BY <1>1 DEF items, trades, client, TradeInv, Mutual, Disjoint, AsShown, AsAgreed,
              Histories, Stages, Clicks, IsHoldingItem, Contents
<1>8. InReach'
  BY <1>1 DEF InReach, items, trades, TradeInv
<1> QED
  BY <1>5, <1>6, <1>7, <1>8 DEF TradeInv

LEMMA LoginKeeps ==
  ASSUME TradeInv, NEW p \in Players, Login(p)
  PROVE  TradeInv'
<1>1. /\ place' = [place EXCEPT ![p] = "here"]
      /\ UNCHANGED <<items, counts, trades, client, fault>>
  BY DEF Login
<1>2. place' \in [Players -> {"here", "away", "offline"}]
      /\ \A r \in Players : place[r] = "here" => place'[r] = "here"
  BY <1>1 DEF TradeInv, TypeOK
<1>3. TypeOK' /\ Counted'
  BY <1>1, <1>2 DEF TypeOK, items, counts, trades, client, TradeInv, Counted
<1>4. /\ Tree(at)' /\ Fits(at)' /\ Mutual' /\ Disjoint' /\ AsShown' /\ AsAgreed' /\ Histories'
      /\ Stages' /\ Clicks'
  BY <1>1 DEF items, trades, client, TradeInv, Mutual, Disjoint, AsShown, AsAgreed,
              Histories, Stages, Clicks, IsHoldingItem, Contents
<1>5. InReach'
  <2>1. \A r \in Players : tradeState[r] # "NONE" =>
           place[r] = "here" /\ place[tradePartner[r]] = "here" /\ tradePartner[r] \in Players
    BY DEF TradeInv, InReach, Mutual
  <2> QED
    BY <1>1, <1>2, <2>1 DEF InReach, items, trades, TradeInv
<1> QED
  BY <1>3, <1>4, <1>5 DEF TradeInv

LEMMA ClickKeeps ==
  ASSUME TradeInv, NEW p \in Players, ClickAccept(p)
  PROVE  TradeInv'
<1>1. /\ tradeItem[p] # None /\ tradeItem[tradePartner[p]] # None /\ tradeState[p] # "ACCEPT"
      /\ clicked' = clicked \cup {p}
      /\ agreed' = [agreed EXCEPT ![p] = <<tradeItem[p], tradeItem[tradePartner[p]]>>]
      /\ UNCHANGED <<items, counts, place, trades, shown, fault>>
  BY DEF ClickAccept
<1>2. /\ agreed' = [r \in Players |-> agreed'[r]]
      /\ \A r \in Players : agreed'[r] = IF r = p THEN <<tradeItem[p], tradeItem[tradePartner[p]]>>
                                         ELSE agreed[r]
  BY <1>1 DEF TradeInv, Histories
<1>3. TypeOK' /\ Counted' /\ Histories'
  BY <1>1, <1>2 DEF TypeOK, items, counts, trades, TradeInv, Counted, Histories
<1>4. Tree(at)' /\ Fits(at)' /\ Mutual' /\ Disjoint' /\ AsShown' /\ InReach'
  BY <1>1 DEF items, trades, TradeInv, Mutual, Disjoint, AsShown, IsHoldingItem,
              Contents, InReach
<1>5. AsAgreed'
  BY <1>1, <1>2 DEF AsAgreed, trades, TradeInv
<1>6. Clicks'
  BY <1>1, <1>2 DEF Clicks, trades, TradeInv, TypeOK
<1>7. Stages'
  <2> SUFFICES ASSUME NEW r \in Players, tradeState[r] # "NONE", tradeItem[r] = None
               PROVE  tradePartner[r] # p
    BY <1>1 DEF Stages, trades, TradeInv
  <2>1. tradePartner[tradePartner[r]] = r
    BY DEF TradeInv, Mutual
  <2> QED
    BY <1>1, <2>1
<1> QED
  BY <1>3, <1>4, <1>5, <1>6, <1>7 DEF TradeInv

(* A request is made by one who has no offer yet, to one who trades with   *)
(* nobody or waits for exactly this offer.                                 *)
LEMMA RequestFits ==
  ASSUME TradeInv, NEW p \in Players, NEW q \in Players, NEW i \in Items,
         PlayerRequestTrade(p, q, i)
  PROVE  /\ p # q /\ tradeItem[p] = None /\ tradeItems[i] = None
         /\ \/ /\ tradeState[p] = "NONE" /\ tradeState[q] = "NONE"
               /\ tradePartner[p] = None /\ tradePartner[q] = None /\ tradeItem[q] = None
            \/ /\ tradeState[p] = "ACKNOWLEDGE" /\ tradePartner[p] = q /\ tradePartner[q] = p
               /\ tradeState[q] = "INITIATED" /\ q \notin clicked
<1>1. p # q /\ MayStart(p, q) /\ ~Overlaps(i)
  BY DEF PlayerRequestTrade, InternalStartTrade
<1>2. tradeItems[i] = None
  BY <1>1 DEF Overlaps
<1>3. \A r \in Players :
        IF tradeState[r] = "NONE"
        THEN tradePartner[r] = None /\ tradeItem[r] = None
        ELSE /\ tradePartner[r] \in Players \ {r} /\ tradePartner[tradePartner[r]] = r
  BY DEF TradeInv, Mutual
<1>4. CASE tradeState[p] = "NONE"
  <2>1. tradePartner[p] = None /\ tradeItem[p] = None
    BY <1>3, <1>4
  <2>2. tradeState[q] = "NONE"
    <3> SUFFICES ASSUME tradeState[q] # "NONE" PROVE FALSE
      OBVIOUS
    <3>1. tradePartner[q] = p /\ tradePartner[tradePartner[q]] = q
      BY <1>1, <1>3 DEF MayStart
    <3> QED
      BY <2>1, <3>1, PlacesApart
  <2> QED
    BY <1>1, <1>2, <1>3, <1>4, <2>1, <2>2
<1>5. CASE tradeState[p] = "ACKNOWLEDGE" /\ tradePartner[p] = q
  <2>1. tradePartner[q] = p
    BY <1>3, <1>5
  <2>2. tradeItem[p] = None
    BY <1>5 DEF TradeInv, Stages
  <2>3. tradeState[q] = "INITIATED" /\ q \notin clicked
    BY <1>5, <2>2 DEF TradeInv, Stages
  <2> QED
    BY <1>1, <1>2, <1>5, <2>1, <2>2, <2>3
<1> QED
  BY <1>1, <1>4, <1>5 DEF MayStart

LEMMA RequestKeeps ==
  ASSUME TradeInv, NEW p \in Players, NEW q \in Players, NEW i \in Items,
         PlayerRequestTrade(p, q, i)
  PROVE  TradeInv'
<1>1. /\ p # q /\ tradeItem[p] = None /\ tradeItems[i] = None
      /\ \/ /\ tradeState[p] = "NONE" /\ tradeState[q] = "NONE"
            /\ tradePartner[p] = None /\ tradePartner[q] = None /\ tradeItem[q] = None
         \/ /\ tradeState[p] = "ACKNOWLEDGE" /\ tradePartner[p] = q /\ tradePartner[q] = p
            /\ tradeState[q] = "INITIATED" /\ q \notin clicked
  BY RequestFits
<1>2. /\ p \notin clicked /\ place[p] = "here" /\ place[q] = "here"
      /\ TopParent(at, i) \in {p, Tile} /\ ~Overlaps(i)
      /\ UNCHANGED <<items, toRelease, place, clicked, agreed, fault>>
  BY DEF PlayerRequestTrade, Reachable
<1>3. /\ refs' = [refs EXCEPT ![i] = @ + 1]
      /\ tradeItems' = [tradeItems EXCEPT ![i] = p]
      /\ tradeItem' = [tradeItem EXCEPT ![p] = i]
      /\ shown' = [shown EXCEPT ![p] = Contents(at, i)]
      /\ tradePartner' = [tradePartner EXCEPT ![p] = q,
                              ![q] = IF tradeState[q] = "NONE" THEN p ELSE @]
      /\ tradeState' = [tradeState EXCEPT ![p] = "INITIATED",
                              ![q] = IF @ = "NONE" THEN "ACKNOWLEDGE" ELSE @]
  BY DEF PlayerRequestTrade, InternalStartTrade
<1>4. /\ \A r \in Players : tradeItem'[r] = IF r = p THEN i ELSE tradeItem[r]
      /\ \A j \in Items : tradeItems'[j] = IF j = i THEN p ELSE tradeItems[j]
      /\ tradePartner'[p] = q /\ tradePartner'[q] = p
      /\ tradeState'[p] = "INITIATED"
      /\ tradeState[q] = "NONE" => tradeState'[q] = "ACKNOWLEDGE"
      /\ tradeState[q] # "NONE" => tradeState'[q] = "INITIATED"
      /\ \A r \in Players \ {p, q} :
           tradePartner'[r] = tradePartner[r] /\ tradeState'[r] = tradeState[r]
  BY <1>1, <1>3 DEF TradeInv, TypeOK
<1>5. /\ shown' = [r \in Players |-> shown'[r]] /\ agreed' = agreed
      /\ \A r \in Players : shown'[r] = IF r = p THEN Contents(at, i) ELSE shown[r]
  BY <1>2, <1>3 DEF TradeInv, Histories
<1>6. TypeOK' /\ Histories'
  <2>1. refs' \in [Items -> Nat]
    <3>1. refs \in [Items -> Nat]
      BY DEF TradeInv, TypeOK
    <3> QED
      BY <1>3, <3>1
  <2>5. tradeItems' \in [Items -> Players \cup {None}]
    <3>1. tradeItems \in [Items -> Players \cup {None}]
      BY DEF TradeInv, TypeOK
    <3> QED
      BY <1>3, <3>1
  <2>4. tradeItem' \in [Players -> Items \cup {None}]
    <3>1. tradeItem \in [Players -> Items \cup {None}]
      BY DEF TradeInv, TypeOK
    <3> QED
      BY <1>3, <3>1
  <2>2. tradePartner' \in [Players -> Players \cup {None}]
    BY <1>3 DEF TradeInv, TypeOK
  <2>3. tradeState' \in [Players -> {"NONE", "INITIATED", "ACKNOWLEDGE", "ACCEPT"}]
    BY <1>3 DEF TradeInv, TypeOK
  <2> QED
    BY <1>2, <1>5, <2>1, <2>2, <2>3, <2>4, <2>5 DEF TypeOK, Histories, TradeInv, items
(* Whoever else trades, trades with neither of the two.                    *)
<1>7. \A r \in Players \ {p, q} : tradePartner[r] # p /\ tradePartner[r] # q
  <2>1. \A r \in Players : tradePartner[r] # None => tradePartner[tradePartner[r]] = r
    BY DEF TradeInv, Mutual
  <2> QED
    BY <1>1, <2>1, PlacesApart
<1>8. Mutual'
  <2> SUFFICES ASSUME NEW r \in Players
               PROVE  /\ IF tradeState'[r] = "NONE"
                         THEN tradePartner'[r] = None /\ tradeItem'[r] = None
                         ELSE /\ tradePartner'[r] \in Players \ {r}
                              /\ tradePartner'[tradePartner'[r]] = r
                      /\ \A j \in Items : tradeItems'[j] = r <=> tradeItem'[r] = j
    BY DEF Mutual
  <2>1. \A j \in Items : tradeItems'[j] = r <=> tradeItem'[r] = j
    BY <1>1, <1>4, PlacesApart DEF TradeInv, Mutual
  <2>2. CASE r \in {p, q}
    BY <1>1, <1>4, <2>1, <2>2
  <2>3. CASE r \notin {p, q}
    <3>1. IF tradeState[r] = "NONE"
          THEN tradePartner[r] = None /\ tradeItem[r] = None
          ELSE tradePartner[r] \in Players \ {r} /\ tradePartner[tradePartner[r]] = r
      BY DEF TradeInv, Mutual
    <3> QED
      BY <1>4, <1>7, <2>1, <2>3, <3>1
  <2> QED
    BY <2>2, <2>3
<1>9. Disjoint'
  <2> SUFFICES ASSUME NEW j \in Items, NEW k \in Items, j # k,
                      tradeItems'[j] # None, tradeItems'[k] # None
               PROVE  j \notin Above(at, k)
    BY <1>2 DEF Disjoint, IsHoldingItem, items
  <2>1. CASE j = i \/ k = i
    BY <1>2, <1>4, <2>1 DEF Overlaps, IsHoldingItem
  <2>2. CASE j # i /\ k # i
    BY <1>4, <2>2 DEF TradeInv, Disjoint, IsHoldingItem
  <2> QED
    BY <2>1, <2>2
<1>10. AsShown'
  BY <1>2, <1>4, <1>5 DEF AsShown, TradeInv, Contents, items
(* A click under way is of a trade with two offers, so not with p.         *)
<1>11. \A r \in Players : r # p /\ tradeItem[r] # None /\ (r \in clicked \/ tradeState[r] = "ACCEPT")
         => /\ r # q /\ tradePartner'[r] = tradePartner[r] /\ tradePartner[r] \in Players \ {p}
            /\ tradeItem'[r] = tradeItem[r] /\ tradeItem'[tradePartner[r]] = tradeItem[tradePartner[r]]
  <2> SUFFICES ASSUME NEW r \in Players, r # p, tradeItem[r] # None,
                      r \in clicked \/ tradeState[r] = "ACCEPT"
               PROVE  r # q /\ tradePartner[r] \in Players \ {p}
    BY <1>4
  <2>1. r # q
    BY <1>1
  <2> QED
    BY <1>7, <2>1, Offering
<1>12. AsAgreed' /\ Clicks'
  <2>1. ASSUME NEW r \in Players, tradeItem'[r] # None, tradeState'[r] = "ACCEPT"
        PROVE  agreed'[r] = <<tradeItem'[r], tradeItem'[tradePartner'[r]]>>
    <3>1. r # p /\ r # q /\ tradeState[r] = "ACCEPT" /\ tradeItem[r] # None
      BY <1>4, <2>1
    <3> QED
      BY <1>5, <1>11, <3>1 DEF TradeInv, AsAgreed
  <2>2. ASSUME NEW r \in clicked, tradeItem'[r] # None
        PROVE  agreed'[r] = <<tradeItem'[r], tradeItem'[tradePartner'[r]]>>
    <3>1. r \in Players /\ r # p /\ tradeItem[r] # None
      BY <1>2, <1>4, <2>2 DEF TradeInv, TypeOK
    <3> QED
      BY <1>5, <1>11, <3>1 DEF TradeInv, Clicks
  <2>3. clicked' = clicked /\ fault' = None
    BY <1>2 DEF TradeInv, AsAgreed
  <2> QED
    BY <2>1, <2>2, <2>3 DEF AsAgreed, Clicks
<1>13. InReach'
  <2> SUFFICES ASSUME NEW r \in Players
               PROVE  /\ tradeState'[r] # "NONE" => place[r] = "here" /\ place[tradePartner'[r]] = "here"
                      /\ tradeItem'[r] # None => TopParent(at, tradeItem'[r]) \in {r, Tile}
    BY <1>2 DEF InReach, items
  <2>1. /\ tradeState[r] # "NONE" => place[r] = "here" /\ place[tradePartner[r]] = "here"
        /\ tradeItem[r] # None => TopParent(at, tradeItem[r]) \in {r, Tile}
    BY DEF TradeInv, InReach
  <2> QED
    BY <1>1, <1>2, <1>4, <2>1
<1>14. Counted'
  <2> SUFFICES ASSUME NEW j \in Items
               PROVE  refs'[j] = (IF at[j] # Gone THEN 1 ELSE 0)
                          + (IF tradeItems'[j] # None THEN 1 ELSE 0) + toRelease[j]
    BY <1>2 DEF Counted, items
  <2>1. refs[j] = (IF at[j] # Gone THEN 1 ELSE 0)
                   + (IF tradeItems[j] # None THEN 1 ELSE 0) + toRelease[j]
        /\ toRelease[j] \in Nat /\ refs[j] \in Nat
    BY DEF TradeInv, Counted, TypeOK
  <2>2. refs'[j] = IF j = i THEN refs[j] + 1 ELSE refs[j]
    BY <1>3 DEF TradeInv, TypeOK
  <2> QED
    BY <1>1, <1>4, <2>1, <2>2, PlacesApart
<1>15. Stages'
  <2> SUFFICES ASSUME NEW r \in Players
               PROVE  /\ tradeState'[r] = "INITIATED" => tradeItem'[r] # None
                      /\ tradeState'[r] = "ACKNOWLEDGE" => tradeItem'[r] = None
                      /\ tradeState'[r] # "NONE" /\ tradeItem'[r] = None =>
                            tradePartner'[r] \notin clicked
                            /\ tradeState'[tradePartner'[r]] = "INITIATED"
    BY <1>2 DEF Stages
  <2>1. /\ tradeState[r] = "INITIATED" => tradeItem[r] # None
        /\ tradeState[r] = "ACKNOWLEDGE" => tradeItem[r] = None
        /\ tradeState[r] # "NONE" /\ tradeItem[r] = None =>
              tradePartner[r] \notin clicked /\ tradeState[tradePartner[r]] = "INITIATED"
    BY DEF TradeInv, Stages
  <2>2. CASE r = p
    BY <1>1, <1>4, <2>2, PlacesApart
  <2>3. CASE r = q
    <3>1. tradeItem'[q] = tradeItem[q]
      BY <1>1, <1>4
    <3> QED
      BY <1>1, <1>2, <1>4, <2>1, <2>3, <3>1
  <2>4. CASE r \notin {p, q}
    <3>1. tradeState[r] # "NONE" => tradePartner[r] \in Players \ {p, q}
      BY <1>7, <2>4 DEF TradeInv, Mutual
    <3> QED
      BY <1>4, <2>1, <2>4, <3>1
  <2> QED
    BY <2>2, <2>3, <2>4
<1> QED
  BY <1>2, <1>6, <1>8, <1>9, <1>10, <1>12, <1>13, <1>14, <1>15 DEF TradeInv, items

-----------------------------------------------------------------------------
(* playerAcceptTrade that comes too late, or that is the first of the two. *)
LEMMA LateKeeps ==
  ASSUME TradeInv, NEW p \in Players, clicked' = clicked \ {p},
         agreed' = [agreed EXCEPT ![p] = IF tradeState[p] = "NONE" THEN <<>> ELSE @],
         UNCHANGED <<items, counts, trades, shown, fault, place>>
  PROVE  TradeInv'
<1>1. /\ agreed' = [r \in Players |-> agreed'[r]]
      /\ \A r \in Players : tradeState[r] # "NONE" => agreed'[r] = agreed[r]
  BY DEF TradeInv, Histories
<1>2. TypeOK' /\ Counted' /\ Histories'
  BY <1>1 DEF TypeOK, items, counts, trades, TradeInv, Counted, Histories
<1>3. Tree(at)' /\ Fits(at)' /\ Mutual' /\ Disjoint' /\ AsShown' /\ InReach' /\ Stages'
  BY DEF items, trades, TradeInv, Mutual, Disjoint, AsShown, IsHoldingItem,
         Contents, InReach, Stages
<1>4. AsAgreed'
  BY <1>1 DEF AsAgreed, trades, TradeInv
<1>5. Clicks'
  <2> SUFFICES ASSUME NEW r \in clicked, tradeItem[r] # None
               PROVE  agreed'[r] = <<tradeItem[r], tradeItem[tradePartner[r]]>>
    BY DEF Clicks, trades
  <2>1. r \in Players
    BY DEF TradeInv, TypeOK
  <2>2. tradeState[r] # "NONE"
    BY <2>1, Offering
  <2> QED
    BY <1>1, <2>1, <2>2 DEF TradeInv, Clicks
<1> QED
  BY <1>2, <1>3, <1>4, <1>5 DEF TradeInv

LEMMA FirstKeeps ==
  ASSUME TradeInv, NEW p \in clicked, clicked' = clicked \ {p},
         tradeState[p] \in {"ACKNOWLEDGE", "INITIATED"},
         tradeState' = [tradeState EXCEPT ![p] = "ACCEPT"],
         UNCHANGED <<items, counts, tradePartner, tradeItem, tradeItems, shown,
                     agreed, fault, place>>
  PROVE  TradeInv'
<1>1. /\ p \in Players /\ tradeState'[p] = "ACCEPT" /\ tradeState[p] # "NONE"
      /\ \A r \in Players : r # p => tradeState'[r] = tradeState[r]
  BY DEF TradeInv, TypeOK
<1>2. TypeOK' /\ Counted' /\ Histories'
  BY <1>1 DEF TypeOK, items, counts, TradeInv, Counted, Histories
<1>3. Tree(at)' /\ Fits(at)' /\ Disjoint' /\ AsShown'
  BY DEF items, TradeInv, Disjoint, AsShown, IsHoldingItem, Contents
<1>4. Mutual'
  BY <1>1 DEF TradeInv, Mutual
<1>5. InReach'
  BY <1>1 DEF TradeInv, InReach, items
<1>6. AsAgreed' /\ Clicks'
  BY <1>1 DEF TradeInv, AsAgreed, Clicks
<1>7. Stages'
  <2> SUFFICES ASSUME NEW r \in Players, tradeState'[r] # "NONE"
               PROVE  /\ tradeState'[r] = "INITIATED" => tradeItem[r] # None
                      /\ tradeState'[r] = "ACKNOWLEDGE" => tradeItem[r] = None
                      /\ tradeItem[r] = None => tradePartner[r] \notin clicked'
                            /\ tradeState'[tradePartner[r]] = "INITIATED"
    BY DEF Stages
  <2>1. /\ tradeState[r] # "NONE" /\ tradePartner[r] \in Players \ {r}
        /\ tradePartner[tradePartner[r]] = r
    BY <1>1 DEF TradeInv, Mutual
  <2>2. /\ tradeState[r] = "INITIATED" => tradeItem[r] # None
        /\ tradeState[r] = "ACKNOWLEDGE" => tradeItem[r] = None
        /\ tradeItem[r] = None =>
              tradePartner[r] \notin clicked /\ tradeState[tradePartner[r]] = "INITIATED"
    BY <2>1 DEF TradeInv, Stages
  <2> QED
    BY <1>1, <2>1, <2>2
<1> QED
  BY <1>2, <1>3, <1>4, <1>5, <1>6, <1>7 DEF TradeInv

-----------------------------------------------------------------------------
(* Where a destination of player p lies, and what is moved there.          *)
On(l, p, d) == (d \in Slots(p) /\ d \notin Bags) \/ (d \in Bags /\ TopParent(l, d) = p)

LEMMA DestinationIs ==
  ASSUME NEW l, Tree(l), NEW p \in Players, NEW i \in Items, NEW d \in Destinations(l, p, i)
  PROVE  /\ HasRoom(l, d, i) /\ Legal(l, i, d)
         /\ On(l, p, d)
         /\ TopParent([l EXCEPT ![i] = d], i) = p
<1>1. /\ HasRoom(l, d, i)
      /\ d \in Slots(p) \/ (d \in Bags /\ TopParent(l, d) = p)
  BY DEF Destinations, FreeSlots, Visited
<1>2. (d \in Slots(p) /\ d \notin Bags) \/ (d \in Bags /\ TopParent(l, d) = p)
  BY <1>1, PlacesApart
<1>3. Legal(l, i, d)
  BY <1>1, RoomIsLegal
<1> DEFINE m == [l EXCEPT ![i] = d]
<1>4. Tree(m) /\ m[i] = d
  <2>1. m[i] = d
    BY DEF Tree
  <2> QED
    BY <1>3, <2>1, MovedTree
<1>5. d \in Bags => TopParent(m, d) = TopParent(l, d)
  <2> SUFFICES ASSUME d \in Bags PROVE TopParent(m, d) = TopParent(l, d)
    OBVIOUS
  <2>1. d # i /\ i \notin Above(l, d) /\ d \in Items
    BY <1>3, ItemsAssumption DEF Legal
  <2>2. Above(m, d) = Above(l, d)
    BY <2>1, OthersStay
  <2> HIDE DEF m
  <2> QED
    BY <1>4, <2>1, <2>2, TopSame
<1>6. TopParent(m, i) = p
  <2> HIDE DEF m
  <2>1. CASE d \in Slots(p) /\ d \notin Bags
    BY <1>4, <2>1, TopType, PlacesApart
  <2>2. CASE d \in Bags /\ TopParent(l, d) = p
    BY <1>4, <1>5, <2>2, TopType
  <2> QED
    BY <1>2, <2>1, <2>2
<1> QED
  BY <1>1, <1>2, <1>3, <1>6 DEF On

(* The room that was tested for the second offer is there after the first  *)
(* has moved, or there is other room: where the first offer lay.           *)
LEMMA RoomStays ==
  ASSUME NEW l, Tree(l), Fits(l), NEW p \in Players, NEW q \in Players \ {p},
         NEW mine \in Items, NEW theirs \in Items \ {mine}, tradeItem[p] = mine,
         theirs \notin Above(l, mine),
         NEW d \in Destinations(l, q, mine), Destinations(l, p, theirs) # {}
  PROVE  Destinations([l EXCEPT ![mine] = d], p, theirs) # {}
<1> DEFINE m == [l EXCEPT ![mine] = d]
<1>1. /\ Legal(l, mine, d)
      /\ (d \in Slots(q) /\ d \notin Bags) \/ (d \in Bags /\ TopParent(l, d) = q)
  <2>1. q \in Players
    OBVIOUS
  <2> HIDE DEF m
  <2>2. Legal(l, mine, d) /\ On(l, q, d)
    BY <2>1, DestinationIs
  <2> QED
    BY <2>2 DEF On
<1> SUFFICES Destinations(m, p, theirs) # {}
  OBVIOUS
<1>2. Tree(m) /\ m[mine] = d /\ \A j \in Items : j # mine => m[j] = l[j]
  <2>1. m[mine] = d /\ \A j \in Items : j # mine => m[j] = l[j]
    BY DEF Tree
  <2> QED
    BY <1>1, <2>1, MovedTree
<1>3. \A j \in Items : j # mine /\ mine \notin Above(l, j) =>
         Above(m, j) = Above(l, j)
  BY OthersStay
<1> HIDE DEF m
<1>4. \A j \in Items : j # mine /\ mine \notin Above(l, j) =>
         TopParent(m, j) = TopParent(l, j)
  BY <1>2, <1>3, TopSame
(* A bag of p that lies outside both offers, with room, is a destination.  *)
<1>5. ASSUME NEW h \in Bags, TopParent(l, h) = p, h \notin {mine, theirs},
             mine \notin Above(l, h), theirs \notin Above(l, h),
             Cardinality(Children(m, h)) < BagSize
      PROVE  Destinations(m, p, theirs) # {}
  <2>1. h \in Items /\ Above(m, h) = Above(l, h) /\ TopParent(m, h) = p
    BY <1>3, <1>4, <1>5, ItemsAssumption
  <2>2. HasRoom(m, h, theirs)
    BY <1>5, <2>1 DEF HasRoom
  <2>3. InSlot(m, {tradeItem[p], theirs}) \subseteq {mine, theirs}
    BY DEF InSlot
  <2>4. h \in Visited(m, p, InSlot(m, {tradeItem[p], theirs}))
    BY <1>5, <2>1, <2>3 DEF Visited, IsHoldingItem
  <2> QED
    BY <2>2, <2>4 DEF Destinations
<1>6. CASE FreeSlots(l, p, theirs) # {}
  <2>1. PICK s \in Slots(p) : HasRoom(l, s, theirs)
    BY <1>6 DEF FreeSlots
  <2>2. s \in AllSlots /\ s # Tile /\ s \notin Bags
    BY PlacesApart
  <2>3. Children(l, s) = {} /\ (s[2] = "back" => theirs \in Bags)
    BY <2>1, <2>2 DEF HasRoom
  <2>4. s # d
    BY <1>1, <2>2, PlacesApart
  <2>5. Children(m, s) = {}
    BY <1>2, <2>3, <2>4 DEF Children
  <2>6. s \in FreeSlots(m, p, theirs)
    BY <2>2, <2>3, <2>5 DEF FreeSlots, HasRoom
  <2> QED
    BY <2>6 DEF Destinations
<1>7. CASE FreeSlots(l, p, theirs) = {}
  <2>1. PICK h \in Visited(l, p, InSlot(l, {tradeItem[p], theirs})) : HasRoom(l, h, theirs)
    BY <1>7 DEF Destinations
  <2>2. h \in Bags /\ h \in Items /\ TopParent(l, h) = p
    BY <2>1, ItemsAssumption DEF Visited
  <2>3. theirs # h /\ theirs \notin Above(l, h) /\ Cardinality(Children(l, h)) < BagSize
    BY <2>1, <2>2, PlacesApart DEF HasRoom
  <2>4. CASE h # mine /\ mine \notin Above(l, h)
    <3>1. d # h
      BY <1>1, <2>2
    <3>2. Children(m, h) \subseteq Children(l, h)
      BY <1>2, <3>1 DEF Children
    <3>3. IsFiniteSet(Children(l, h)) /\ Cardinality(Children(l, h)) \in Nat
      BY ItemsAssumption, FS_Subset, FS_CardinalityType DEF Children
    <3>4. Cardinality(Children(m, h)) < BagSize
      BY <2>3, <3>2, <3>3, FS_Subset, FS_CardinalityType, ItemsAssumption
    <3> QED
      BY <1>5, <2>2, <2>3, <2>4, <3>4
  <2>5. CASE h = mine \/ mine \in Above(l, h)
    <3>1. mine \notin InSlot(l, {tradeItem[p], theirs}) /\ TopParent(l, mine) = p
      <4>1. mine \notin InSlot(l, {tradeItem[p], theirs})
        BY <2>1, <2>5 DEF Visited, IsHoldingItem
      <4>2. mine \in Above(l, h) => mine \in Bags
        BY <2>2, PlacesApart DEF Tree, Where
      <4> QED
        BY <2>2, <2>5, <4>1, <4>2, TopInside
    <3>2. l[mine] \notin AllSlots /\ l[mine] \in Where
      BY <3>1 DEF InSlot, Tree
    <3>3. l[mine] \in Bags
      <4>1. l[mine] \notin {Tile, Gone}
        BY <3>1, TopType, PlacesApart
      <4> QED
        BY <3>2, <4>1 DEF Where
    <3> DEFINE u1 == l[mine]
    <3>4. u1 \in Items /\ TopParent(l, u1) = p /\ Above(l, mine) = {u1} \cup Above(l, u1)
      BY <3>1, <3>3, TopType, AboveStep, ItemsAssumption
    <3>5. u1 \notin {mine, theirs} /\ mine \notin Above(l, u1) /\ theirs \notin Above(l, u1)
      BY <3>4 DEF Tree
    <3>6. d # u1
      BY <1>1, <3>3, <3>4
    <3> HIDE DEF u1
    <3>7. Children(m, u1) = Children(l, u1) \ {mine} /\ mine \in Children(l, u1)
      BY <1>2, <3>6 DEF Children, u1
    <3>8. IsFiniteSet(Children(l, u1)) /\ Cardinality(Children(l, u1)) \in Nat
      BY ItemsAssumption, FS_Subset, FS_CardinalityType DEF Children
    <3>9. Cardinality(Children(m, u1)) < BagSize
      <4>1. Cardinality(Children(l, u1)) <= BagSize
        BY <3>3 DEF Fits, u1
      <4> DEFINE C == Children(l, u1)
      <4>2. IsFiniteSet(C) /\ Cardinality(C) \in Nat /\ mine \in C
        BY <3>7, <3>8
      <4> HIDE DEF C
      <4>3. Cardinality(C \ {mine}) = Cardinality(C) - 1
        BY <4>2, FS_RemoveElement
      <4> QED
        BY <3>7, <4>1, <4>2, <4>3, ItemsAssumption DEF C
    <3> QED
      BY <1>5, <3>3, <3>4, <3>5, <3>9 DEF u1
  <2> QED
    BY <2>4, <2>5
<1> QED
  BY <1>6, <1>7

(* m is l after item i has been put at a destination d of player p.        *)
Put(l, p, i, d, m) ==
    /\ Tree(l) /\ Fits(l) /\ p \in Players /\ i \in Items /\ d \in Destinations(l, p, i)
    /\ m = [l EXCEPT ![i] = d]

LEMMA PutIs ==
  ASSUME NEW l, NEW p, NEW i, NEW d, NEW m, Put(l, p, i, d, m)
  PROVE  /\ Tree(m) /\ Fits(m) /\ Legal(l, i, d) /\ d # Gone
         /\ TopParent(m, i) = p
         /\ Above(m, i) = {d} \cup (IF d \in Bags THEN Above(l, d) ELSE {})
         /\ \A j \in Items : m[j] = IF j = i THEN d ELSE l[j]
         /\ \A j \in Items : j # i /\ i \notin Above(l, j) => Above(m, j) = Above(l, j)
<1>1. Tree(l) /\ Fits(l) /\ p \in Players /\ i \in Items /\ d \in Destinations(l, p, i)
  BY DEF Put
<1>2. HasRoom(l, d, i) /\ Legal(l, i, d) /\ d # Gone
      /\ (d \in Bags => Cardinality(Children(l, d)) < BagSize)
  BY <1>1, DestinationIs, RoomIsLegal
<1> DEFINE n == [l EXCEPT ![i] = d]
<1>3. Tree(n) /\ Fits(n)
  BY <1>1, <1>2, MovedTree, MovedFits
<1>4. TopParent(n, i) = p
  BY <1>1, DestinationIs
<1>5. Above(n, i) = {d} \cup (IF d \in Bags THEN Above(l, d) ELSE {})
  BY <1>1, <1>2, MovedLies
<1>6. \A j \in Items : n[j] = IF j = i THEN d ELSE l[j]
  BY <1>1 DEF Tree
<1>7. \A j \in Items : j # i /\ i \notin Above(l, j) => Above(n, j) = Above(l, j)
  BY <1>1, OthersStay
<1>8. m = n
  BY DEF Put
<1> HIDE DEF n
<1> QED
  BY <1>2, <1>3, <1>4, <1>5, <1>6, <1>7, <1>8

(* The two moves of a completed trade, for the places alone: from at by    *)
(* l to l2.                                                                *)
Exchanged(p, q, mine, theirs, d, l, l2) ==
    /\ Tree(l) /\ Tree(l2) /\ Fits(l2) /\ Legal(at, mine, d)
    /\ l2 = l \/ (l2 = [l EXCEPT ![theirs] = l2[theirs]] /\ Legal(l, theirs, l2[theirs]))
    /\ \A j \in Items : l2[j] = Gone <=> at[j] = Gone
    /\ Destinations(at, p, theirs) # {} => TopParent(l2, mine) = q /\ TopParent(l2, theirs) = p

LEMMA BothMove ==
  ASSUME TradeInv, NEW p \in Players, NEW q \in Players \ {p},
         NEW mine \in Items, NEW theirs \in Items \ {mine}, tradeItem[p] = mine,
         theirs \notin Above(at, mine), TopParent(at, mine) # Gone, TopParent(at, theirs) # Gone,
         NEW d, ~Within(at, theirs, d), NEW l, NEW l2,
         Put(at, q, mine, d, l), SecondMove(l, p, theirs, l2)
  PROVE  Exchanged(p, q, mine, theirs, d, l, l2)
<1>1. /\ q \in Players /\ Tree(at) /\ Fits(at)
      /\ at[mine] # Gone /\ at[theirs] # Gone
  BY TopType DEF TradeInv
<1>2. /\ Tree(l) /\ Fits(l) /\ Legal(at, mine, d) /\ d # Gone
      /\ TopParent(l, mine) = q
      /\ Above(l, mine) = {d} \cup (IF d \in Bags THEN Above(at, d) ELSE {})
      /\ \A j \in Items : l[j] = IF j = mine THEN d ELSE at[j]
  BY PutIs
<1>3. theirs \notin Above(l, mine)
  BY <1>2 DEF Within, IsHoldingItem
<1>4. ASSUME NEW e, Put(l, p, theirs, e, l2)
      PROVE  Exchanged(p, q, mine, theirs, d, l, l2)
  <2>1. /\ Tree(l2) /\ Fits(l2) /\ Legal(l, theirs, e) /\ e # Gone
        /\ TopParent(l2, theirs) = p
        /\ \A j \in Items : l2[j] = IF j = theirs THEN e ELSE l[j]
        /\ \A j \in Items : j # theirs /\ theirs \notin Above(l, j) => Above(l2, j) = Above(l, j)
    BY <1>4, PutIs
  <2>2. TopParent(l2, mine) = q
    BY <1>2, <1>3, <2>1, TopSame
  <2>3. l2[theirs] = e /\ l2 = [l EXCEPT ![theirs] = l2[theirs]]
    BY <1>4, <2>1 DEF Put
  <2>4. \A j \in Items : l2[j] = Gone <=> at[j] = Gone
    BY <1>1, <1>2, <2>1
  <2> QED
    BY <1>2, <2>1, <2>2, <2>3, <2>4 DEF Exchanged
<1>5. CASE Destinations(l, p, theirs) = {}
  <2>1. l2 = l
    BY <1>5 DEF SecondMove
  <2>2. Destinations(at, p, theirs) = {}
    BY <1>1, <1>5, RoomStays DEF Put
  <2>3. \A j \in Items : l[j] = Gone <=> at[j] = Gone
    BY <1>1, <1>2
  <2> QED
    BY <1>2, <2>1, <2>2, <2>3 DEF Exchanged
<1>6. CASE Destinations(l, p, theirs) # {}
  <2>1. PICK e \in Destinations(l, p, theirs) : l2 = [l EXCEPT ![theirs] = e]
    BY <1>6 DEF SecondMove
  <2>2. Put(l, p, theirs, e, l2)
    BY <1>2, <2>1 DEF Put
  <2> QED
    BY <1>4, <2>2
<1> QED
  BY <1>5, <1>6

LEMMA TransferKeeps ==
  ASSUME TradeInv, NEW p \in Players, NEW q \in Players, q = tradePartner[p],
         tradeItem[p] # None, tradeItem[q] # None, Transfer(p, q),
         clicked' = clicked \ {p}, UNCHANGED <<amount, refs, place>>
  PROVE  TradeInv'
<1> DEFINE mine == tradeItem[p]
           theirs == tradeItem[q]
           first == FirstMoves(p, q, mine, theirs)
<1>1. /\ p # q /\ mine \in Items /\ theirs \in Items /\ mine # theirs
      /\ theirs \notin Above(at, mine)
      /\ TopParent(at, mine) # Gone /\ TopParent(at, theirs) # Gone
  <2>1. /\ p # q /\ mine \in Items /\ theirs \in Items
        /\ TopParent(at, mine) # Gone /\ TopParent(at, theirs) # Gone
    BY Offering, PlacesApart
  <2>2. tradeItems[mine] = p /\ tradeItems[theirs] = q
    BY <2>1 DEF TradeInv, Mutual
  <2>3. mine # theirs
    BY <2>1, <2>2
  <2>4. theirs \notin Above(at, mine)
    BY <2>1, <2>2, <2>3, PlacesApart DEF TradeInv, Disjoint, IsHoldingItem
  <2> QED
    BY <2>1, <2>3, <2>4
<1>2. CASE CloseTrades({p}, {}) /\ UNCHANGED <<at, fault>>
  <2>1. \A r \in Players \ Parties({p}) : tradeState[r] # "NONE" => place'[r] = "here"
    BY DEF TradeInv, InReach
  <2>2. place' \in [Players -> {"here", "away", "offline"}]
    BY DEF TradeInv, TypeOK
  <2> QED
    BY <1>2, <2>1, <2>2, StillKeeps DEF items
<1>3. ASSUME NEW d \in first, ~Within(at, theirs, d), NEW l, l = [at EXCEPT ![mine] = d],
             SecondMove(l, p, theirs, at'),
             fault' = IF \/ TopParent(at', mine) = q /\ TopParent(at', theirs) = p
                         \/ theirs \in Stacks
                      THEN fault ELSE "half",
             CloseTrades({p} \cup ClosedByMove(at, mine, d)
                             \cup (IF at' = l THEN {} ELSE ClosedByMove(l, theirs, at'[theirs])), {})
      PROVE  TradeInv'
  <2>1. d \in Destinations(at, q, mine) /\ TestAdd(at, p, theirs)
    BY <1>3 DEF FirstMoves
  <2>2. /\ Tree(l) /\ Tree(at') /\ Fits(at') /\ Legal(at, mine, d) /\ Tree(at)
        /\ at' = l \/ (at' = [l EXCEPT ![theirs] = at'[theirs]] /\ Legal(l, theirs, at'[theirs]))
        /\ \A j \in Items : at'[j] = Gone <=> at[j] = Gone
        /\ Destinations(at, p, theirs) # {} => TopParent(at', mine) = q /\ TopParent(at', theirs) = p
    <3> HIDE DEF mine, theirs
    <3>1. tradeItem[p] = mine
      BY DEF mine
    <3>2. Put(at, q, mine, d, l)
      BY <1>1, <1>3, <2>1 DEF Put, TradeInv
    <3>3. Exchanged(p, q, mine, theirs, d, l, at')
      BY <1>1, <1>3, <3>1, <3>2, BothMove
    <3> QED
      BY <3>3 DEF Exchanged, TradeInv
  <2>3. fault' = None
    BY <1>3, <2>1, <2>2 DEF TestAdd, TradeInv, AsAgreed
  <2> DEFINE S2 == IF at' = l THEN {} ELSE ClosedByMove(l, theirs, at'[theirs])
             S == {p} \cup ClosedByMove(at, mine, d) \cup S2
  <2>4. S \in SUBSET Players
    BY <1>1, <2>2, ClosedPlayers
  <2>5. ASSUME NEW r \in Players \ Parties(S), tradeItem[r] # None
        PROVE  SameOffer(at, at', tradeItem[r])
    <3>1. r \notin ClosedByMove(at, mine, d) /\ r \notin S2
      BY <2>5 DEF Parties
    <3>2. tradeItem[r] \in Items /\ place[r] = "here" /\ TopParent(at, tradeItem[r]) \in {r, Tile}
      BY <2>5, Offering
    <3>3. SameOffer(at, l, tradeItem[r])
      BY <1>1, <1>3, <2>2, <3>1, <3>2, UnclosedMove
    <3>4. TopParent(l, tradeItem[r]) \in {r, Tile}
      BY <3>2, <3>3 DEF SameOffer
    <3>5. SameOffer(l, at', tradeItem[r])
      <4>1. CASE at' = l
        BY <4>1, SameAt
      <4>2. CASE at' # l
        BY <1>1, <2>2, <3>1, <3>2, <3>4, <4>2, UnclosedMove
      <4> QED
        BY <4>1, <4>2
    <3> QED
      BY <3>3, <3>5, SameOfferTwice
  <2>6. CloseTrades(S, {})
    BY <1>3
  <2> HIDE DEF S
  <2>7. Disturbs(S, {})
    BY <2>2, <2>3, <2>5 DEF Disturbs, TradeInv, TypeOK, InReach
  <2> QED
    BY <2>4, <2>6, <2>7, ClosingKeeps
<1> QED
  BY <1>2, <1>3 DEF Transfer

LEMMA AcceptingKeeps ==
  ASSUME TradeInv, NEW p \in Players, PlayerAcceptTrade(p)
  PROVE  TradeInv'
<1>1. p \in clicked /\ clicked' = clicked \ {p} /\ UNCHANGED place
  BY DEF PlayerAcceptTrade
<1>2. CASE tradeState[p] \notin {"ACKNOWLEDGE", "INITIATED"} \/ tradePartner[p] = None
  BY <1>1, <1>2, LateKeeps DEF PlayerAcceptTrade
<1> DEFINE q == tradePartner[p]
<1>3. CASE ~(tradeState[p] \notin {"ACKNOWLEDGE", "INITIATED"} \/ q = None) /\ tradeState[q] # "ACCEPT"
  BY <1>1, <1>3, FirstKeeps DEF PlayerAcceptTrade
<1>4. CASE ~(tradeState[p] \notin {"ACKNOWLEDGE", "INITIATED"} \/ q = None) /\ tradeState[q] = "ACCEPT"
  <2>1. Complete(p, q) /\ UNCHANGED <<amount, refs>>
    BY <1>4 DEF PlayerAcceptTrade
  <2>2. q \in Players /\ tradePartner[q] = p /\ tradeState[p] # "NONE"
    BY <1>4 DEF TradeInv, Mutual
  <2>3. tradeItem[p] # None /\ tradeItem[q] # None
    BY <1>1, <1>4, <2>2 DEF TradeInv, Stages
  <2>4. CASE CloseTrades({p}, {}) /\ UNCHANGED <<at, fault>>
    <3>1. \A r \in Players \ Parties({p}) : tradeState[r] # "NONE" => place'[r] = "here"
      BY <1>1 DEF TradeInv, InReach
    <3>2. place' \in [Players -> {"here", "away", "offline"}]
      BY <1>1 DEF TradeInv, TypeOK
    <3> QED
      BY <1>1, <2>1, <2>4, <3>1, <3>2, StillKeeps DEF items
  <2>5. CASE Transfer(p, q)
    BY <1>1, <2>1, <2>2, <2>3, <2>5, TransferKeeps
  <2> QED
    BY <2>1, <2>3, <2>4, <2>5 DEF Complete
<1> QED
  BY <1>2, <1>3, <1>4

-----------------------------------------------------------------------------
LEMMA TradeInit ==
  ASSUME Init
  PROVE  TradeInv
<1>1. /\ at \in [Items -> AllSlots \cup {Tile}]
      /\ amount = [i \in Items |-> IF i \in Stacks THEN StackSize ELSE 1]
      /\ refs = [i \in Items |-> 1] /\ toRelease = [i \in Items |-> 0]
      /\ place = [p \in Players |-> "here"] /\ tradeState = [p \in Players |-> "NONE"]
      /\ tradePartner = [p \in Players |-> None] /\ tradeItem = [p \in Players |-> None]
      /\ tradeItems = [i \in Items |-> None] /\ clicked = {}
      /\ shown = [p \in Players |-> {}] /\ agreed = [p \in Players |-> <<>>] /\ fault = None
  BY DEF Init
<1>2. \A i \in Items : at[i] \in Where \ Bags /\ at[i] # Gone
  BY <1>1, PlacesApart DEF Where
<1>3. Tree(at)
  <2>1. \A i \in Items : Above(at, i) = {at[i]}
    BY <1>2, AboveStep
  <2>2. at \in [Items -> Where]
    BY <1>1, <1>2
  <2>3. \A i \in Items : i \notin Above(at, i)
    BY <1>2, <2>1, PlacesApart DEF Where
  <2>4. ASSUME NEW i \in Items PROVE \E t \in Where \ Bags : Above(at, i) \ Bags = {t}
    <3>1. Above(at, i) \ Bags = {at[i]}
      BY <1>2, <2>1
    <3> QED
      BY <1>2, <3>1
  <2> QED
    BY <2>2, <2>3, <2>4 DEF Tree
<1>4. Fits(at)
  <2> SUFFICES ASSUME NEW h \in Bags PROVE Cardinality(Children(at, h)) <= BagSize
    BY DEF Fits
  <2>1. Children(at, h) = {}
    BY <1>2 DEF Children
  <2> QED
    BY <2>1, FS_EmptySet, ItemsAssumption
<1>5. TypeOK
  <2>1. amount \in [Items -> 1..StackSize]
    BY <1>1, ItemsAssumption
  <2> QED
    BY <1>1, <1>3, <2>1 DEF TypeOK, Tree
<1>6. Mutual
  BY <1>1, PlacesApart DEF Mutual
<1>7. Counted
  BY <1>1, <1>2 DEF Counted
<1>8. Disjoint /\ AsShown /\ AsAgreed /\ InReach /\ Stages /\ Clicks /\ Histories
  BY <1>1 DEF Disjoint, AsShown, AsAgreed, InReach, Stages, Clicks, Histories
<1> QED
  BY <1>3, <1>4, <1>5, <1>6, <1>7, <1>8 DEF TradeInv

LEMMA TradeStutter ==
  ASSUME TradeInv, UNCHANGED vars
  PROVE  TradeInv'
<1>1. TypeOK' /\ Counted' /\ Histories'
  BY DEF TypeOK, vars, items, counts, trades, client, TradeInv, Counted, Histories
<1>2. /\ Tree(at)' /\ Fits(at)' /\ Mutual' /\ Disjoint' /\ AsShown' /\ AsAgreed'
      /\ Stages' /\ Clicks'
  BY DEF vars, items, trades, client, TradeInv, Mutual, Disjoint, AsShown, AsAgreed,
         Stages, Clicks, IsHoldingItem, Contents
<1>3. InReach'
  BY DEF InReach, vars, items, trades, TradeInv
<1> QED
  BY <1>1, <1>2, <1>3 DEF TradeInv

LEMMA TradeStep ==
  ASSUME TradeInv, [MCNext]_<<vars, venue, marketState>>
  PROVE  TradeInv'
<1>1. CASE UNCHANGED vars
  BY <1>1, TradeStutter
<1>2. CASE Next
  BY <1>2, MoveKeeps, RequestKeeps, ClickKeeps, AcceptingKeeps, CloseKeeps, WalkKeeps,
     LogoutKeeps, LoginKeeps, UseKeeps, RemoveKeeps, CleanupKeeps DEF Next
<1> QED
  BY <1>1, <1>2 DEF MCNext

LEMMA TradeKept == MCSpec => []TradeInv
<1>1. MCInit => TradeInv
  BY TradeInit DEF MCInit
<1>2. TradeInv /\ [MCNext]_<<vars, venue, marketState>> => TradeInv'
  BY TradeStep
<1> QED
  BY <1>1, <1>2, PTL DEF MCSpec

(* Two traders name each other and what they offer, no two offers overlap, *)
(* traders and offers are in reach and every item has the references it    *)
(* should, whatever moves, walks, logouts and clicks come in between       *)
(* (internalStartTrade and internalCloseTrade, game.cpp:2679 and 2903).    *)
THEOREM OffersStayAgreed == MCSpec => []OffersAgree
<1>1. TradeInv => OffersAgree
  BY DEF TradeInv, OffersAgree, Agreement, Tangible
<1> QED
  BY <1>1, TradeKept, PTL

(* An offer is what both windows listed, a player who has accepted clicked *)
(* for exactly the two offers there are, and no trade that both accepted   *)
(* is done by half but for the stack (playerAcceptTrade, game.cpp:2714).   *)
THEOREM NobodyIsSurprised == MCSpec => []NoSurprise
<1>1. TradeInv => NoSurprise
  BY DEF TradeInv, NoSurprise
<1> QED
  BY <1>1, TradeKept, PTL
=============================================================================
