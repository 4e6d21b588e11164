------------------------- MODULE MCClientView_proofs -------------------------
(***************************************************************************)
(* The windows of a player show what is in the containers he has open,     *)
(* and those are within his reach.  What things lie in is a forest, of     *)
(* which a move takes a branch; whatever is open outside of the branch     *)
(* stays where it was, and what is inside of it is closed unless all of it *)
(* is still within reach.                                                  *)
(***************************************************************************)
EXTENDS MCClientView, CollectionFacts

Things == Bags \cup Plain
Grounds == {W!Tile(p) : p \in Tiles} \cup {W!Mine, W!Theirs, W!Nowhere}

(* What a thing lies in is meant as in the facts about nesting.            *)
LEMMA SameOver == \A B, up, i : W!Over(B, up, i) = Over(B, up, i)
BY DEF W!Over, W!BagsOver, W!HasParents, Over, BagsOver, HasParents

LEMMA Apart ==
  /\ Bags \subseteq Things /\ Plain \subseteq Things /\ Grounds \cap Things = {}
  /\ Grounds \cap Bags = {} /\ W!None \notin Things /\ W!None \notin Bags
  /\ W!Mine \in Grounds /\ W!Theirs \in Grounds /\ W!Nowhere \in Grounds
  /\ W!Theirs # W!Nowhere /\ W!Mine # W!Nowhere /\ W!Mine # W!Theirs
  /\ \A p \in Tiles : W!Tile(p) \in Grounds /\ W!Tile(p)[2] \in Int
  /\ \A g \in Grounds : g[2] \in Int
<1>1. \A p \in Tiles : W!Tile(p)[2] \in Int
  BY WindowsAssumption DEF W!Tile
<1>2. W!Mine[2] \in Int /\ W!Theirs[2] \in Int /\ W!Nowhere[2] \in Int
  BY DEF W!Mine, W!Theirs, W!Nowhere
<1>3. W!Theirs # W!Nowhere /\ W!Mine # W!Nowhere /\ W!Mine # W!Theirs
  BY DEF W!Mine, W!Theirs, W!Nowhere
<1> QED
  BY <1>1, <1>2, <1>3, WindowsAssumption, Zenon DEF Things, Grounds

LEMMA SizeIs == \A b \in Bags : MCSize[b] \in Nat /\ MCSize[b] >= 1
BY DEF MCSize

-----------------------------------------------------------------------------
(* The states the operators work on.                                       *)
Seens == Things \X Int

Shape(s) ==
    /\ s = [parent |-> s.parent, list |-> s.list, look |-> s.look, at |-> s.at,
            open |-> s.open, window |-> s.window]
    /\ s.parent \in [Things -> Grounds \cup Bags]
    /\ s.list \in [Bags -> Seq(Things)]
    /\ s.look \in [Things -> Int]
    /\ s.at \in Int
    /\ s.open \in [Cids -> [bag : Bags \cup {W!None}, index : Nat]]
    /\ s.window = [cid \in Cids |-> s.window[cid]]

Smaller(m, n) == IF m < n THEN m ELSE n

(* A piece of a list.                                                      *)
LEMMA SliceIs ==
  ASSUME NEW S, NEW l \in Seq(S), NEW k \in 0..Len(l), NEW n \in Nat
  PROVE  /\ W!Slice(l, k, n) \in Seq(S)
         /\ Len(W!Slice(l, k, n)) = Smaller(n, Len(l) - k)
         /\ \A j \in 1..Smaller(n, Len(l) - k) : W!Slice(l, k, n)[j] = l[k + j]
<1> DEFINE last == IF k + n < Len(l) THEN k + n ELSE Len(l)
<1>0. Len(l) \in Nat
  OBVIOUS
<1>1. last \in Int /\ k + 1 \in Int /\ \A j \in (k + 1)..last : l[j] \in S
  BY <1>0, ElementOfSeq
<1>2. last - (k + 1) + 1 = Smaller(n, Len(l) - k)
  BY <1>0 DEF Smaller
<1>3. W!Slice(l, k, n) = SubSeq(l, k + 1, last)
  BY DEF W!Slice
<1>3a. Smaller(n, Len(l) - k) \in Nat /\ (k + 1 <= last \/ Smaller(n, Len(l) - k) = 0)
  BY <1>0 DEF Smaller
<1> HIDE DEF last
<1> DEFINE t == SubSeq(l, k + 1, last)
<1>4. /\ t \in Seq(S)
      /\ Len(t) = IF k + 1 <= last THEN last - (k + 1) + 1 ELSE 0
      /\ \A j \in 1..(last - (k + 1) + 1) : t[j] = l[k + 1 + j - 1]
  BY <1>1, SubSeqProperties
<1> HIDE DEF t
<1>5. \A j \in 1..Smaller(n, Len(l) - k) : t[j] = l[k + j]
  <2> TAKE j \in 1..Smaller(n, Len(l) - k)
  <2>1. t[j] = l[k + 1 + j - 1]
    BY <1>2, <1>4
  <2>2. k + 1 + j - 1 = k + j
    BY <1>0
  <2> QED
    BY <2>1, <2>2
<1>6. Len(t) = Smaller(n, Len(l) - k)
  BY <1>2, <1>3a, <1>4
<1> QED
  BY <1>3, <1>4, <1>5, <1>6 DEF t

(* What a window must show of bag b, from an index on.                     *)
Shows(s, b, k, w) ==
    /\ w = [bag |-> b, index |-> k, size |-> Len(s.list[b]), items |-> w.items]
    /\ w.items \in Seq(Seens)
    /\ Len(w.items) = Smaller(MCSize[b], Len(s.list[b]) - k)
    /\ \A j \in 1..Len(w.items) : w.items[j] = <<s.list[b][k + j], s.look[s.list[b][k + j]]>>

LEMMA PageIs ==
  ASSUME NEW s, Shape(s), NEW b \in Bags, NEW k \in 0..Len(s.list[b])
  PROVE  Shows(s, b, k, W!Page(s, b, k))
<1> DEFINE l == s.list[b]
           t == W!Slice(l, k, MCSize[b])
           w == W!Page(s, b, k)
<1>1. l \in Seq(Things) /\ MCSize[b] \in Nat
  BY SizeIs DEF Shape
<1>2. /\ t \in Seq(Things) /\ Len(t) = Smaller(MCSize[b], Len(l) - k)
      /\ \A j \in 1..Smaller(MCSize[b], Len(l) - k) : t[j] = l[k + j]
  <2> HIDE DEF l
  <2> QED
    BY <1>1, SliceIs DEF l
<1>3. w = [bag |-> b, index |-> k, size |-> Len(l), items |-> [j \in DOMAIN t |-> W!Seen(s, t[j])]]
  BY DEF W!Page
<1> HIDE DEF t, w
<1>4. DOMAIN t = 1..Len(t) /\ Len(t) \in Nat
  BY <1>2
<1>5. \A j \in 1..Len(t) : t[j] \in Things /\ W!Seen(s, t[j]) = <<t[j], s.look[t[j]]>> /\ s.look[t[j]] \in Int
  BY <1>2, ElementOfSeq DEF W!Seen, Shape
<1>6. \A j \in 1..Len(t) : W!Seen(s, t[j]) \in Seens
  BY <1>5 DEF Seens
<1> DEFINE u == [j \in 1..Len(t) |-> W!Seen(s, t[j])]
<1>7. u \in Seq(Seens) /\ Len(u) = Len(t)
  BY <1>4, <1>6
<1>8. \A j \in 1..Len(t) : u[j] = <<l[k + j], s.look[l[k + j]]>>
  BY <1>2, <1>5
<1>9. w.items = u /\ w = [bag |-> b, index |-> k, size |-> Len(l), items |-> w.items]
  BY <1>3, <1>4
<1> HIDE DEF u
<1> QED
  BY <1>2, <1>7, <1>8, <1>9 DEF Shows, l, w

LEMMA ShownIsPage ==
  ASSUME NEW s, Shape(s), NEW b \in Bags, NEW k \in 0..Len(s.list[b]), NEW w, Shows(s, b, k, w)
  PROVE  w = W!Page(s, b, k)
<1> DEFINE v == W!Page(s, b, k)
<1>1. Shows(s, b, k, v)
  BY PageIs
<1> HIDE DEF v
<1>2. v.items = w.items
  <2> DEFINE f == v.items
             g == w.items
  <2>1. f \in Seq(Seens) /\ g \in Seq(Seens) /\ Len(f) = Len(g)
        /\ \A j \in 1..Len(f) : f[j] = g[j]
    BY <1>1 DEF Shows
  <2> HIDE DEF f, g
  <2>2. f = g
    BY <2>1, SeqEqual
  <2> QED
    BY <2>2 DEF f, g
<1> QED
  BY <1>1, <1>2 DEF Shows, v

-----------------------------------------------------------------------------
(* What holds of such a state: things lie in a forest, a bag lists what    *)
(* lies in it, once; pages begin at multiples of their size, within the    *)
(* list; what is open is there; and windows show their page, except those  *)
(* of a set M.                                                             *)
Placed(s) == Forest(Bags, Things, Grounds, s.parent)

Listed(s) ==
    \A b \in Bags :
        /\ \A x \in Things : s.parent[x] = b <=> \E j \in 1..Len(s.list[b]) : s.list[b][j] = x
        /\ \A j1, j2 \in 1..Len(s.list[b]) : s.list[b][j1] = s.list[b][j2] => j1 = j2

Begins(s, b, k) ==
    k \in Nat /\ k % MCSize[b] = 0 /\ (k = 0 \/ k < Len(s.list[b]))

Leafed(s) ==
    \A cid \in Cids : s.open[cid].bag # W!None => Begins(s, s.open[cid].bag, s.open[cid].index)

(* Bag b is where the player reaches it.                                   *)
Reached(s, b) ==
    /\ W!Holder(s, b) \notin {W!Nowhere, W!Theirs}
    /\ W!Holder(s, b) = W!Mine \/ W!Holder(s, b)[2] - s.at \in -1..1

Open(s) == \A cid \in Cids : s.open[cid].bag # W!None => Reached(s, s.open[cid].bag)

Synced(s, M) ==
    \A cid \in Cids \ M : s.window[cid] # W!Shut =>
        s.open[cid].bag \in Bags /\ Shows(s, s.open[cid].bag, s.open[cid].index, s.window[cid])

Sound(s, M) == Shape(s) /\ Placed(s) /\ Listed(s) /\ Leafed(s) /\ Open(s) /\ Synced(s, M)

-----------------------------------------------------------------------------
(* Who holds a thing in the end.                                           *)
LEMMA HolderIs ==
  ASSUME NEW s, Placed(s), NEW x \in Things
  PROVE  /\ W!Holder(s, x) \in Grounds
         /\ \A h : h \in Over(Bags, s.parent, x) /\ h \notin Bags => h = W!Holder(s, x)
<1>1. PICK g \in Grounds : Over(Bags, s.parent, x) \ Bags = {g}
  BY DEF Placed, Forest
<1> DEFINE h == CHOOSE y \in Over(Bags, s.parent, x) : y \notin Bags
<1>2. h \in Over(Bags, s.parent, x) /\ h \notin Bags
  BY <1>1
<1>3. h = W!Holder(s, x)
  BY SameOver DEF W!Holder
<1> HIDE DEF h
<1> QED
  BY <1>1, <1>2, <1>3

(* Two that lie in some of the same have one holder.                       *)
LEMMA HolderSame ==
  ASSUME NEW s, Placed(s), NEW x \in Things, NEW r, Placed(r), NEW y \in Things,
         Over(Bags, s.parent, x) \subseteq Over(Bags, r.parent, y)
  PROVE  W!Holder(s, x) = W!Holder(r, y)
<1>1. PICK g \in Grounds : Over(Bags, s.parent, x) \ Bags = {g}
  BY DEF Placed, Forest
<1>2. W!Holder(s, x) = g
  BY <1>1, HolderIs
<1> QED
  BY <1>1, <1>2, HolderIs

LEMMA HolderInside ==
  ASSUME NEW s, Placed(s), NEW x \in Things, NEW b \in Bags, b \in Over(Bags, s.parent, x)
  PROVE  W!Holder(s, x) = W!Holder(s, b)
<1>1. Over(Bags, s.parent, b) \subseteq Over(Bags, s.parent, x)
  BY OverThrough
<1>2. b \in Things
  BY Apart
<1> QED
  BY <1>1, <1>2, HolderSame

LEMMA ReachedInRange ==
  ASSUME NEW s, NEW b, Reached(s, b), NEW near
  PROVE  W!InRange(s, b, near) = TRUE
BY DEF Reached, W!InRange

LEMMA InRangeReached ==
  ASSUME NEW s, NEW b, NEW near, W!InRange(s, b, near),
         W!Holder(s, b) \notin {W!Nowhere, W!Theirs}
  PROVE  Reached(s, b)
BY DEF Reached, W!InRange

(* A bag with a window is within reach.                                    *)
LEMMA ShowingReached ==
  ASSUME NEW s, Open(s), NEW b \in Bags, W!Showing(s, b) # {}
  PROVE  Reached(s, b)
BY Apart DEF Open, W!Showing

(* Pages begin within a list.                                              *)
LEMMA PagesBegin ==
  ASSUME NEW s, Shape(s), NEW b \in Bags, NEW k, Begins(s, b, k)
  PROVE  k \in 0..Len(s.list[b]) /\ Len(s.list[b]) \in Nat /\ s.list[b] \in Seq(Things)
         /\ MCSize[b] \in Nat /\ MCSize[b] >= 1
         /\ (k = 0 \/ k >= MCSize[b])
<1>1. s.list[b] \in Seq(Things) /\ Len(s.list[b]) \in Nat
  BY DEF Shape
<1>2. MCSize[b] \in Nat /\ MCSize[b] >= 1
  BY SizeIs
<1>3. k \in Nat /\ k % MCSize[b] = 0 /\ k <= Len(s.list[b])
  BY <1>1 DEF Begins
<1>4. ASSUME NEW m \in Nat, m >= 1, k % m = 0, k < m PROVE k = 0
  BY <1>3, <1>4
<1> QED
  BY <1>1, <1>2, <1>3, <1>4

LEMMA TurnedBack ==
  ASSUME NEW k \in Nat, NEW n \in Nat, n >= 1, k % n = 0, k >= n
  PROVE  k - n \in Nat /\ (k - n) % n = 0
<1>1. PICK q \in Int : k = n * q
  <2>1. k = n * (k \div n) + (k % n)
    OBVIOUS
  <2> DEFINE q == k \div n
  <2>2. q \in Int
    OBVIOUS
  <2>3. k = n * q + 0
    BY <2>1
  <2> HIDE DEF q
  <2>4. n * q \in Int
    BY <2>2
  <2>5. k = n * q
    BY <2>3, <2>4
  <2> QED
    BY <2>2, <2>5
<1>2. k - n = n * (q - 1)
  BY <1>1
<1>3. (n * (q - 1)) % n = 0
  OBVIOUS
<1> QED
  BY <1>2, <1>3

-----------------------------------------------------------------------------
(* Lists that get and lose a thing.                                        *)
LEMMA FrontIs ==
  ASSUME NEW S, NEW l \in Seq(S), NEW x \in S
  PROVE  /\ <<x>> \o l \in Seq(S) /\ Len(<<x>> \o l) = Len(l) + 1
         /\ \A j \in 1..(Len(l) + 1) : (<<x>> \o l)[j] = IF j = 1 THEN x ELSE l[j - 1]
<1> DEFINE f == <<x>>
<1>1. f \in Seq(S) /\ Len(f) = 1 /\ f[1] = x
  OBVIOUS
<1> HIDE DEF f
<1>2. /\ f \o l \in Seq(S) /\ Len(f \o l) = Len(f) + Len(l)
      /\ \A j \in 1..(Len(f) + Len(l)) : (f \o l)[j] = IF j <= Len(f) THEN f[j] ELSE l[j - Len(f)]
  BY <1>1, ConcatProperties
<1>3. Len(l) \in Nat
  OBVIOUS
<1> DEFINE t == f \o l
<1>4. \A j \in 1..(Len(l) + 1) : t[j] = IF j = 1 THEN x ELSE l[j - 1]
  BY <1>1, <1>2, <1>3
<1>5. t \in Seq(S) /\ Len(t) = Len(l) + 1
  BY <1>1, <1>2, <1>3
<1> HIDE DEF t
<1> QED
  BY <1>4, <1>5 DEF t, f

LEMMA JoinIs ==
  ASSUME NEW S, NEW l \in Seq(S), NEW r \in Seq(S)
  PROVE  /\ l \o r \in Seq(S) /\ Len(l \o r) = Len(l) + Len(r)
         /\ \A j \in 1..(Len(l) + Len(r)) : (l \o r)[j] = IF j <= Len(l) THEN l[j] ELSE r[j - Len(l)]
BY ConcatProperties

LEMMA RemoveAtIs ==
  ASSUME NEW S, NEW l \in Seq(S), NEW k \in 1..Len(l)
  PROVE  /\ W!RemoveAt(l, k) \in Seq(S) /\ Len(W!RemoveAt(l, k)) = Len(l) - 1
         /\ \A j \in 1..(Len(l) - 1) : W!RemoveAt(l, k)[j] = IF j < k THEN l[j] ELSE l[j + 1]
<1> DEFINE n == Len(l)
           f == SubSeq(l, 1, k - 1)
           r == SubSeq(l, k + 1, n)
           t == f \o r
<1>1. n \in Nat /\ k \in Int /\ 1 <= k /\ k <= n /\ \A j \in 1..n : l[j] \in S
  BY ElementOfSeq
<1> HIDE DEF n
<1>2. /\ f \in Seq(S) /\ Len(f) = IF 1 <= k - 1 THEN k - 1 - 1 + 1 ELSE 0
      /\ \A j \in 1..(k - 1 - 1 + 1) : f[j] = l[1 + j - 1]
  BY <1>1, SubSeqProperties
<1>3. /\ r \in Seq(S) /\ Len(r) = IF k + 1 <= n THEN n - (k + 1) + 1 ELSE 0
      /\ \A j \in 1..(n - (k + 1) + 1) : r[j] = l[k + 1 + j - 1]
  BY <1>1, SubSeqProperties
<1>4. t = W!RemoveAt(l, k)
  BY DEF W!RemoveAt, n
<1> HIDE DEF f, r
<1>5. Len(f) = k - 1 /\ Len(r) = n - k
  BY <1>1, <1>2, <1>3
<1>6. /\ t \in Seq(S) /\ Len(t) = Len(f) + Len(r)
      /\ \A j \in 1..(Len(f) + Len(r)) : t[j] = IF j <= Len(f) THEN f[j] ELSE r[j - Len(f)]
  BY <1>2, <1>3, JoinIs
<1> HIDE DEF t
<1>7. ASSUME NEW j \in 1..(n - 1) PROVE t[j] = IF j < k THEN l[j] ELSE l[j + 1]
  <2>1. CASE j < k
    <3>1. t[j] = f[j]
      BY <1>1, <1>5, <1>6, <2>1
    <3>2. f[j] = l[1 + j - 1] /\ 1 + j - 1 = j
      BY <1>1, <1>2, <2>1
    <3> QED
      BY <2>1, <3>1, <3>2
  <2>2. CASE ~(j < k)
    <3>1. t[j] = r[j - (k - 1)] /\ j - (k - 1) \in 1..(n - (k + 1) + 1)
      BY <1>1, <1>5, <1>6, <2>2
    <3>2. r[j - (k - 1)] = l[k + 1 + (j - (k - 1)) - 1]
      BY <1>3, <3>1
    <3>3. k + 1 + (j - (k - 1)) - 1 = j + 1
      BY <1>1
    <3> QED
      BY <2>2, <3>1, <3>2, <3>3
  <2> QED
    BY <2>1, <2>2
<1>8. Len(t) = n - 1
  BY <1>1, <1>5, <1>6
<1> QED
  BY <1>4, <1>6, <1>7, <1>8 DEF n

LEMMA SlotIs ==
  ASSUME NEW s, Shape(s), Listed(s), NEW x \in Things, NEW b \in Bags, s.parent[x] = b
  PROVE  W!SlotOf(s, b, x) \in 0..(Len(s.list[b]) - 1) /\ s.list[b][W!SlotOf(s, b, x) + 1] = x
<1>1. PICK j \in 1..Len(s.list[b]) : s.list[b][j] = x
  BY DEF Listed
<1>2. Len(s.list[b]) \in Nat
  BY DEF Shape
<1>3. j - 1 \in 0..(Len(s.list[b]) - 1) /\ j - 1 + 1 = j
  BY <1>2
<1>4. \E k \in 0..(Len(s.list[b]) - 1) : s.list[b][k + 1] = x
  BY <1>1, <1>3
<1> QED
  BY <1>4 DEF W!SlotOf

-----------------------------------------------------------------------------
(* What a client does with a message keeps its page the page of the list.  *)
LEMMA AddShows ==
  ASSUME NEW s, Shape(s), NEW r, Shape(r), NEW b \in Bags, NEW x \in Things,
         r.list[b] = <<x>> \o s.list[b], r.look = s.look,
         NEW k, Begins(s, b, k), NEW w, Shows(s, b, k, w)
  PROVE  /\ Begins(r, b, k)
         /\ Shows(r, b, k, W!ClientAdd(w, b,
                     W!Seen(r, IF k >= MCSize[b] THEN r.list[b][k + 1] ELSE x)))
<1> DEFINE l == s.list[b]
           m == r.list[b]
           n == MCSize[b]
           first == IF k >= n THEN m[k + 1] ELSE x
           v == W!Seen(r, first)
           f == <<v>> \o w.items
           t == W!Slice(f, 0, n)
           u == W!ClientAdd(w, b, v)
<1>1. /\ k \in 0..Len(l) /\ Len(l) \in Nat /\ l \in Seq(Things) /\ n \in Nat /\ n >= 1
      /\ (k = 0 \/ k >= n)
  BY PagesBegin
<1>2. m \in Seq(Things) /\ Len(m) = Len(l) + 1
      /\ \A j \in 1..(Len(l) + 1) : m[j] = IF j = 1 THEN x ELSE l[j - 1]
  <2>1. m = <<x>> \o l
    OBVIOUS
  <2> HIDE DEF l, m
  <2> QED
    BY <1>1, <2>1, FrontIs
<1>3. Begins(r, b, k)
  <2>1. k \in Nat /\ k % n = 0 /\ (k = 0 \/ k < Len(l))
    BY DEF Begins
  <2> QED
    BY <1>1, <1>2, <2>1 DEF Begins
<1>4. /\ w = [bag |-> b, index |-> k, size |-> Len(l), items |-> w.items]
      /\ w.items \in Seq(Seens) /\ Len(w.items) = Smaller(n, Len(l) - k)
      /\ \A j \in 1..Len(w.items) : w.items[j] = <<l[k + j], s.look[l[k + j]]>>
  BY DEF Shows
<1>5. r.look \in [Things -> Int] /\ r.look = s.look
  BY DEF Shape
<1> HIDE DEF l, m, n
<1>6. first = m[k + 1] /\ m[k + 1] \in Things
  <2>1. k + 1 \in 1..Len(m)
    BY <1>1, <1>2
  <2>2. m[k + 1] \in Things
    BY <1>2, <2>1, ElementOfSeq
  <2>3. k = 0 => m[k + 1] = x
    BY <1>1, <1>2
  <2> QED
    BY <1>1, <2>2, <2>3
<1> HIDE DEF first
<1>7. v = <<m[k + 1], r.look[m[k + 1]]>> /\ v \in Seens
  BY <1>5, <1>6 DEF W!Seen, Seens
<1> HIDE DEF v
<1> DEFINE g == w.items
<1>8. g \in Seq(Seens) /\ Len(g) \in Nat
  BY <1>4
<1>9. /\ f \in Seq(Seens) /\ Len(f) = Len(g) + 1
      /\ \A j \in 1..(Len(g) + 1) : f[j] = IF j = 1 THEN v ELSE g[j - 1]
  <2> HIDE DEF g
  <2>1. /\ <<v>> \o g \in Seq(Seens) /\ Len(<<v>> \o g) = Len(g) + 1
        /\ \A j \in 1..(Len(g) + 1) : (<<v>> \o g)[j] = IF j = 1 THEN v ELSE g[j - 1]
    BY <1>7, <1>8, FrontIs
  <2> QED
    BY <2>1 DEF g
<1> HIDE DEF f
<1>10. /\ t \in Seq(Seens) /\ Len(t) = Smaller(n, Len(f) - 0)
       /\ \A j \in 1..Smaller(n, Len(f) - 0) : t[j] = f[0 + j]
  <2>1. 0 \in 0..Len(f) /\ f \in Seq(Seens) /\ n \in Nat
    BY <1>1, <1>8, <1>9
  <2> QED
    BY ONLY <2>1, SliceIs, Zenon
<1>11. Len(t) = Smaller(n, Len(m) - k)
  BY <1>1, <1>2, <1>4, <1>9, <1>10 DEF Smaller
<1>12. ASSUME NEW j \in 1..Len(t) PROVE t[j] = <<m[k + j], r.look[m[k + j]]>>
  <2>1. Len(t) \in Nat /\ Len(t) <= Len(f) /\ t[j] = f[j]
    BY <1>1, <1>8, <1>9, <1>10 DEF Smaller
  <2>2. CASE j = 1
    <3>1. t[j] = v
      BY <1>8, <1>9, <2>1, <2>2
    <3>2. k + j = k + 1
      BY <2>2
    <3> QED
      BY <1>7, <3>1, <3>2
  <2>3. CASE j # 1
    <3>1. j - 1 \in 1..Len(g) /\ t[j] = g[j - 1]
      BY <1>8, <1>9, <2>1, <2>3
    <3>2. g[j - 1] = <<l[k + (j - 1)], s.look[l[k + (j - 1)]]>>
      BY <1>4, <3>1
    <3>3. k + j \in 1..(Len(l) + 1) /\ k + j # 1 /\ k + j - 1 = k + (j - 1)
      BY SMTT(40), <1>1, <1>4, <2>3, <3>1 DEF Smaller
    <3>4. m[k + j] = l[k + (j - 1)]
      <4> DEFINE i == k + j
      <4>1. i \in 1..(Len(l) + 1) /\ i # 1 /\ i - 1 = k + (j - 1)
        <5>1. k \in Int /\ j \in Int
          BY <1>1
        <5> QED
          BY <3>3, <5>1
      <4> HIDE DEF i
      <4>2. m[i] = l[i - 1]
        BY <1>2, <4>1
      <4> QED
        BY <4>1, <4>2 DEF i
    <3> QED
      BY <1>5, <3>1, <3>2, <3>4
  <2> QED
    BY <2>2, <2>3
<1>13. u = [bag |-> b, index |-> k, size |-> Len(m), items |-> t]
  <2>1. u = [w EXCEPT !.items = t, !.size = w.size + 1]
    BY DEF W!ClientAdd, f, t, n
  <2>2. w = [bag |-> b, index |-> k, size |-> Len(l), items |-> g]
    BY <1>4
  <2> HIDE DEF t, u, g
  <2>3. u = [bag |-> b, index |-> k, size |-> Len(l) + 1, items |-> t]
    BY <2>1, <2>2
  <2> QED
    BY <1>2, <2>3
<1> HIDE DEF t
<1>14. Shows(r, b, k, u)
  <2> HIDE DEF u
  <2> QED
    BY <1>10, <1>11, <1>12, <1>13 DEF Shows, m, n
<1> QED
  BY <1>3, <1>14 DEF v, first, m, n

LEMMA RemoveShows ==
  ASSUME NEW s, Shape(s), NEW r, Shape(r), NEW b \in Bags, NEW slot \in 0..(Len(s.list[b]) - 1),
         r.list[b] = W!RemoveAt(s.list[b], slot + 1), r.look = s.look,
         NEW k \in Nat, k = 0 \/ k < Len(s.list[b]) - 1, NEW w, Shows(s, b, k, w)
  PROVE  LET shown == W!Slice(s.list[b], k + MCSize[b], 1)
         IN Shows(r, b, k, W!ClientRemove(w, IF slot < k THEN k ELSE slot,
                                          [j \in DOMAIN shown |-> W!Seen(s, shown[j])]))
<1> DEFINE l == s.list[b]
           m == r.list[b]
           n == MCSize[b]
           g == w.items
           from == IF slot < k THEN k ELSE slot
           shown == W!Slice(l, k + n, 1)
           next == [j \in DOMAIN shown |-> W!Seen(s, shown[j])]
           p == from - k + 1
           u == W!ClientRemove(w, from, next)
<1>1. l \in Seq(Things) /\ Len(l) \in Nat /\ n \in Nat /\ n >= 1 /\ slot + 1 \in 1..Len(l) /\ k < Len(l)
  BY SizeIs DEF Shape
<1>2. m \in Seq(Things) /\ Len(m) = Len(l) - 1
      /\ \A j \in 1..(Len(l) - 1) : m[j] = IF j < slot + 1 THEN l[j] ELSE l[j + 1]
  <2>1. m = W!RemoveAt(l, slot + 1)
    OBVIOUS
  <2> DEFINE i == slot + 1
  <2>2. l \in Seq(Things) /\ i \in 1..Len(l) /\ m = W!RemoveAt(l, i)
    BY <1>1, <2>1
  <2> HIDE DEF l, m, i
  <2>3. /\ m \in Seq(Things) /\ Len(m) = Len(l) - 1
        /\ \A j \in 1..(Len(l) - 1) : m[j] = IF j < i THEN l[j] ELSE l[j + 1]
    BY SMTT(40), <2>2, RemoveAtIs
  <2> QED
    BY <2>3 DEF i
<1>3. r.look \in [Things -> Int] /\ r.look = s.look
  BY DEF Shape
<1>4. /\ w = [bag |-> b, index |-> k, size |-> Len(l), items |-> g]
      /\ g \in Seq(Seens) /\ Len(g) = Smaller(n, Len(l) - k)
      /\ \A j \in 1..Len(g) : g[j] = <<l[k + j], s.look[l[k + j]]>>
  BY DEF Shows
<1> HIDE DEF l, m, n
<1>5. u = IF p \notin DOMAIN g THEN [w EXCEPT !.size = w.size - 1]
          ELSE [w EXCEPT !.items = W!RemoveAt(g, p) \o next, !.size = w.size - 1]
  <2>1. w.index = k
    BY <1>4
  <2> QED
    BY <2>1 DEF W!ClientRemove
<1> HIDE DEF u, g
<1>6. /\ next \in Seq(Seens) /\ Len(next) = IF k + n < Len(l) THEN 1 ELSE 0
      /\ k + n < Len(l) => next[1] = <<l[k + n + 1], s.look[l[k + n + 1]]>>
  <2>1. CASE k + n < Len(l)
    <3>1. k + n \in 0..Len(l) /\ Smaller(1, Len(l) - (k + n)) = 1
      BY <1>1, <2>1 DEF Smaller
    <3>2. shown \in Seq(Things) /\ Len(shown) = 1 /\ shown[1] = l[k + n + 1]
      <4>1. /\ W!Slice(l, k + n, 1) \in Seq(Things)
            /\ Len(W!Slice(l, k + n, 1)) = Smaller(1, Len(l) - (k + n))
            /\ \A j \in 1..Smaller(1, Len(l) - (k + n)) : W!Slice(l, k + n, 1)[j] = l[k + n + j]
        BY <1>1, <3>1, SliceIs
      <4>2. shown[1] = l[k + n + 1]
        BY <3>1, <4>1
      <4> QED
        BY <3>1, <4>1, <4>2
    <3>3. shown[1] \in Things /\ DOMAIN shown = 1..1
      BY <3>2, ElementOfSeq
    <3> HIDE DEF shown
    <3>4. \A j \in 1..1 : W!Seen(s, shown[j]) \in Seens
      BY <1>3, <3>3 DEF W!Seen, Seens
    <3>5. next \in Seq(Seens) /\ Len(next) = 1 /\ next[1] = W!Seen(s, shown[1])
      BY <3>3, <3>4
    <3> QED
      BY <2>1, <3>2, <3>5 DEF W!Seen
  <2>2. CASE ~(k + n < Len(l))
    <3>1. shown = <<>>
      <4>1. shown = SubSeq(l, k + n + 1, IF k + n + 1 < Len(l) THEN k + n + 1 ELSE Len(l))
        BY DEF W!Slice
      <4>2. shown = SubSeq(l, k + n + 1, Len(l)) /\ Len(l) < k + n + 1
        BY <1>1, <2>2, <4>1
      <4> QED
        BY <1>1, <4>2, SubSeqEmpty
    <3> HIDE DEF shown
    <3>2. DOMAIN shown = {}
      BY <3>1
    <3>3. next = <<>>
      BY <3>2
    <3> QED
      BY <2>2, <3>3
  <2> QED
    BY <2>1, <2>2
<1> HIDE DEF next
<1>7. p \in Nat /\ p >= 1 /\ DOMAIN g = 1..Len(g) /\ Len(g) \in Nat /\ p \in Int
  BY <1>1, <1>4
<1>8. CASE p \notin DOMAIN g
  <2>1. slot >= k + n
    BY <1>1, <1>4, <1>7, <1>8 DEF Smaller
  <2>2. u = [bag |-> b, index |-> k, size |-> Len(m), items |-> g]
    <3>1. u = [bag |-> b, index |-> k, size |-> Len(l) - 1, items |-> g]
      BY <1>4, <1>5, <1>8
    <3> QED
      BY <1>2, <3>1
  <2>3. Len(g) = n /\ Len(g) = Smaller(n, Len(m) - k)
    BY <1>1, <1>2, <1>4, <2>1 DEF Smaller
  <2>4. ASSUME NEW j \in 1..Len(g) PROVE g[j] = <<m[k + j], r.look[m[k + j]]>>
    <3>1. k + j \in 1..(Len(l) - 1) /\ k + j < slot + 1
      BY <1>1, <2>1, <2>3
    <3> DEFINE i == k + j
    <3>2. i \in 1..(Len(l) - 1) /\ i < slot + 1
      BY <3>1
    <3> HIDE DEF i
    <3>3. m[i] = l[i]
      BY <1>2, <3>2
    <3> QED
      BY <1>3, <1>4, <3>3 DEF i
  <2>5. Shows(r, b, k, u)
    BY <1>4, <2>2, <2>3, <2>4 DEF Shows, m, n
  <2> QED
    BY <2>5 DEF u, next, shown, n, l
<1>9. CASE p \in DOMAIN g
  <2> DEFINE f == W!RemoveAt(g, p)
             t == f \o next
  <2>1. /\ f \in Seq(Seens) /\ Len(f) = Len(g) - 1
        /\ \A j \in 1..(Len(g) - 1) : f[j] = IF j < p THEN g[j] ELSE g[j + 1]
    <3>1. g \in Seq(Seens) /\ p \in 1..Len(g)
      BY <1>4, <1>7, <1>9
    <3> HIDE DEF p
    <3> QED
      BY <3>1, RemoveAtIs
  <2>2. /\ t \in Seq(Seens) /\ Len(t) = Len(f) + Len(next)
        /\ \A j \in 1..(Len(f) + Len(next)) :
              t[j] = IF j <= Len(f) THEN f[j] ELSE next[j - Len(f)]
    <3> HIDE DEF f
    <3> QED
      BY <1>6, <2>1, JoinIs
  <2>3. u = [bag |-> b, index |-> k, size |-> Len(m), items |-> t]
    <3>1. u = [w EXCEPT !.items = t, !.size = w.size - 1]
      BY <1>5, <1>9
    <3> HIDE DEF t
    <3>2. u = [bag |-> b, index |-> k, size |-> Len(l) - 1, items |-> t]
      BY <1>4, <3>1
    <3> QED
      BY <1>2, <3>2
  <2> HIDE DEF f, t
  <2>4. Len(t) = Smaller(n, Len(m) - k) /\ Len(t) \in Nat
    <3>1. Len(t) = Len(g) - 1 + Len(next)
      BY <2>1, <2>2
    <3>2. CASE k + n < Len(l)
      BY <1>1, <1>2, <1>4, <1>6, <3>1, <3>2 DEF Smaller
    <3>3. CASE ~(k + n < Len(l))
      BY <1>1, <1>2, <1>4, <1>6, <3>1, <3>3 DEF Smaller
    <3> QED
      BY <3>2, <3>3
  <2>5. ASSUME NEW j \in 1..Len(t) PROVE t[j] = <<m[k + j], r.look[m[k + j]]>>
    <3>0. Len(f) \in Nat /\ k + j \in 1..(Len(l) - 1) /\ j \in Nat
      BY <1>1, <1>2, <1>7, <1>9, <2>1, <2>4 DEF Smaller
    <3> DEFINE i == k + j
    <3>1. m[i] = IF i < slot + 1 THEN l[i] ELSE l[i + 1]
      <4> HIDE DEF i
      <4> QED
        BY <1>2, <3>0 DEF i
    <3>2. CASE j <= Len(f)
      <4>1. j \in 1..(Len(g) - 1) /\ t[j] = IF j < p THEN g[j] ELSE g[j + 1]
        BY <2>1, <2>2, <2>4, <3>0, <3>2
      <4>2. CASE j < p
        <5>1. t[j] = <<l[i], s.look[l[i]]>>
          BY <1>4, <1>7, <4>1, <4>2
        <5>2. i < slot + 1
          BY <1>1, <3>0, <4>2
        <5> QED
          BY <1>3, <3>1, <5>1, <5>2
      <4>3. CASE ~(j < p)
        <5>1. j + 1 \in 1..Len(g) /\ t[j] = g[j + 1] /\ k + (j + 1) = i + 1
          BY SMTT(40), <1>7, <4>1, <4>3
        <5>2. g[j + 1] = <<l[k + (j + 1)], s.look[l[k + (j + 1)]]>>
          BY <1>4, <5>1
        <5>3. ~(i < slot + 1)
          BY <1>1, <1>7, <3>0, <4>3
        <5> QED
          BY <1>3, <3>1, <5>1, <5>2, <5>3
      <4> QED
        BY <4>2, <4>3
    <3>3. CASE ~(j <= Len(f))
      <4>1. k + n < Len(l) /\ Len(next) = 1 /\ j = Len(f) + 1
        BY <1>1, <1>6, <2>2, <2>4, <3>0, <3>3
      <4>2. j = n /\ t[j] = next[1]
        <5>1. Len(g) = n
          BY <1>1, <1>4, <4>1 DEF Smaller
        <5>2. j = n /\ ~(j <= Len(f)) /\ j - Len(f) = 1
          BY <2>1, <3>0, <4>1, <5>1
        <5>3. j \in 1..(Len(f) + Len(next))
          BY <2>2
        <5>4. t[j] = IF j <= Len(f) THEN f[j] ELSE next[j - Len(f)]
          BY <2>2, <5>3
        <5> QED
          BY <5>2, <5>4
      <4>3. t[j] = <<l[i + 1], s.look[l[i + 1]]>>
        <5>1. i + 1 = k + n + 1
          BY <4>2
        <5> QED
          BY <1>6, <4>1, <4>2, <5>1
      <4>4. ~(i < slot + 1)
        BY <1>1, <1>4, <1>7, <1>9, <3>0, <4>1, <4>2 DEF Smaller
      <4> QED
        BY <1>3, <3>1, <4>3, <4>4
    <3> QED
      BY <3>2, <3>3
  <2>6. Shows(r, b, k, u)
    BY <2>2, <2>3, <2>4, <2>5 DEF Shows, m, n
  <2> QED
    BY <2>6 DEF u, next, shown, n, l
<1> QED
  BY <1>8, <1>9

-----------------------------------------------------------------------------
(* All but that what is open is there.                                     *)
Steady(s, M) == Shape(s) /\ Placed(s) /\ Listed(s) /\ Leafed(s) /\ Synced(s, M)

(* Who is told of the thing that came, and who of another.                 *)
LEMMA ItemTold ==
  ASSUME NEW s, Shape(s), NEW b \in Bags, NEW cid \in W!Showing(s, b) \ W!Wronged(s, b)
  PROVE  /\ s.open[cid].index >= MCSize[b] =>
               W!Turned(s, b, cid) # {} /\ W!Max(W!Turned(s, b, cid)) = cid
         /\ ~ (s.open[cid].index >= MCSize[b]) => W!Turned(s, b, cid) = {}
<1>1. cid \in Cids /\ Cids \subseteq Nat
  BY WindowsAssumption DEF W!Showing
<1>2. CASE s.open[cid].index >= MCSize[b]
  <2> DEFINE T == W!Turned(s, b, cid)
  <2>1. cid \in T /\ \A c \in T : c \in Nat /\ c <= cid
    BY <1>1, <1>2 DEF W!Turned, W!Showing
  <2>2. W!Max(T) = CHOOSE y \in T : \A c \in T : y >= c
    BY DEF W!Max
  <2> HIDE DEF T
  <2>3. \A y \in T : (\A c \in T : y >= c) => y = cid
    BY <1>1, <2>1
  <2>4. \A c \in T : cid >= c
    BY <1>1, <2>1
  <2>5. W!Max(T) = cid
    BY <2>1, <2>2, <2>3, <2>4
  <2> QED
    BY <1>2, <2>1, <2>5 DEF T
<1>3. CASE ~ (s.open[cid].index >= MCSize[b])
  <2>1. s.open[cid].index < MCSize[b]
    BY <1>1, <1>3, SizeIs DEF Shape
  <2> QED
    BY <1>1, <1>3, <2>1 DEF W!Wronged
<1> QED
  BY <1>2, <1>3

(* The same list and looks are shown the same.                             *)
LEMMA ShowsSame ==
  ASSUME NEW s, NEW r, NEW b, NEW k, NEW w, r.list[b] = s.list[b], r.look = s.look
  PROVE  Shows(r, b, k, w) <=> Shows(s, b, k, w)
BY DEF Shows

LEMMA BeginsLonger ==
  ASSUME NEW s, NEW r, NEW b, NEW k, Begins(s, b, k),
         Len(s.list[b]) \in Nat, Len(r.list[b]) \in Nat, Len(s.list[b]) <= Len(r.list[b])
  PROVE  Begins(r, b, k)
BY DEF Begins

(* The fields of a state that differs in some of them.                     *)
LEMMA FieldsOfAdded ==
  ASSUME NEW s, Shape(s), NEW x \in Things, NEW to \in Grounds \cup Bags
  PROVE  LET there == [s EXCEPT !.parent[x] = to]
             added == [there EXCEPT !.list[to] = <<x>> \o @]
         IN /\ there = [parent |-> [s.parent EXCEPT ![x] = to], list |-> s.list, look |-> s.look,
                        at |-> s.at, open |-> s.open, window |-> s.window]
            /\ added = [parent |-> [s.parent EXCEPT ![x] = to],
                        list |-> [s.list EXCEPT ![to] = <<x>> \o s.list[to]], look |-> s.look,
                        at |-> s.at, open |-> s.open, window |-> s.window]
<1> DEFINE p == s.parent
           l == s.list
           f == s.look
           n == s.at
           o == s.open
           w == s.window
<1>1. s = [parent |-> p, list |-> l, look |-> f, at |-> n, open |-> o, window |-> w]
  BY DEF Shape
<1> HIDE DEF p, l, f, n, o, w
<1>2. [s EXCEPT !.parent[x] = to] = [parent |-> [p EXCEPT ![x] = to], list |-> l, look |-> f,
                                     at |-> n, open |-> o, window |-> w]
  BY <1>1
<1> DEFINE there == [s EXCEPT !.parent[x] = to]
           q == [p EXCEPT ![x] = to]
<1>3. there = [parent |-> q, list |-> l, look |-> f, at |-> n, open |-> o, window |-> w]
  BY <1>2
<1> HIDE DEF there, q
<1>4. [there EXCEPT !.list[to] = <<x>> \o @] =
        [parent |-> q, list |-> [l EXCEPT ![to] = <<x>> \o l[to]], look |-> f,
         at |-> n, open |-> o, window |-> w]
  <2> DEFINE v(z) == <<x>> \o z
  <2> HIDE DEF v
  <2>1. [there EXCEPT !.list[to] = v(@)] =
        [parent |-> q, list |-> [l EXCEPT ![to] = v(l[to])], look |-> f,
         at |-> n, open |-> o, window |-> w]
    BY <1>3
  <2> QED
    BY <2>1 DEF v
<1> QED
  BY <1>3, <1>4 DEF there, q, p, l, f, n, o, w

Gets(s, r, x, to) ==
    /\ r.parent = [s.parent EXCEPT ![x] = to]
    /\ r.list = IF to \in Bags THEN [s.list EXCEPT ![to] = <<x>> \o s.list[to]] ELSE s.list

LEMMA AddedList ==
  ASSUME NEW M, NEW s, Steady(s, M), NEW x \in Things, s.parent[x] = W!Nowhere,
         NEW to \in Grounds \cup Bags, MayMove(Bags, Grounds, s.parent, x, to),
         NEW r, Gets(s, r, x, to)
  PROVE  /\ Placed(r) /\ Listed(r)
         /\ r.list \in [Bags -> Seq(Things)] /\ r.parent \in [Things -> Grounds \cup Bags]
         /\ \A b \in Bags : Len(s.list[b]) \in Nat /\ Len(r.list[b]) \in Nat
                            /\ Len(s.list[b]) <= Len(r.list[b])
<1>0. /\ r.parent = [s.parent EXCEPT ![x] = to]
      /\ r.list = IF to \in Bags THEN [s.list EXCEPT ![to] = <<x>> \o s.list[to]] ELSE s.list
  BY DEF Gets
<1>1. Placed(r)
  BY <1>0, ForestMoved, Apart DEF Steady, Placed
<1>2. r.parent \in [Things -> Grounds \cup Bags] /\ s.list \in [Bags -> Seq(Things)]
      /\ s.parent \in [Things -> Grounds \cup Bags]
  BY <1>0 DEF Steady, Shape
<1>3. ASSUME NEW b \in Bags, b # to
      PROVE  r.list[b] = s.list[b] /\ r.list[b] \in Seq(Things)
  BY <1>0, <1>2, <1>3
<1>4. ASSUME to \in Bags
      PROVE  /\ r.list[to] \in Seq(Things) /\ Len(r.list[to]) = Len(s.list[to]) + 1
             /\ \A j \in 1..(Len(s.list[to]) + 1) :
                   r.list[to][j] = IF j = 1 THEN x ELSE s.list[to][j - 1]
             /\ Len(s.list[to]) \in Nat
  <2> DEFINE l == s.list[to]
  <2>1. l \in Seq(Things) /\ r.list[to] = <<x>> \o l
    BY <1>0, <1>2, <1>4
  <2> HIDE DEF l
  <2>2. /\ <<x>> \o l \in Seq(Things) /\ Len(<<x>> \o l) = Len(l) + 1
        /\ \A j \in 1..(Len(l) + 1) : (<<x>> \o l)[j] = IF j = 1 THEN x ELSE l[j - 1]
    BY <2>1, FrontIs
  <2> QED
    BY <2>1, <2>2 DEF l
<1>5. r.list \in [Bags -> Seq(Things)]
  <2>1. DOMAIN r.list = Bags /\ r.list = [b \in Bags |-> r.list[b]]
    BY <1>0, <1>2
  <2>2. \A b \in Bags : r.list[b] \in Seq(Things)
    BY <1>3, <1>4
  <2> QED
    BY <2>1, <2>2
<1>6. \A y \in Things : r.parent[y] = IF y = x THEN to ELSE s.parent[y]
  BY <1>0, <1>2
<1>7. ASSUME NEW b \in Bags
      PROVE  /\ \A y \in Things : r.parent[y] = b <=> \E j \in 1..Len(r.list[b]) : r.list[b][j] = y
             /\ \A j1, j2 \in 1..Len(r.list[b]) : r.list[b][j1] = r.list[b][j2] => j1 = j2
  <2>1. /\ \A y \in Things : s.parent[y] = b <=> \E j \in 1..Len(s.list[b]) : s.list[b][j] = y
        /\ \A j1, j2 \in 1..Len(s.list[b]) : s.list[b][j1] = s.list[b][j2] => j1 = j2
    BY DEF Steady, Listed
  <2>2. W!Nowhere # b
    BY Apart
  <2>3. ~ \E j \in 1..Len(s.list[b]) : s.list[b][j] = x
    BY <2>1, <2>2
  <2>4. CASE b # to
    BY <1>3, <1>6, <2>1, <2>2, <2>4
  <2>5. CASE b = to
    <3> DEFINE l == s.list[to]
               m == r.list[to]
    <3>1. /\ Len(l) \in Nat /\ Len(m) = Len(l) + 1
          /\ \A j \in 1..(Len(l) + 1) : m[j] = IF j = 1 THEN x ELSE l[j - 1]
      BY <1>4, <2>5
    <3>2. /\ \A y \in Things : s.parent[y] = to <=> \E j \in 1..Len(l) : l[j] = y
          /\ \A j1, j2 \in 1..Len(l) : l[j1] = l[j2] => j1 = j2
          /\ \A j \in 1..Len(l) : l[j] # x
      BY <2>1, <2>3, <2>5
    <3> HIDE DEF l, m
    <3>3. ASSUME NEW y \in Things PROVE r.parent[y] = to <=> \E j \in 1..Len(m) : m[j] = y
      <4>1. CASE y = x
        <5>1. 1 \in 1..Len(m) /\ m[1] = x
          BY <3>1
        <5> QED
          BY <1>6, <4>1, <5>1
      <4>2. CASE y # x
        <5>1. ASSUME NEW j \in 1..Len(l) PROVE j + 1 \in 1..Len(m) /\ m[j + 1] = l[j]
          BY <3>1
        <5>2. ASSUME NEW j \in 1..Len(m), m[j] = y PROVE j - 1 \in 1..Len(l) /\ l[j - 1] = y
          BY <3>1, <4>2, <5>2
        <5> QED
          BY <1>6, <3>2, <4>2, <5>1, <5>2
      <4> QED
        BY <4>1, <4>2
    <3>4. ASSUME NEW j1 \in 1..Len(m), NEW j2 \in 1..Len(m), m[j1] = m[j2] PROVE j1 = j2
      <4>1. \A j \in 1..Len(m) : j = 1 \/ (j - 1 \in 1..Len(l) /\ m[j] = l[j - 1])
        BY <3>1
      <4>2. m[1] = x
        BY <3>1
      <4>3. j1 \in Int /\ j2 \in Int
        BY <3>1
      <4>4. CASE j1 = 1 \/ j2 = 1
        BY SMTT(40), <3>2, <3>4, <4>1, <4>2, <4>4
      <4>5. CASE j1 # 1 /\ j2 # 1
        <5>1. j1 - 1 = j2 - 1
          BY <3>2, <3>4, <4>1, <4>5
        <5> QED
          BY <4>3, <5>1
      <4> QED
        BY <4>4, <4>5
    <3> QED
      BY <2>5, <3>3, <3>4 DEF m
  <2> QED
    BY <2>4, <2>5
<1>8. ASSUME NEW b \in Bags
      PROVE Len(s.list[b]) \in Nat /\ Len(r.list[b]) \in Nat /\ Len(s.list[b]) <= Len(r.list[b])
  <2>1. Len(s.list[b]) \in Nat
    BY <1>2
  <2> QED
    BY <1>3, <1>4, <2>1
<1> QED
  BY <1>1, <1>2, <1>5, <1>7, <1>8 DEF Listed

(* A thing is added to a place that is within reach if it has a window.    *)
MayAdd(s, x, to) ==
    /\ s.parent[x] = W!Nowhere /\ MayMove(Bags, Grounds, s.parent, x, to)
    /\ to \in Bags /\ W!Showing(s, to) # {} => Reached(s, to)

LEMMA AddThingKeeps ==
  ASSUME NEW M, NEW s, Steady(s, M), NEW x \in Things, NEW to, MayAdd(s, x, to),
         to \in Bags => W!Wronged(s, to) \subseteq M,
         NEW near, NEW r, r = W!AddThing(s, to, x, near)
  PROVE  /\ Steady(r, M) /\ r.parent = [s.parent EXCEPT ![x] = to]
         /\ r.at = s.at /\ r.look = s.look /\ r.open = s.open
<1> DEFINE there == [s EXCEPT !.parent[x] = to]
           added == [there EXCEPT !.list[to] = <<x>> \o @]
           q == [s.parent EXCEPT ![x] = to]
<1>0. /\ s.parent[x] = W!Nowhere /\ MayMove(Bags, Grounds, s.parent, x, to)
      /\ to \in Grounds \cup Bags
      /\ to \in Bags /\ W!Showing(s, to) # {} => Reached(s, to)
  BY DEF MayAdd, MayMove
<1>1. /\ there = [parent |-> q, list |-> s.list, look |-> s.look,
                  at |-> s.at, open |-> s.open, window |-> s.window]
      /\ added = [parent |-> q, list |-> [s.list EXCEPT ![to] = <<x>> \o s.list[to]],
                  look |-> s.look, at |-> s.at, open |-> s.open, window |-> s.window]
  <2>1. Shape(s)
    BY DEF Steady
  <2>2. to \in Grounds \cup Bags
    BY <1>0
  <2> QED
    BY ZenonT(30), <2>1, <2>2, FieldsOfAdded
<1>2. /\ to \notin Bags => r = there
      /\ to \in Bags /\ W!InRange(added, to, near) => r = W!SendAdd(added, to, x)
      /\ to \in Bags /\ ~ W!InRange(added, to, near) => r = added
  BY DEF W!AddThing
<1> HIDE DEF there, added, q
<1>3. /\ s.look \in [Things -> Int] /\ s.at \in Int /\ s.list \in [Bags -> Seq(Things)]
      /\ s.open \in [Cids -> [bag : Bags \cup {W!None}, index : Nat]]
      /\ s.window = [cid \in Cids |-> s.window[cid]]
  BY DEF Steady, Shape
<1>4. CASE to \notin Bags
  <2>1. /\ r.parent = q /\ r.list = s.list /\ r.look = s.look /\ r.at = s.at /\ r.open = s.open
        /\ r.window = s.window
        /\ r = [parent |-> r.parent, list |-> r.list, look |-> r.look, at |-> r.at,
                open |-> r.open, window |-> r.window]
    BY <1>1, <1>2, <1>4
  <2>2. /\ Placed(r) /\ Listed(r)
        /\ r.list \in [Bags -> Seq(Things)] /\ r.parent \in [Things -> Grounds \cup Bags]
    <3>1. Gets(s, r, x, to)
      BY <1>4, <2>1 DEF Gets, q
    <3> QED
      BY <1>0, <3>1, AddedList
  <2>3. Shape(r)
    BY <1>3, <2>1, <2>2 DEF Shape
  <2>4. Leafed(r)
    BY <2>1 DEF Steady, Leafed, Begins
  <2>5. Synced(r, M)
    BY <2>1, ShowsSame DEF Steady, Synced
  <2> QED
    BY <2>1, <2>2, <2>3, <2>4, <2>5 DEF Steady, q
<1>5. CASE to \in Bags
  <2>1. /\ added.parent = q /\ added.look = s.look /\ added.at = s.at /\ added.open = s.open
        /\ added.list = [s.list EXCEPT ![to] = <<x>> \o s.list[to]] /\ added.window = s.window
        /\ added = [parent |-> added.parent, list |-> added.list, look |-> added.look,
                    at |-> added.at, open |-> added.open, window |-> added.window]
    BY <1>1
  <2>2. /\ Placed(added) /\ Listed(added)
        /\ added.list \in [Bags -> Seq(Things)] /\ added.parent \in [Things -> Grounds \cup Bags]
        /\ \A b \in Bags : Len(s.list[b]) \in Nat /\ Len(added.list[b]) \in Nat
                           /\ Len(s.list[b]) <= Len(added.list[b])
    <3>1. Gets(s, added, x, to)
      BY <1>5, <2>1 DEF Gets, q
    <3> HIDE DEF added
    <3> QED
      BY <1>0, <3>1, AddedList
  <2>3. Shape(added)
    BY <1>3, <2>1, <2>2 DEF Shape
  <2>4. Leafed(added)
    <3>1. ASSUME NEW cid \in Cids, s.open[cid].bag # W!None
          PROVE  Begins(added, s.open[cid].bag, s.open[cid].index)
      <4>1. s.open[cid].bag \in Bags
        BY <1>3, <3>1
      <4>2. Begins(s, s.open[cid].bag, s.open[cid].index)
        BY <3>1 DEF Steady, Leafed
      <4> QED
        BY <2>2, <4>1, <4>2, BeginsLonger
    <3> QED
      BY <2>1, <3>1 DEF Leafed
  <2>5. \A b \in Bags : b # to => added.list[b] = s.list[b]
    BY <1>3, <2>1
  <2>6. \A cid \in Cids \ M : s.window[cid] # W!Shut /\ s.open[cid].bag # to =>
           s.open[cid].bag \in Bags
           /\ Shows(added, s.open[cid].bag, s.open[cid].index, s.window[cid])
    <3>1. \A b \in Bags : b # to => \A k, w : Shows(s, b, k, w) => Shows(added, b, k, w)
      BY <2>1, <2>5 DEF Shows
    <3> QED
      BY <3>1 DEF Steady, Synced
  <2>7. CASE W!Showing(s, to) = {}
    <3>1. \A cid \in Cids : s.open[cid].bag # to
      BY <2>7 DEF W!Showing
    <3>2. W!Showing(added, to) = {}
      BY <2>1, <3>1 DEF W!Showing
    <3>3. r.window = s.window /\ r = [added EXCEPT !.window = s.window]
      <4>1. CASE W!InRange(added, to, near)
        <5>1. r = [added EXCEPT !.window = [cid \in Cids |-> s.window[cid]]]
          BY <1>2, <1>5, <2>1, <3>2, <4>1 DEF W!SendAdd
        <5> QED
          BY <1>3, <2>1, <5>1
      <4>2. CASE ~ W!InRange(added, to, near)
        BY <1>2, <1>5, <2>1, <4>2
      <4> QED
        BY <4>1, <4>2
    <3>4. r = added
      BY <2>1, <3>3
    <3>5. Synced(r, M)
      BY <2>1, <2>6, <3>1, <3>4 DEF Synced
    <3> QED
      BY <2>1, <2>2, <2>3, <2>4, <3>4, <3>5 DEF Steady, q
  <2>8. CASE W!Showing(s, to) # {}
    <3>1. Reached(added, to)
      <4>1. Reached(s, to) /\ to # x /\ x \notin Over(Bags, s.parent, to)
        BY <1>0, <1>5, <2>8 DEF MayMove
      <4>2. \A k \in Things : k # x => q[k] = s.parent[k]
        BY DEF Steady, Shape, q
      <4>3. Over(Bags, q, to) = Over(Bags, s.parent, to)
        BY <1>5, <4>1, <4>2, OthersKeepTheirPlace, Apart
      <4>4. W!Holder(added, to) = W!Holder(s, to)
        <5> HIDE DEF added
        <5> QED
          BY <1>5, <2>1, <2>2, <4>3, HolderSame, Apart DEF Steady
      <4> QED
        BY <2>1, <4>1, <4>4 DEF Reached
    <3>2. r = W!SendAdd(added, to, x)
      BY <1>2, <1>5, <3>1, ReachedInRange
    <3> DEFINE item(cid) ==
                  IF W!Turned(added, to, cid) = {} THEN x
                  ELSE added.list[to][added.open[W!Max(W!Turned(added, to, cid))].index + 1]
               w == [cid \in Cids |->
                        IF cid \in W!Showing(added, to) /\ s.window[cid] # W!Shut
                        THEN W!ClientAdd(s.window[cid], to, W!Seen(added, item(cid)))
                        ELSE s.window[cid]]
    <3>3. r = [added EXCEPT !.window = w]
      BY <2>1, <3>2 DEF W!SendAdd
    <3>4. w = [cid \in Cids |-> w[cid]]
      OBVIOUS
    <3>5. ASSUME NEW cid \in Cids
          PROVE  w[cid] = IF cid \in W!Showing(added, to) /\ s.window[cid] # W!Shut
                        THEN W!ClientAdd(s.window[cid], to, W!Seen(added, item(cid)))
                        ELSE s.window[cid]
      OBVIOUS
    <3>5a. ASSUME NEW cid \in Cids \ M, cid \in W!Showing(added, to)
           PROVE  item(cid) = IF s.open[cid].index >= MCSize[to]
                              THEN added.list[to][s.open[cid].index + 1] ELSE x
      <4>1. cid \notin W!Wronged(added, to)
        BY <1>5, <2>1 DEF W!Wronged, W!Showing, W!Turned
      <4>2. /\ s.open[cid].index >= MCSize[to] =>
                  W!Turned(added, to, cid) # {} /\ W!Max(W!Turned(added, to, cid)) = cid
            /\ ~ (s.open[cid].index >= MCSize[to]) => W!Turned(added, to, cid) = {}
        <5> HIDE DEF added
        <5> QED
          BY <1>5, <2>1, <2>3, <3>5a, <4>1, ItemTold
      <4> QED
        BY <2>1, <4>2
    <3> HIDE DEF w, item
    <3>6. /\ r.parent = q /\ r.list = added.list /\ r.look = s.look /\ r.at = s.at
          /\ r.open = s.open /\ r.window = w
          /\ r = [parent |-> r.parent, list |-> r.list, look |-> r.look, at |-> r.at,
                  open |-> r.open, window |-> r.window]
      BY <2>1, <3>3
    <3>7. Shape(r) /\ Placed(r) /\ Listed(r) /\ Leafed(r)
      <4>1. Shape(r)
        BY <2>1, <2>2, <2>3, <3>4, <3>6 DEF Shape
      <4>2. Placed(r)
        BY <2>1, <2>2, <3>6 DEF Placed
      <4>3. Listed(r)
        <5>1. Listed(added) /\ r.list = added.list /\ r.parent = added.parent
          BY <2>1, <2>2, <3>6
        <5> HIDE DEF added
        <5> QED
          BY ONLY <5>1 DEF Listed
      <4>4. Leafed(r)
        BY <2>1, <2>4, <3>6 DEF Leafed, Begins
      <4> QED
        BY <4>1, <4>2, <4>3, <4>4
    <3>8. ASSUME NEW cid \in Cids \ M, w[cid] # W!Shut
          PROVE  s.open[cid].bag \in Bags
                 /\ Shows(added, s.open[cid].bag, s.open[cid].index, w[cid])
      <4>1. CASE s.window[cid] = W!Shut \/ s.open[cid].bag # to
        <5>1. w[cid] = s.window[cid]
          BY <2>1, <3>5, <4>1 DEF W!Showing
        <5> QED
          BY <2>6, <3>8, <4>1, <5>1
      <4>2. CASE s.window[cid] # W!Shut /\ s.open[cid].bag = to
        <5> DEFINE k == s.open[cid].index
        <5>1. cid \in W!Showing(added, to)
          BY <2>1, <4>2 DEF W!Showing
        <5>2. Shows(s, to, k, s.window[cid]) /\ Begins(s, to, k)
          BY <1>5, <4>2, Apart DEF Steady, Synced, Leafed
        <5>3. added.list[to] = <<x>> \o s.list[to]
          BY <1>3, <1>5, <2>1
        <5>4. w[cid] = W!ClientAdd(s.window[cid], to, W!Seen(added,
                          IF k >= MCSize[to] THEN added.list[to][k + 1] ELSE x))
          BY <3>5, <3>5a, <4>2, <5>1
        <5> HIDE DEF k
        <5>5. Shows(added, to, k, w[cid])
          <6> DEFINE v == s.window[cid]
          <6>1. /\ Shape(s) /\ Shape(added) /\ to \in Bags /\ x \in Things
                /\ added.list[to] = <<x>> \o s.list[to] /\ added.look = s.look
                /\ Begins(s, to, k) /\ Shows(s, to, k, v)
            BY <1>5, <2>1, <2>3, <5>2, <5>3 DEF Steady
          <6> HIDE DEF v, added
          <6>2. Shows(added, to, k, W!ClientAdd(v, to, W!Seen(added,
                          IF k >= MCSize[to] THEN added.list[to][k + 1] ELSE x)))
            BY ONLY <6>1, AddShows, Zenon
          <6> QED
            BY <5>4, <6>2 DEF v
        <5> QED
          BY <1>5, <4>2, <5>5 DEF k
      <4> QED
        BY <4>1, <4>2
    <3>9. Synced(r, M)
      <4>1. \A b, k, v : Shows(added, b, k, v) <=> Shows(r, b, k, v)
        BY <2>1, <3>6 DEF Shows
      <4> QED
        BY <3>6, <3>8, <4>1 DEF Synced
    <3> QED
      BY <3>6, <3>7, <3>9 DEF Steady, q
  <2> QED
    BY <2>7, <2>8
<1> QED
  BY <1>4, <1>5

-----------------------------------------------------------------------------
Loses(s, r, x) ==
    /\ r.parent = [s.parent EXCEPT ![x] = W!Nowhere]
    /\ r.list = IF s.parent[x] \in Bags
                THEN [s.list EXCEPT ![s.parent[x]] =
                        W!RemoveAt(s.list[s.parent[x]], W!SlotOf(s, s.parent[x], x) + 1)]
                ELSE s.list

LEMMA MayVanish ==
  ASSUME NEW s, NEW x \in Things
  PROVE  MayMove(Bags, Grounds, s.parent, x, W!Nowhere)
BY Apart DEF MayMove

LEMMA RemovedList ==
  ASSUME NEW M, NEW s, Steady(s, M), NEW x \in Things, NEW r, Loses(s, r, x)
  PROVE  /\ Placed(r) /\ Listed(r)
         /\ r.list \in [Bags -> Seq(Things)] /\ r.parent \in [Things -> Grounds \cup Bags]
         /\ \A b \in Bags : b # s.parent[x] => r.list[b] = s.list[b]
<1> DEFINE a == s.parent[x]
           k == W!SlotOf(s, a, x) + 1
<1>0. /\ r.parent = [s.parent EXCEPT ![x] = W!Nowhere]
      /\ a \in Bags => r.list = [s.list EXCEPT ![a] = W!RemoveAt(s.list[a], k)]
      /\ a \notin Bags => r.list = s.list
  BY DEF Loses
<1>1. Placed(r)
  BY <1>0, MayVanish, ForestMoved, Apart DEF Steady, Placed
<1>2. /\ r.parent \in [Things -> Grounds \cup Bags] /\ s.list \in [Bags -> Seq(Things)]
      /\ s.parent \in [Things -> Grounds \cup Bags]
  BY <1>0, Apart DEF Steady, Shape
<1>3. ASSUME NEW b \in Bags, b # a
      PROVE  r.list[b] = s.list[b] /\ r.list[b] \in Seq(Things)
  <2> HIDE DEF a, k
  <2> QED
    BY <1>0, <1>2, <1>3
<1>4. ASSUME a \in Bags
      PROVE  /\ r.list[a] \in Seq(Things) /\ Len(r.list[a]) = Len(s.list[a]) - 1
             /\ \A j \in 1..(Len(s.list[a]) - 1) :
                   r.list[a][j] = IF j < k THEN s.list[a][j] ELSE s.list[a][j + 1]
             /\ Len(s.list[a]) \in Nat /\ k \in 1..Len(s.list[a]) /\ s.list[a][k] = x
  <2> DEFINE l == s.list[a]
  <2>1. l \in Seq(Things) /\ Len(l) \in Nat
    BY <1>2, <1>4
  <2>2. r.list[a] = W!RemoveAt(l, k)
    BY <1>0, <1>2, <1>4
  <2>3. W!SlotOf(s, a, x) \in 0..(Len(l) - 1) /\ l[k] = x
    BY <1>4, SlotIs DEF Steady
  <2>4. k \in 1..Len(l)
    BY <2>1, <2>3
  <2> HIDE DEF l, k
  <2>5. /\ W!RemoveAt(l, k) \in Seq(Things) /\ Len(W!RemoveAt(l, k)) = Len(l) - 1
        /\ \A j \in 1..(Len(l) - 1) : W!RemoveAt(l, k)[j] = IF j < k THEN l[j] ELSE l[j + 1]
    BY <2>1, <2>4, RemoveAtIs
  <2> QED
    BY <2>1, <2>2, <2>3, <2>4, <2>5 DEF l
<1> HIDE DEF k
<1>5. r.list \in [Bags -> Seq(Things)]
  <2>1. DOMAIN r.list = Bags /\ r.list = [b \in Bags |-> r.list[b]]
    BY <1>0, <1>2
  <2>2. \A b \in Bags : r.list[b] \in Seq(Things)
    BY <1>3, <1>4
  <2> QED
    BY <2>1, <2>2
<1>6. \A y \in Things : r.parent[y] = IF y = x THEN W!Nowhere ELSE s.parent[y]
  BY <1>0, <1>2
<1>7. ASSUME NEW b \in Bags
      PROVE  /\ \A y \in Things : r.parent[y] = b <=> \E j \in 1..Len(r.list[b]) : r.list[b][j] = y
             /\ \A j1, j2 \in 1..Len(r.list[b]) : r.list[b][j1] = r.list[b][j2] => j1 = j2
  <2>1. /\ \A y \in Things : s.parent[y] = b <=> \E j \in 1..Len(s.list[b]) : s.list[b][j] = y
        /\ \A j1, j2 \in 1..Len(s.list[b]) : s.list[b][j1] = s.list[b][j2] => j1 = j2
    BY DEF Steady, Listed
  <2>2. W!Nowhere # b
    BY Apart
  <2>4. CASE b # a
    <3>1. s.parent[x] # b
      BY <2>4
    <3> HIDE DEF a
    <3> QED
      BY <1>3, <1>6, <2>1, <2>2, <2>4, <3>1
  <2>5. CASE b = a
    <3> DEFINE l == s.list[a]
               m == r.list[a]
    <3>1. /\ Len(l) \in Nat /\ Len(m) = Len(l) - 1 /\ k \in 1..Len(l) /\ l[k] = x
          /\ \A j \in 1..(Len(l) - 1) : m[j] = IF j < k THEN l[j] ELSE l[j + 1]
      BY <1>4, <2>5
    <3>2. /\ \A y \in Things : s.parent[y] = a <=> \E j \in 1..Len(l) : l[j] = y
          /\ \A j1, j2 \in 1..Len(l) : l[j1] = l[j2] => j1 = j2
      BY <2>1, <2>5
    <3>2a. W!Nowhere # a
      BY <2>2, <2>5
    <3> HIDE DEF l, m, a
    <3>2b. ASSUME NEW j \in 1..Len(m) PROVE m[j] # x
      <4>1. CASE j < k
        <5>1. m[j] = l[j] /\ j \in 1..Len(l) /\ j # k
          BY <3>1, <4>1
        <5> QED
          BY <3>1, <3>2, <5>1
      <4>2. CASE ~(j < k)
        <5>1. m[j] = l[j + 1] /\ j + 1 \in 1..Len(l) /\ j + 1 # k
          BY <3>1, <4>2
        <5> QED
          BY <3>1, <3>2, <5>1
      <4> QED
        BY <4>1, <4>2
    <3>3. ASSUME NEW y \in Things PROVE r.parent[y] = a <=> \E j \in 1..Len(m) : m[j] = y
      <4>1. CASE y = x
        BY <1>6, <3>2a, <3>2b, <4>1
      <4>2. CASE y # x
        <5>1. ASSUME NEW j \in 1..Len(l), l[j] = y PROVE \E i \in 1..Len(m) : m[i] = y
          <6>1. j # k
            BY <3>1, <4>2, <5>1
          <6>2. CASE j < k
            <7>1. j \in 1..Len(m) /\ m[j] = l[j]
              BY <3>1, <6>2
            <7> QED
              BY <5>1, <7>1
          <6>3. CASE ~(j < k)
            <7> DEFINE i == j - 1
            <7>1. i \in 1..Len(m) /\ ~(i < k) /\ i + 1 = j
              BY <3>1, <6>1, <6>3
            <7> HIDE DEF i
            <7>2. m[i] = l[i + 1]
              BY <3>1, <7>1
            <7> QED
              BY <5>1, <7>1, <7>2
          <6> QED
            BY <6>2, <6>3
        <5>2. ASSUME NEW j \in 1..Len(m), m[j] = y PROVE \E i \in 1..Len(l) : l[i] = y
          <6>1. j \in 1..Len(l) /\ j + 1 \in 1..Len(l) /\ (m[j] = l[j] \/ m[j] = l[j + 1])
            BY <3>1
          <6> QED
            BY <5>2, <6>1
        <5> QED
          BY <1>6, <3>2, <4>2, <5>1, <5>2
      <4> QED
        BY <4>1, <4>2
    <3>4. ASSUME NEW j1 \in 1..Len(m), NEW j2 \in 1..Len(m), m[j1] = m[j2] PROVE j1 = j2
      <4> DEFINE o(j) == IF j < k THEN j ELSE j + 1
      <4>1. \A j \in 1..Len(m) : o(j) \in 1..Len(l) /\ m[j] = l[o(j)]
        BY <3>1
      <4>2. o(j1) = o(j2)
        <5> HIDE DEF o
        <5> QED
          BY <3>2, <3>4, <4>1
      <4>3. j1 \in Int /\ j2 \in Int /\ k \in Int
        BY <3>1
      <4> QED
        BY <4>2, <4>3
    <3> QED
      BY <2>5, <3>3, <3>4 DEF m
  <2> QED
    BY <2>4, <2>5
<1> QED
  BY <1>1, <1>2, <1>3, <1>5, <1>7 DEF Listed, a

(* The page a window shows when a thing of the bag goes.                   *)
FirstIndex(s, b, k) == IF k > 0 /\ k >= Len(s.list[b]) - 1 THEN k - MCSize[b] ELSE k

LEMMA FirstBegins ==
  ASSUME NEW s, Shape(s), NEW r, NEW b \in Bags, Len(s.list[b]) >= 1,
         Len(r.list[b]) = Len(s.list[b]) - 1, NEW k, Begins(s, b, k)
  PROVE  /\ FirstIndex(s, b, k) \in Nat /\ FirstIndex(s, b, k) <= k
         /\ FirstIndex(s, b, k) = 0 \/ FirstIndex(s, b, k) < Len(s.list[b]) - 1
         /\ FirstIndex(s, b, k) \in 0..Len(s.list[b])
         /\ Begins(r, b, FirstIndex(s, b, k))
<1> DEFINE n == MCSize[b]
           m == Len(s.list[b])
<1>1. /\ k \in 0..m /\ m \in Nat /\ n \in Nat /\ n >= 1 /\ (k = 0 \/ k >= n)
  BY PagesBegin
<1>2. k \in Nat /\ k % n = 0 /\ (k = 0 \/ k < m)
  BY DEF Begins
<1>3. Len(r.list[b]) = m - 1 /\ m >= 1
  OBVIOUS
<1>4. FirstIndex(s, b, k) = IF k > 0 /\ k >= m - 1 THEN k - n ELSE k
  BY DEF FirstIndex
<1> DEFINE f == FirstIndex(s, b, k)
<1> HIDE DEF n, m, f
<1>5. CASE k > 0 /\ k >= m - 1
  <2>0. k \in Nat /\ n \in Nat /\ n >= 1 /\ k % n = 0 /\ k >= n
    BY <1>1, <1>2, <1>5
  <2>1. k - n \in Nat /\ (k - n) % n = 0
    BY ONLY <2>0, TurnedBack, Zenon
  <2>2. f = k - n
    BY <1>4, <1>5 DEF f
  <2>3. k - n < m - 1 /\ k - n <= k /\ k - n <= m
    BY <1>1, <1>2, <1>5
  <2>4. f \in Nat /\ f % n = 0 /\ f < m - 1 /\ f <= k /\ f \in 0..m
    BY <1>1, <2>1, <2>2, <2>3
  <2> QED
    BY <1>3, <2>4 DEF Begins, f, n, m
<1>6. CASE ~(k > 0 /\ k >= m - 1)
  <2>1. f = k
    BY <1>4, <1>6 DEF f
  <2>2. f \in Nat /\ f % n = 0 /\ (f = 0 \/ f < m - 1) /\ f <= k /\ f \in 0..m
    BY <1>1, <1>2, <1>6, <2>1
  <2> QED
    BY <1>3, <2>2 DEF Begins, f, n, m
<1> QED
  BY <1>5, <1>6

Sent(s, b, slot, k, w) ==
    LET shown == W!Slice(s.list[b], FirstIndex(s, b, k) + MCSize[b], 1)
    IN W!ClientRemove(IF FirstIndex(s, b, k) = k THEN w ELSE W!Page(s, b, FirstIndex(s, b, k)),
                      IF slot < FirstIndex(s, b, k) THEN FirstIndex(s, b, k) ELSE slot,
                      [j \in DOMAIN shown |-> W!Seen(s, shown[j])])

LEMMA SentShows ==
  ASSUME NEW s, Shape(s), NEW r, Shape(r), NEW b \in Bags, NEW slot \in 0..(Len(s.list[b]) - 1),
         r.list[b] = W!RemoveAt(s.list[b], slot + 1), r.look = s.look,
         NEW k, Begins(s, b, k), NEW w, Shows(s, b, k, w)
  PROVE  Begins(r, b, FirstIndex(s, b, k)) /\ Shows(r, b, FirstIndex(s, b, k), Sent(s, b, slot, k, w))
<1> DEFINE l == s.list[b]
           f == FirstIndex(s, b, k)
           v == IF f = k THEN w ELSE W!Page(s, b, f)
<1>1. l \in Seq(Things) /\ Len(l) \in Nat /\ slot + 1 \in 1..Len(l) /\ Len(l) >= 1
  BY DEF Shape
<1>2. Len(r.list[b]) = Len(l) - 1
  <2>1. r.list[b] = W!RemoveAt(l, slot + 1)
    OBVIOUS
  <2> HIDE DEF l
  <2> QED
    BY <1>1, <2>1, RemoveAtIs
<1>3. /\ f \in Nat /\ (f = 0 \/ f < Len(s.list[b]) - 1) /\ f \in 0..Len(s.list[b]) /\ Begins(r, b, f)
  BY <1>1, <1>2, FirstBegins
<1> HIDE DEF f
<1>4. Shows(s, b, f, v)
  <2>1. CASE f = k
    BY <2>1
  <2>2. CASE f # k
    BY <1>3, <2>2, PageIs
  <2> QED
    BY <2>1, <2>2
<1> HIDE DEF v
<1>5. LET shown == W!Slice(s.list[b], f + MCSize[b], 1)
      IN Shows(r, b, f, W!ClientRemove(v, IF slot < f THEN f ELSE slot,
                                       [j \in DOMAIN shown |-> W!Seen(s, shown[j])]))
  BY <1>3, <1>4, RemoveShows
<1>6. LET shown == W!Slice(s.list[b], f + MCSize[b], 1)
      IN Sent(s, b, slot, k, w) = W!ClientRemove(v, IF slot < f THEN f ELSE slot,
                                       [j \in DOMAIN shown |-> W!Seen(s, shown[j])])
  BY DEF Sent, f, v
<1>7. Shows(r, b, f, Sent(s, b, slot, k, w))
  BY <1>5, <1>6
<1> QED
  BY <1>3, <1>7 DEF f

(* A state with other windows.                                             *)
LEMMA OpenAndWindow ==
  ASSUME NEW s, Shape(s), NEW o, NEW w
  PROVE  [s EXCEPT !.open = o, !.window = w] =
            [parent |-> s.parent, list |-> s.list, look |-> s.look, at |-> s.at,
             open |-> o, window |-> w]
<1> DEFINE p == s.parent
           l == s.list
           f == s.look
           n == s.at
           oo == s.open
           ww == s.window
           t == [s EXCEPT !.open = o]
<1>1. s = [parent |-> p, list |-> l, look |-> f, at |-> n, open |-> oo, window |-> ww]
  BY DEF Shape
<1> HIDE DEF p, l, f, n, oo, ww
<1>2. t = [parent |-> p, list |-> l, look |-> f, at |-> n, open |-> o, window |-> ww]
  BY <1>1
<1> HIDE DEF t
<1>3. [t EXCEPT !.window = w] =
            [parent |-> p, list |-> l, look |-> f, at |-> n, open |-> o, window |-> w]
  BY <1>2
<1> QED
  BY <1>3 DEF t, p, l, f, n

(* What open and windows become when a thing of the bag goes.              *)
OpenAfter(s, b) ==
    [cid \in Cids |-> IF cid \in W!Showing(s, b)
                      THEN [s.open[cid] EXCEPT !.index = FirstIndex(s, b, s.open[cid].index)]
                      ELSE s.open[cid]]
WindowAfter(s, b, slot) ==
    [cid \in Cids |-> IF cid \in W!Showing(s, b) /\ s.window[cid] # W!Shut
                      THEN Sent(s, b, slot, s.open[cid].index, s.window[cid])
                      ELSE s.window[cid]]

LEMMA SendRemoveIs ==
  ASSUME NEW s, Shape(s), NEW b \in Bags, NEW slot
  PROVE  W!SendRemove(s, b, slot) =
            [parent |-> s.parent, list |-> s.list, look |-> s.look, at |-> s.at,
             open |-> OpenAfter(s, b), window |-> WindowAfter(s, b, slot)]
<1> DEFINE first(cid) == LET k == s.open[cid].index
                         IN IF k > 0 /\ k >= Len(s.list[b]) - 1 THEN k - MCSize[b] ELSE k
           next(cid) == LET shown == W!Slice(s.list[b], first(cid) + MCSize[b], 1)
                        IN [k \in DOMAIN shown |-> W!Seen(s, shown[k])]
           from(cid) == IF slot < first(cid) THEN first(cid) ELSE slot
           sent(cid, w) == W!ClientRemove(IF first(cid) = s.open[cid].index THEN w
                                          ELSE W!Page(s, b, first(cid)), from(cid), next(cid))
           o == [cid \in Cids |-> IF cid \in W!Showing(s, b)
                                  THEN [s.open[cid] EXCEPT !.index = first(cid)] ELSE s.open[cid]]
           w == [cid \in Cids |-> IF cid \in W!Showing(s, b) /\ s.window[cid] # W!Shut
                                  THEN sent(cid, s.window[cid]) ELSE s.window[cid]]
<1>1. W!SendRemove(s, b, slot) = [s EXCEPT !.open = o, !.window = w]
  BY DEF W!SendRemove
<1>2. o = OpenAfter(s, b)
  BY DEF OpenAfter, FirstIndex
<1>3. \A cid \in Cids : sent(cid, s.window[cid]) = Sent(s, b, slot, s.open[cid].index, s.window[cid])
  BY DEF Sent, FirstIndex
<1>4. w = WindowAfter(s, b, slot)
  <2> HIDE DEF sent
  <2> QED
    BY <1>3 DEF WindowAfter
<1> HIDE DEF o, w
<1>6. [s EXCEPT !.open = o, !.window = w] =
        [parent |-> s.parent, list |-> s.list, look |-> s.look, at |-> s.at,
         open |-> o, window |-> w]
  BY OpenAndWindow
<1> QED
  BY <1>1, <1>2, <1>4, <1>6

LEMMA NothingAfter ==
  ASSUME NEW s, Shape(s), NEW b \in Bags, NEW slot, W!Showing(s, b) = {}
  PROVE  OpenAfter(s, b) = s.open /\ WindowAfter(s, b, slot) = s.window
<1>1. s.open = [cid \in Cids |-> s.open[cid]] /\ s.window = [cid \in Cids |-> s.window[cid]]
  BY DEF Shape
<1>2. OpenAfter(s, b) = [cid \in Cids |-> s.open[cid]]
  BY DEF OpenAfter
<1>3. WindowAfter(s, b, slot) = [cid \in Cids |-> s.window[cid]]
  BY DEF WindowAfter
<1> QED
  BY <1>1, <1>2, <1>3

LEMMA RemoveThingIs ==
  ASSUME NEW s, Shape(s), NEW x \in Things, NEW near,
         s.parent[x] \in Bags /\ W!Showing(s, s.parent[x]) # {} => Reached(s, s.parent[x]),
         NEW r, r = W!RemoveThing(s, x, near)
  PROVE  /\ Loses(s, r, x)
         /\ r = [parent |-> r.parent, list |-> r.list, look |-> s.look, at |-> s.at,
                 open |-> r.open, window |-> r.window]
         /\ s.parent[x] \notin Bags => r.open = s.open /\ r.window = s.window
         /\ s.parent[x] \in Bags =>
              /\ r.open = OpenAfter(s, s.parent[x])
              /\ r.window = WindowAfter(s, s.parent[x], W!SlotOf(s, s.parent[x], x))
<1> DEFINE b == s.parent[x]
           slot == W!SlotOf(s, b, x)
           told == IF W!InRange(s, b, near) THEN W!SendRemove(s, b, slot) ELSE s
           p == s.parent
           l == s.list
           f == s.look
           n == s.at
           oo == s.open
           ww == s.window
<1>1. s = [parent |-> p, list |-> l, look |-> f, at |-> n, open |-> oo, window |-> ww]
  BY DEF Shape
<1>2. r = IF b \notin Bags THEN [s EXCEPT !.parent[x] = W!Nowhere]
          ELSE [told EXCEPT !.parent[x] = W!Nowhere, !.list[b] = W!RemoveAt(@, slot + 1)]
  BY DEF W!RemoveThing
<1>3. CASE b \notin Bags
  <2>1. r = [s EXCEPT !.parent[x] = W!Nowhere]
    BY <1>2, <1>3
  <2> HIDE DEF p, l, f, n, oo, ww
  <2>2. r = [parent |-> [p EXCEPT ![x] = W!Nowhere], list |-> l, look |-> f, at |-> n,
             open |-> oo, window |-> ww]
    BY <1>1, <2>1
  <2>3. /\ r.parent = [p EXCEPT ![x] = W!Nowhere] /\ r.list = l /\ r.open = oo /\ r.window = ww
        /\ r = [parent |-> r.parent, list |-> r.list, look |-> f, at |-> n,
                open |-> r.open, window |-> r.window]
    BY <2>2
  <2> QED
    BY <1>3, <2>3 DEF Loses, p, l, f, n, oo, ww
<1>4. CASE b \in Bags
  <2> DEFINE o == OpenAfter(s, b)
             w == WindowAfter(s, b, slot)
  <2>1. told = [parent |-> p, list |-> l, look |-> f, at |-> n, open |-> o, window |-> w]
    <3>1. CASE W!Showing(s, b) = {}
      <4>1. o = oo /\ w = ww
        BY <1>4, <3>1, NothingAfter
      <4>2. W!SendRemove(s, b, slot) = s
        <5>1. W!SendRemove(s, b, slot) = [parent |-> p, list |-> l, look |-> f, at |-> n,
                                          open |-> o, window |-> w]
          BY <1>4, SendRemoveIs
        <5> QED
          BY <1>1, <4>1, <5>1
      <4>3. told = s
        BY <4>2
      <4> QED
        BY <1>1, <4>1, <4>3
    <3>2. CASE W!Showing(s, b) # {}
      <4>1. W!InRange(s, b, near)
        <5>1. Reached(s, b)
          BY <1>4, <3>2
        <5> HIDE DEF b
        <5> QED
          BY <5>1, ReachedInRange
      <4>2. told = W!SendRemove(s, b, slot)
        BY <4>1
      <4> QED
        BY <1>4, <4>2, SendRemoveIs
    <3> QED
      BY <3>1, <3>2
  <2>2. r = [told EXCEPT !.parent[x] = W!Nowhere, !.list[b] = W!RemoveAt(@, slot + 1)]
    BY <1>2, <1>4
  <2> DEFINE v(z) == W!RemoveAt(z, slot + 1)
  <2>3. r = [told EXCEPT !.parent[x] = W!Nowhere, !.list[b] = v(@)]
    BY <2>2
  <2>4. v(l[b]) = W!RemoveAt(l[b], W!SlotOf(s, b, x) + 1)
    OBVIOUS
  <2> HIDE DEF v, told, p, l, f, n, o, w, oo, ww, b, slot
  <2>5. r = [parent |-> [p EXCEPT ![x] = W!Nowhere], list |-> [l EXCEPT ![b] = v(l[b])],
             look |-> f, at |-> n, open |-> o, window |-> w]
    BY <2>1, <2>3
  <2>6. /\ r.parent = [p EXCEPT ![x] = W!Nowhere] /\ r.list = [l EXCEPT ![b] = v(l[b])]
        /\ r.open = o /\ r.window = w
        /\ r = [parent |-> r.parent, list |-> r.list, look |-> f, at |-> n,
                open |-> r.open, window |-> r.window]
    BY <2>5
  <2> DEFINE ll == [l EXCEPT ![b] = v(l[b])]
  <2>7. ll = [s.list EXCEPT ![s.parent[x]] =
                 W!RemoveAt(s.list[s.parent[x]], W!SlotOf(s, s.parent[x], x) + 1)]
    BY <2>4 DEF l, b
  <2>8. Loses(s, r, x)
    BY <1>4, <2>6, <2>7 DEF Loses, p, b
  <2> QED
    BY <1>4, <2>6, <2>8 DEF f, n, o, w, b, slot
<1> QED
  BY <1>3, <1>4

(* A thing goes from a place that is within reach if it has a window.      *)
LEMMA RemoveThingKeeps ==
  ASSUME NEW M, NEW s, Steady(s, M), NEW x \in Things, NEW near,
         s.parent[x] \in Bags /\ W!Showing(s, s.parent[x]) # {} => Reached(s, s.parent[x]),
         NEW r, r = W!RemoveThing(s, x, near)
  PROVE  /\ Steady(r, M) /\ r.parent = [s.parent EXCEPT ![x] = W!Nowhere]
         /\ r.at = s.at /\ r.look = s.look
         /\ \A cid \in Cids : r.open[cid].bag = s.open[cid].bag
         /\ \A cid \in Cids : s.open[cid].bag # s.parent[x] => r.open[cid] = s.open[cid]
<1> DEFINE a == s.parent[x]
           slot == W!SlotOf(s, a, x)
<1>1. /\ Loses(s, r, x)
      /\ r = [parent |-> r.parent, list |-> r.list, look |-> s.look, at |-> s.at,
              open |-> r.open, window |-> r.window]
      /\ a \notin Bags => r.open = s.open /\ r.window = s.window
      /\ a \in Bags => r.open = OpenAfter(s, a) /\ r.window = WindowAfter(s, a, slot)
  BY RemoveThingIs DEF Steady
<1>2. /\ Placed(r) /\ Listed(r)
      /\ r.list \in [Bags -> Seq(Things)] /\ r.parent \in [Things -> Grounds \cup Bags]
      /\ \A b \in Bags : b # a => r.list[b] = s.list[b]
  BY <1>1, RemovedList
<1>3. r.look = s.look /\ r.at = s.at
  BY <1>1
<1>4. /\ s.look \in [Things -> Int] /\ s.at \in Int
      /\ s.open \in [Cids -> [bag : Bags \cup {W!None}, index : Nat]]
      /\ s.window = [cid \in Cids |-> s.window[cid]]
  BY DEF Steady, Shape
<1>5. r.parent = [s.parent EXCEPT ![x] = W!Nowhere]
  BY <1>1 DEF Loses
<1>6. CASE a \notin Bags
  <2>1. r.open = s.open /\ r.window = s.window /\ r.list = s.list
    BY <1>1, <1>6 DEF Loses
  <2>2. Shape(r)
    BY <1>1, <1>2, <1>3, <1>4, <2>1 DEF Shape
  <2>3. Leafed(r)
    BY <2>1 DEF Steady, Leafed, Begins
  <2>4. Synced(r, M)
    BY <1>3, <2>1, ShowsSame DEF Steady, Synced
  <2> QED
    BY <1>2, <1>3, <1>5, <2>1, <2>2, <2>3, <2>4 DEF Steady
<1>7. CASE a \in Bags
  <2>1. r.open = OpenAfter(s, a) /\ r.window = WindowAfter(s, a, slot)
    BY <1>1, <1>7
  <2>2. slot \in 0..(Len(s.list[a]) - 1) /\ Len(s.list[a]) >= 1
    <3>1. slot \in 0..(Len(s.list[a]) - 1)
      BY <1>7, SlotIs DEF Steady
    <3>2. Len(s.list[a]) \in Nat
      BY <1>7 DEF Steady, Shape
    <3> QED
      BY <3>1, <3>2
  <2>3. r.list[a] = W!RemoveAt(s.list[a], slot + 1)
    <3>1. r.list = [s.list EXCEPT ![a] = W!RemoveAt(s.list[a], slot + 1)]
      BY <1>1, <1>7 DEF Loses
    <3>2. DOMAIN s.list = Bags
      BY DEF Steady, Shape
    <3> QED
      BY <1>7, <3>1, <3>2
  <2>4. Len(r.list[a]) = Len(s.list[a]) - 1
    <3> DEFINE l == s.list[a]
    <3>1. l \in Seq(Things) /\ slot + 1 \in 1..Len(l) /\ r.list[a] = W!RemoveAt(l, slot + 1)
      BY <1>7, <2>2, <2>3 DEF Steady, Shape
    <3> HIDE DEF l
    <3>2. Len(r.list[a]) = Len(l) - 1
      BY <3>1, RemoveAtIs
    <3> QED
      BY <3>2 DEF l
  <2> HIDE DEF a, slot
  <2>5. ASSUME NEW cid \in Cids
        PROVE  /\ r.open[cid].bag = s.open[cid].bag
               /\ r.open[cid] = [bag |-> r.open[cid].bag, index |-> r.open[cid].index]
               /\ s.open[cid].bag = a =>
                    r.open[cid].index = FirstIndex(s, a, s.open[cid].index)
               /\ s.open[cid].bag # a => r.open[cid].index = s.open[cid].index
               /\ s.open[cid].bag = a /\ s.window[cid] # W!Shut =>
                    r.window[cid] = Sent(s, a, slot, s.open[cid].index, s.window[cid])
               /\ ~(s.open[cid].bag = a /\ s.window[cid] # W!Shut) => r.window[cid] = s.window[cid]
    <3>1. s.open[cid] = [bag |-> s.open[cid].bag, index |-> s.open[cid].index]
      BY <1>4
    <3>2. cid \in W!Showing(s, a) <=> s.open[cid].bag = a
      BY DEF W!Showing
    <3>3. r.open[cid] = IF s.open[cid].bag = a
                        THEN [s.open[cid] EXCEPT !.index = FirstIndex(s, a, s.open[cid].index)]
                        ELSE s.open[cid]
      BY <2>1, <3>2 DEF OpenAfter
    <3>4. r.window[cid] = IF s.open[cid].bag = a /\ s.window[cid] # W!Shut
                          THEN Sent(s, a, slot, s.open[cid].index, s.window[cid])
                          ELSE s.window[cid]
      BY <2>1, <3>2 DEF WindowAfter
    <3>5. r.open[cid] = [bag |-> s.open[cid].bag,
                         index |-> IF s.open[cid].bag = a
                                   THEN FirstIndex(s, a, s.open[cid].index)
                                   ELSE s.open[cid].index]
      <4> DEFINE o == s.open[cid]
                 g == o.bag
                 i == o.index
                 j == FirstIndex(s, a, s.open[cid].index)
      <4>1. o = [bag |-> g, index |-> i]
        BY <3>1
      <4> HIDE DEF o, g, i, j
      <4>2. [o EXCEPT !.index = j] = [bag |-> g, index |-> j]
        BY <4>1
      <4> QED
        BY <3>3, <4>1, <4>2 DEF o, g, i, j
    <3>6. /\ r.open[cid].bag = s.open[cid].bag
          /\ r.open[cid] = [bag |-> r.open[cid].bag, index |-> r.open[cid].index]
          /\ s.open[cid].bag = a => r.open[cid].index = FirstIndex(s, a, s.open[cid].index)
          /\ s.open[cid].bag # a => r.open[cid].index = s.open[cid].index
      <4> DEFINE o == r.open[cid]
                 g == s.open[cid].bag
                 i == s.open[cid].index
                 j == FirstIndex(s, a, s.open[cid].index)
      <4>1. o = [bag |-> g, index |-> IF g = a THEN j ELSE i]
        BY <3>5
      <4> HIDE DEF o, g, i, j
      <4>2. o.bag = g /\ o = [bag |-> o.bag, index |-> o.index]
            /\ (g = a => o.index = j) /\ (g # a => o.index = i)
        BY <4>1
      <4> QED
        BY <4>2 DEF o, g, i, j
    <3>7. s.open[cid].bag = a /\ s.window[cid] # W!Shut =>
             r.window[cid] = Sent(s, a, slot, s.open[cid].index, s.window[cid])
      BY <3>4
    <3>8. ~(s.open[cid].bag = a /\ s.window[cid] # W!Shut) => r.window[cid] = s.window[cid]
      BY <3>4
    <3> QED
      BY <3>6, <3>7, <3>8
  <2>6. ASSUME NEW cid \in Cids, s.open[cid].bag # W!None
        PROVE  s.open[cid].bag \in Bags /\ Begins(s, s.open[cid].bag, s.open[cid].index)
    BY <1>4, <2>6 DEF Steady, Leafed
  <2>7. ASSUME NEW cid \in Cids, s.open[cid].bag = a
        PROVE  /\ FirstIndex(s, a, s.open[cid].index) \in Nat
               /\ Begins(r, a, FirstIndex(s, a, s.open[cid].index))
    <3>1. Begins(s, a, s.open[cid].index)
      BY <1>7, <2>6, <2>7, Apart
    <3> QED
      BY <1>7, <2>2, <2>4, <3>1, FirstBegins DEF Steady
  <2>8. r.open \in [Cids -> [bag : Bags \cup {W!None}, index : Nat]]
    <3>1. ASSUME NEW cid \in Cids PROVE r.open[cid] \in [bag : Bags \cup {W!None}, index : Nat]
      <4>1. r.open[cid].bag \in Bags \cup {W!None} /\ s.open[cid].index \in Nat
        BY <1>4, <2>5
      <4>2. r.open[cid].index \in Nat
        BY <2>5, <2>7, <4>1
      <4>3. r.open[cid] = [bag |-> r.open[cid].bag, index |-> r.open[cid].index]
        BY <2>5
      <4> DEFINE o == r.open[cid]
      <4>4. o.bag \in Bags \cup {W!None} /\ o.index \in Nat /\ o = [bag |-> o.bag, index |-> o.index]
        BY <4>1, <4>2, <4>3
      <4> HIDE DEF o
      <4>5. o \in [bag : Bags \cup {W!None}, index : Nat]
        BY <4>4
      <4> QED
        BY <4>5 DEF o
    <3>2. r.open = [cid \in Cids |-> r.open[cid]]
      BY <2>1 DEF OpenAfter
    <3> QED
      BY <3>1, <3>2
  <2>9. r.window = [cid \in Cids |-> r.window[cid]]
    BY <2>1 DEF WindowAfter
  <2>10. Shape(r)
    BY <1>1, <1>2, <1>3, <1>4, <2>8, <2>9 DEF Shape
  <2>11. Leafed(r)
    <3> SUFFICES ASSUME NEW cid \in Cids, r.open[cid].bag # W!None
                 PROVE  Begins(r, r.open[cid].bag, r.open[cid].index)
      BY DEF Leafed
    <3>1. CASE s.open[cid].bag = a
      BY <2>5, <2>7, <3>1
    <3>2. CASE s.open[cid].bag # a
      <4>1. r.open[cid].bag = s.open[cid].bag /\ r.open[cid].index = s.open[cid].index
        BY <2>5, <3>2
      <4>2. s.open[cid].bag \in Bags /\ Begins(s, s.open[cid].bag, s.open[cid].index)
        BY <2>6, <4>1
      <4>3. r.list[s.open[cid].bag] = s.list[s.open[cid].bag]
        BY <1>2, <3>2, <4>2
      <4> QED
        BY <4>1, <4>2, <4>3 DEF Begins
    <3> QED
      BY <3>1, <3>2
  <2>12. Synced(r, M)
    <3> SUFFICES ASSUME NEW cid \in Cids \ M, r.window[cid] # W!Shut
                 PROVE  r.open[cid].bag \in Bags
                        /\ Shows(r, r.open[cid].bag, r.open[cid].index, r.window[cid])
      BY DEF Synced
    <3>1. s.window[cid] # W!Shut
      BY <2>5
    <3>2. s.open[cid].bag \in Bags
          /\ Shows(s, s.open[cid].bag, s.open[cid].index, s.window[cid])
      BY <3>1 DEF Steady, Synced
    <3>3. CASE s.open[cid].bag = a
      <4> DEFINE k == s.open[cid].index
                 v == s.window[cid]
      <4>1. /\ Shape(s) /\ Shape(r) /\ a \in Bags /\ slot \in 0..(Len(s.list[a]) - 1)
            /\ r.list[a] = W!RemoveAt(s.list[a], slot + 1) /\ r.look = s.look
            /\ Begins(s, a, k) /\ Shows(s, a, k, v)
        BY <1>3, <1>7, <2>2, <2>3, <2>6, <2>10, <3>2, <3>3, Apart DEF Steady
      <4>2. /\ r.open[cid].bag = a /\ r.open[cid].index = FirstIndex(s, a, k)
            /\ r.window[cid] = Sent(s, a, slot, k, v)
        BY <2>5, <3>1, <3>3
      <4> HIDE DEF k, v
      <4>3. Shows(r, a, FirstIndex(s, a, k), Sent(s, a, slot, k, v))
        BY ONLY <4>1, SentShows, Zenon
      <4> QED
        BY <1>7, <4>2, <4>3
    <3>4. CASE s.open[cid].bag # a
      <4>1. /\ r.open[cid].bag = s.open[cid].bag /\ r.open[cid].index = s.open[cid].index
            /\ r.window[cid] = s.window[cid]
        BY <2>5, <3>4
      <4>2. r.list[s.open[cid].bag] = s.list[s.open[cid].bag]
        BY <1>2, <3>2, <3>4
      <4> QED
        BY <1>3, <3>2, <4>1, <4>2, ShowsSame
    <3> QED
      BY <3>3, <3>4
  <2>13. ASSUME NEW cid \in Cids, s.open[cid].bag # a
         PROVE  r.open[cid] = s.open[cid]
    <3>1. cid \notin W!Showing(s, a)
      BY <2>13 DEF W!Showing
    <3> QED
      BY <2>1, <3>1 DEF OpenAfter
  <2>14. Steady(r, M)
    BY <1>2, <2>10, <2>11, <2>12 DEF Steady
  <2>15. \A cid \in Cids : r.open[cid].bag = s.open[cid].bag
    BY <2>5
  <2>16. \A cid \in Cids : s.open[cid].bag # a => r.open[cid] = s.open[cid]
    BY <2>13
  <2> QED
    BY <1>2, <1>3, <1>5, <2>14, <2>15, <2>16 DEF a
<1> QED
  BY <1>6, <1>7

-----------------------------------------------------------------------------
(* What is open and shown may become anything that fits the lists.         *)
Only(s, r, o, w) ==
    r = [parent |-> s.parent, list |-> s.list, look |-> s.look, at |-> s.at,
         open |-> o, window |-> w]

FitsAt(s, b, k, v) ==
    /\ b \in Bags \cup {W!None} /\ k \in Nat
    /\ b # W!None => Begins(s, b, k)
    /\ v # W!Shut => b \in Bags /\ Shows(s, b, k, v)

(* A window of M might as well be shut, for all that is said of it.        *)
Unless(M, cid, v) == IF cid \in M THEN W!Shut ELSE v

Fine(s, o, w, M) ==
    /\ o \in [Cids -> [bag : Bags \cup {W!None}, index : Nat]]
    /\ w = [cid \in Cids |-> w[cid]]
    /\ \A cid \in Cids : FitsAt(s, o[cid].bag, o[cid].index, Unless(M, cid, w[cid]))

LEMMA FitsUnless ==
  ASSUME NEW s, NEW b, NEW k, NEW v, FitsAt(s, b, k, v), NEW M, NEW cid
  PROVE  FitsAt(s, b, k, Unless(M, cid, v))
BY DEF FitsAt, Unless

LEMMA FineNow ==
  ASSUME NEW M, NEW s, Steady(s, M)
  PROVE  Fine(s, s.open, s.window, M)
<1>1. /\ s.open \in [Cids -> [bag : Bags \cup {W!None}, index : Nat]]
      /\ s.window = [cid \in Cids |-> s.window[cid]]
  BY DEF Steady, Shape
<1>2. ASSUME NEW cid \in Cids
      PROVE  FitsAt(s, s.open[cid].bag, s.open[cid].index, Unless(M, cid, s.window[cid]))
  <2>1. s.open[cid].bag \in Bags \cup {W!None} /\ s.open[cid].index \in Nat
    BY <1>1
  <2> QED
    BY <2>1 DEF FitsAt, Steady, Leafed, Synced, Unless
<1> QED
  BY <1>1, <1>2 DEF Fine

LEMMA WithWindows ==
  ASSUME NEW M, NEW s, Steady(s, M), NEW o, NEW w, Fine(s, o, w, M), NEW r, Only(s, r, o, w)
  PROVE  /\ Steady(r, M) /\ r.parent = s.parent /\ r.list = s.list /\ r.look = s.look
         /\ r.at = s.at /\ r.open = o /\ r.window = w
<1>1. /\ r.parent = s.parent /\ r.list = s.list /\ r.look = s.look /\ r.at = s.at
      /\ r.open = o /\ r.window = w
      /\ r = [parent |-> r.parent, list |-> r.list, look |-> r.look, at |-> r.at,
              open |-> r.open, window |-> r.window]
  BY DEF Only
<1>2. Shape(r)
  BY <1>1 DEF Steady, Shape, Fine
<1>3. Placed(r) /\ Listed(r)
  BY <1>1 DEF Steady, Placed, Listed
<1>4. Leafed(r)
  BY <1>1 DEF Leafed, Fine, FitsAt, Begins
<1>5. \A b, k, v : Shows(s, b, k, v) <=> Shows(r, b, k, v)
  BY <1>1 DEF Shows
<1>6. Synced(r, M)
  BY <1>1, <1>5 DEF Synced, Fine, FitsAt, Unless
<1> QED
  BY <1>1, <1>2, <1>3, <1>4, <1>6 DEF Steady

(* What changes in the window of one number.                               *)
LEMMA FineAtOne ==
  ASSUME NEW M, NEW s, NEW o, NEW w, Fine(s, o, w, M), NEW c \in Cids, NEW b, NEW k, NEW v, FitsAt(s, b, k, v)
  PROVE  Fine(s, [o EXCEPT ![c] = [bag |-> b, index |-> k]], [w EXCEPT ![c] = v], M)
<1> DEFINE n == [bag |-> b, index |-> k]
           oo == [o EXCEPT ![c] = n]
           ww == [w EXCEPT ![c] = v]
<1>1. n \in [bag : Bags \cup {W!None}, index : Nat] /\ n.bag = b /\ n.index = k
  BY DEF FitsAt
<1>2. o \in [Cids -> [bag : Bags \cup {W!None}, index : Nat]] /\ w = [cid \in Cids |-> w[cid]]
  BY DEF Fine
<1> HIDE DEF n
<1>3. oo \in [Cids -> [bag : Bags \cup {W!None}, index : Nat]]
      /\ \A cid \in Cids : oo[cid] = IF cid = c THEN n ELSE o[cid]
  BY <1>1, <1>2
<1>4. /\ \A cid \in Cids : ww[cid] = IF cid = c THEN v ELSE w[cid]
      /\ ww = [cid \in Cids |-> ww[cid]]
  <2>1. DOMAIN w = Cids
    BY <1>2
  <2> QED
    BY <2>1
<1> HIDE DEF oo, ww
<1>5. ASSUME NEW cid \in Cids
      PROVE  FitsAt(s, oo[cid].bag, oo[cid].index, Unless(M, cid, ww[cid]))
  <2>1. CASE cid = c
    BY <1>1, <1>3, <1>4, <2>1, FitsUnless
  <2>2. CASE cid # c
    <3>1. oo[cid] = o[cid] /\ ww[cid] = w[cid]
      BY <1>3, <1>4, <2>2
    <3> QED
      BY <3>1 DEF Fine
  <2> QED
    BY <2>1, <2>2
<1>6. Fine(s, oo, ww, M)
  BY <1>3, <1>4, <1>5 DEF Fine
<1> QED
  BY <1>6 DEF oo, ww, n

LEMMA ShutFits ==
  ASSUME NEW s
  PROVE  FitsAt(s, W!None, 0, W!Shut)
BY DEF FitsAt

LEMMA PageFits ==
  ASSUME NEW s, Shape(s), NEW b \in Bags, NEW k, Begins(s, b, k)
  PROVE  FitsAt(s, b, k, W!Page(s, b, k))
<1>1. k \in 0..Len(s.list[b]) /\ k \in Nat
  BY PagesBegin DEF Begins
<1>2. Shows(s, b, k, W!Page(s, b, k))
  BY <1>1, PageIs
<1> QED
  BY <1>1, <1>2 DEF FitsAt

(* Closing windows.                                                        *)
LEMMA CloseAllKeeps ==
  ASSUME NEW M, NEW s, Steady(s, M), NEW closed, NEW r, r = W!CloseAll(s, closed)
  PROVE  /\ Steady(r, M) /\ r.parent = s.parent /\ r.list = s.list /\ r.look = s.look
         /\ r.at = s.at
         /\ \A cid \in Cids : r.open[cid].bag # W!None => cid \notin closed /\ r.open[cid] = s.open[cid]
<1> DEFINE none == [bag |-> W!None, index |-> 0]
           o == [cid \in Cids |-> IF cid \in closed THEN none ELSE s.open[cid]]
           w == [cid \in Cids |-> IF cid \in closed THEN W!Shut ELSE s.window[cid]]
<1>1. r = [s EXCEPT !.open = o, !.window = w]
  BY DEF W!CloseAll
<1>2. none \in [bag : Bags \cup {W!None}, index : Nat] /\ none.bag = W!None /\ none.index = 0
  OBVIOUS
<1> HIDE DEF none
<1>3. \A cid \in Cids : /\ o[cid] = IF cid \in closed THEN none ELSE s.open[cid]
                        /\ w[cid] = IF cid \in closed THEN W!Shut ELSE s.window[cid]
  OBVIOUS
<1>4. Fine(s, s.open, s.window, M)
  BY FineNow
<1>5. s.open \in [Cids -> [bag : Bags \cup {W!None}, index : Nat]]
  BY <1>4 DEF Fine
<1>6. o \in [Cids -> [bag : Bags \cup {W!None}, index : Nat]] /\ w = [cid \in Cids |-> w[cid]]
  BY <1>2, <1>5
<1> HIDE DEF o, w
<1>7. ASSUME NEW cid \in Cids
      PROVE  FitsAt(s, o[cid].bag, o[cid].index, Unless(M, cid, w[cid]))
  <2>1. CASE cid \in closed
    BY <1>2, <1>3, <2>1, ShutFits, FitsUnless
  <2>2. CASE cid \notin closed
    BY <1>3, <1>4, <2>2 DEF Fine
  <2> QED
    BY <2>1, <2>2
<1>8. Fine(s, o, w, M)
  BY <1>6, <1>7 DEF Fine
<1>9. Only(s, r, o, w)
  BY <1>1, OpenAndWindow DEF Steady, Only
<1>10. /\ Steady(r, M) /\ r.parent = s.parent /\ r.list = s.list /\ r.look = s.look /\ r.at = s.at
       /\ r.open = o
  BY <1>8, <1>9, WithWindows
<1> QED
  BY <1>2, <1>3, <1>10

LEMMA AutoCloseKeeps ==
  ASSUME NEW M, NEW s, Steady(s, M), NEW bs, NEW r, r = W!AutoCloseContainers(s, bs)
  PROVE  /\ Steady(r, M) /\ r.parent = s.parent /\ r.list = s.list /\ r.look = s.look
         /\ r.at = s.at
         /\ \A cid \in Cids : r.open[cid].bag # W!None =>
               /\ r.open[cid] = s.open[cid]
               /\ \A c \in bs : ~ W!Within(s, s.open[cid].bag, c)
<1>1. CASE bs = {}
  <2>1. r = s
    BY <1>1 DEF W!AutoCloseContainers
  <2> QED
    BY <1>1, <2>1
<1>2. CASE bs # {}
  <2> DEFINE closes(b) == W!IsRemoved(s, b) \/ \E c \in bs : W!Within(s, b, c)
             closed == {cid \in Cids : s.open[cid].bag # W!None /\ closes(s.open[cid].bag)}
  <2>1. r = W!CloseAll(s, closed)
    BY <1>2 DEF W!AutoCloseContainers
  <2>2. \A cid \in Cids : cid \notin closed => s.open[cid].bag = W!None \/ ~ closes(s.open[cid].bag)
    OBVIOUS
  <2> HIDE DEF closed
  <2>3. /\ Steady(r, M) /\ r.parent = s.parent /\ r.list = s.list /\ r.look = s.look
        /\ r.at = s.at
        /\ \A cid \in Cids : r.open[cid].bag # W!None =>
              cid \notin closed /\ r.open[cid] = s.open[cid]
    BY <2>1, CloseAllKeeps
  <2> QED
    BY <2>2, <2>3
<1> QED
  BY <1>1, <1>2

(* Pages sent anew.                                                        *)
LEMMA OnlyWindow ==
  ASSUME NEW s, Shape(s), NEW w
  PROVE  Only(s, [s EXCEPT !.window = w], s.open, w)
<1> DEFINE p == s.parent
           l == s.list
           f == s.look
           n == s.at
           o == s.open
           ww == s.window
<1>1. s = [parent |-> p, list |-> l, look |-> f, at |-> n, open |-> o, window |-> ww]
  BY DEF Shape
<1> HIDE DEF p, l, f, n, o, ww
<1>2. [s EXCEPT !.window = w] =
        [parent |-> p, list |-> l, look |-> f, at |-> n, open |-> o, window |-> w]
  BY <1>1
<1> QED
  BY <1>2 DEF Only, p, l, f, n, o

LEMMA OnSendKeeps ==
  ASSUME NEW M, NEW s, Steady(s, M), NEW b \in Bags, NEW r, r = W!OnSendContainer(s, b)
  PROVE  /\ Steady(r, M) /\ r.parent = s.parent /\ r.list = s.list /\ r.look = s.look
         /\ r.at = s.at /\ r.open = s.open
<1> DEFINE w == [cid \in Cids |-> IF cid \in W!Showing(s, b)
                                  THEN W!Page(s, b, s.open[cid].index) ELSE s.window[cid]]
<1>1. r = [s EXCEPT !.window = w]
  BY DEF W!OnSendContainer
<1>2. /\ \A cid \in Cids : w[cid] = IF cid \in W!Showing(s, b)
                                    THEN W!Page(s, b, s.open[cid].index) ELSE s.window[cid]
      /\ w = [cid \in Cids |-> w[cid]]
  OBVIOUS
<1> HIDE DEF w
<1>3. Fine(s, s.open, s.window, M)
  BY FineNow
<1>4. ASSUME NEW cid \in Cids
      PROVE  FitsAt(s, s.open[cid].bag, s.open[cid].index, Unless(M, cid, w[cid]))
  <2>1. CASE s.open[cid].bag = b
    <3>1. w[cid] = W!Page(s, b, s.open[cid].index)
      BY <1>2, <2>1 DEF W!Showing
    <3>2. Begins(s, b, s.open[cid].index)
      BY <2>1, Apart DEF Steady, Leafed
    <3> QED
      BY <2>1, <3>1, <3>2, PageFits, FitsUnless DEF Steady
  <2>2. CASE s.open[cid].bag # b
    <3>1. w[cid] = s.window[cid]
      BY <1>2, <2>2 DEF W!Showing
    <3> QED
      BY <1>3, <3>1 DEF Fine
  <2> QED
    BY <2>1, <2>2
<1>5. Fine(s, s.open, w, M)
  BY <1>2, <1>3, <1>4 DEF Fine
<1>6. Only(s, r, s.open, w)
  BY <1>1, OnlyWindow DEF Steady
<1> QED
  BY <1>5, <1>6, WithWindows

-----------------------------------------------------------------------------
(* Where things are when one has moved.                                    *)
Moved(s, r, x, to) ==
    MayMove(Bags, Grounds, s.parent, x, to) /\ r.parent = [s.parent EXCEPT ![x] = to]

Inside(s, b, x) == b = x \/ x \in Over(Bags, s.parent, b)

LEMMA WithinIs == \A s, b, x : W!Within(s, b, x) <=> Inside(s, b, x)
BY SameOver DEF W!Within, Inside

LEMMA PlaceKept ==
  ASSUME NEW up \in [Things -> Grounds \cup Bags], NEW x \in Things, NEW to, NEW b \in Bags,
         b # x, x \notin Over(Bags, up, b)
  PROVE  Over(Bags, [up EXCEPT ![x] = to], b) = Over(Bags, up, b)
<1> DEFINE m == [up EXCEPT ![x] = to]
<1>1. Bags \subseteq Things /\ b \in Things /\ \A k \in Things : k # x => m[k] = up[k]
  BY Apart
<1> HIDE DEF m
<1>2. Over(Bags, m, b) = Over(Bags, up, b)
  BY <1>1, OthersKeepTheirPlace
<1> QED
  BY <1>2 DEF m

LEMMA HolderAfter ==
  ASSUME NEW s, Placed(s), NEW r, Placed(r), NEW x \in Things, NEW to, Moved(s, r, x, to),
         NEW b \in Bags
  PROVE  /\ ~ Inside(s, b, x) => W!Holder(r, b) = W!Holder(s, b)
         /\ Inside(s, b, x) => /\ Inside(r, b, x) /\ x \in Bags
                               /\ W!Holder(s, b) = W!Holder(s, x)
                               /\ W!Holder(r, b) = W!Holder(r, x)
<1>1. b \in Things /\ Bags \subseteq Things /\ Grounds \cap Things = {}
  BY Apart
<1>2. /\ MayMove(Bags, Grounds, s.parent, x, to) /\ r.parent = [s.parent EXCEPT ![x] = to]
      /\ Forest(Bags, Things, Grounds, s.parent)
      /\ \A k \in Things : k # x => r.parent[k] = s.parent[k]
  BY DEF Moved, Placed, Forest
<1>3. ASSUME ~ Inside(s, b, x) PROVE W!Holder(r, b) = W!Holder(s, b)
  <2>1. b # x /\ x \notin Over(Bags, s.parent, b)
    BY <1>3 DEF Inside
  <2>2. Over(Bags, r.parent, b) = Over(Bags, s.parent, b)
    <3>1. s.parent \in [Things -> Grounds \cup Bags]
      BY <1>2 DEF Forest
    <3> QED
      BY <1>2, <2>1, <3>1, PlaceKept
  <2> QED
    BY <1>1, <2>2, HolderSame
<1>4. ASSUME x \in Over(Bags, s.parent, b)
      PROVE  /\ x \in Over(Bags, r.parent, b) /\ x \in Bags
  <2>1. x \in Over(Bags, [s.parent EXCEPT ![x] = to], b)
    BY <1>1, <1>2, <1>4, InsideMoves
  <2>2. x \in Bags
    <3>1. PICK g \in Grounds : Over(Bags, s.parent, b) \ Bags = {g}
      BY <1>1 DEF Placed, Forest
    <3> QED
      BY <1>1, <1>4, <3>1
  <2> QED
    BY <1>2, <2>1, <2>2
<1>5. ASSUME Inside(s, b, x)
      PROVE  /\ Inside(r, b, x) /\ x \in Bags
             /\ W!Holder(s, b) = W!Holder(s, x)
             /\ W!Holder(r, b) = W!Holder(r, x)
  <2>1. CASE b = x
    BY <2>1 DEF Inside
  <2>2. CASE x \in Over(Bags, s.parent, b)
    <3>1. x \in Over(Bags, r.parent, b) /\ x \in Bags
      BY <1>4, <2>2
    <3> QED
      BY <1>1, <2>2, <3>1, HolderInside DEF Inside
  <2> QED
    BY <1>5, <2>1, <2>2 DEF Inside
<1> QED
  BY <1>3, <1>5

(* What a thing lies in is held where the thing is.                        *)
LEMMA HolderOfPlace ==
  ASSUME NEW s, Placed(s), NEW x \in Things
  PROVE  /\ s.parent[x] \in Bags => W!Holder(s, s.parent[x]) = W!Holder(s, x)
                                    /\ ~ Inside(s, s.parent[x], x)
         /\ s.parent[x] \notin Bags => W!Holder(s, x) = s.parent[x]
<1> DEFINE a == s.parent[x]
<1>1. a \in Over(Bags, s.parent, x)
  BY OverClosed
<1>2. a \notin Bags => W!Holder(s, x) = a
  BY <1>1, HolderIs
<1>3. a \in Bags => W!Holder(s, x) = W!Holder(s, a)
  <2> HIDE DEF a
  <2> QED
    BY <1>1, HolderInside
<1>4. x \notin Over(Bags, s.parent, x)
  BY DEF Placed, Forest
<1>5. a \in Bags => a # x /\ x \notin Over(Bags, s.parent, a)
  <2>1. a \in Bags => Over(Bags, s.parent, a) \subseteq Over(Bags, s.parent, x)
    <3> HIDE DEF a
    <3> QED
      BY <1>1, OverThrough
  <2> QED
    BY <1>1, <1>4, <2>1
<1> QED
  BY <1>2, <1>3, <1>5 DEF Inside

LEMMA ReachesOpen ==
  ASSUME NEW s, Placed(s), NEW r, Placed(r), NEW x \in Things, NEW to, Moved(s, r, x, to),
         W!Holder(s, x) \notin {W!Theirs, W!Nowhere}
  PROVE  W!Reaches(r, s.parent[x])
<1> DEFINE a == s.parent[x]
<1>1. CASE a \in Bags
  <2>1. W!Holder(s, a) = W!Holder(s, x) /\ ~ Inside(s, a, x)
    BY <1>1, HolderOfPlace
  <2>2. W!Holder(r, a) = W!Holder(s, a)
    <3> HIDE DEF a
    <3> QED
      BY <1>1, <2>1, HolderAfter
  <2> QED
    BY <1>1, <2>1, <2>2 DEF W!Reaches
<1>2. CASE a \notin Bags
  <2>1. W!Holder(s, x) = a
    BY <1>2, HolderOfPlace
  <2> QED
    BY <1>2, <2>1 DEF W!Reaches
<1> QED
  BY <1>1, <1>2

(* What goes after a thing out of a place, the bags in it, stay open only  *)
(* when the player still reaches it.                                       *)
LEMMA PostRemoveKeeps ==
  ASSUME NEW M, NEW s, Sound(s, M), NEW x \in Things, NEW to, NEW m, Steady(m, M), Moved(s, m, x, to),
         m.at = s.at, \A cid \in Cids : m.open[cid].bag = s.open[cid].bag,
         NEW near, NEW r, r = W!PostRemove(m, s.parent[x], x, near)
  PROVE  Sound(r, M) /\ r.parent = m.parent
<1>1. Placed(s) /\ Placed(m) /\ Steady(s, M) /\ Open(s)
  BY DEF Sound, Steady
<1>2. ASSUME NEW cid \in Cids, s.open[cid].bag # W!None
      PROVE  s.open[cid].bag \in Bags /\ Reached(s, s.open[cid].bag)
  BY <1>1, <1>2 DEF Open, Steady, Shape
<1>3. ASSUME NEW b \in Bags, Reached(s, b), ~ Inside(s, b, x) PROVE Reached(m, b)
  <2>1. W!Holder(m, b) = W!Holder(s, b)
    BY <1>1, <1>3, HolderAfter
  <2> QED
    BY <1>3, <2>1 DEF Reached
<1>4. ASSUME NEW b \in Bags, Reached(s, b), Inside(s, b, x)
      PROVE  /\ W!Reaches(m, s.parent[x]) /\ x \in Bags /\ Inside(m, b, x)
             /\ Reached(m, x) => Reached(m, b)
  <2>1. /\ Inside(m, b, x) /\ x \in Bags /\ W!Holder(s, b) = W!Holder(s, x)
        /\ W!Holder(m, b) = W!Holder(m, x)
    BY <1>1, <1>4, HolderAfter
  <2>2. W!Holder(s, x) \notin {W!Theirs, W!Nowhere}
    BY <1>4, <2>1 DEF Reached
  <2>3. W!Reaches(m, s.parent[x])
    BY <1>1, <2>2, ReachesOpen
  <2> QED
    BY <2>1, <2>3 DEF Reached
<1> DEFINE shuts == W!Reaches(m, s.parent[x]) /\ x \in Bags
                    /\ (W!IsRemoved(m, x) \/ ~ W!InRange(m, x, near) \/ W!Holder(m, x) = W!Theirs)
           stays == W!Reaches(m, s.parent[x]) /\ x \in Bags
                    /\ ~(W!IsRemoved(m, x) \/ ~ W!InRange(m, x, near) \/ W!Holder(m, x) = W!Theirs)
<1>5. /\ shuts => r = W!AutoCloseContainers(m, {x})
      /\ stays => r = W!OnSendContainer(m, x)
      /\ ~ shuts /\ ~ stays => r = m
  BY DEF W!PostRemove
<1>6. CASE shuts
  <2>1. /\ Steady(r, M) /\ r.parent = m.parent /\ r.at = m.at
        /\ \A cid \in Cids : r.open[cid].bag # W!None =>
              r.open[cid] = m.open[cid] /\ \A c \in {x} : ~ W!Within(m, m.open[cid].bag, c)
    BY <1>5, <1>6, AutoCloseKeeps
  <2>2. ASSUME NEW cid \in Cids, r.open[cid].bag # W!None PROVE Reached(r, r.open[cid].bag)
    <3>1. r.open[cid].bag = s.open[cid].bag /\ ~ Inside(m, s.open[cid].bag, x)
      BY <2>1, <2>2, WithinIs
    <3>2. s.open[cid].bag \in Bags /\ Reached(s, s.open[cid].bag)
      BY <1>2, <2>2, <3>1
    <3>3. Reached(m, s.open[cid].bag)
      BY <1>3, <1>4, <3>1, <3>2
    <3> QED
      BY <2>1, <3>1, <3>3 DEF Reached, W!Holder
  <2>3. Open(r)
    BY <2>2 DEF Open
  <2> QED
    BY <2>1, <2>3 DEF Steady, Sound
<1>7. CASE stays
  <2>1. Steady(r, M) /\ r.parent = m.parent /\ r.at = m.at /\ r.open = m.open
    BY <1>5, <1>7, OnSendKeeps
  <2>2. Reached(m, x)
    BY <1>7, InRangeReached DEF W!IsRemoved
  <2>3. ASSUME NEW cid \in Cids, r.open[cid].bag # W!None PROVE Reached(r, r.open[cid].bag)
    <3>1. r.open[cid].bag = s.open[cid].bag
      BY <2>1
    <3>2. s.open[cid].bag \in Bags /\ Reached(s, s.open[cid].bag)
      BY <1>2, <2>3, <3>1
    <3>3. Reached(m, s.open[cid].bag)
      BY <1>3, <1>4, <2>2, <3>2
    <3> QED
      BY <2>1, <3>1, <3>3 DEF Reached, W!Holder
  <2>4. Open(r)
    BY <2>3 DEF Open
  <2> QED
    BY <2>1, <2>4 DEF Steady, Sound
<1>8. CASE ~ shuts /\ ~ stays
  <2>1. r = m
    BY <1>5, <1>8
  <2>2. ~(W!Reaches(m, s.parent[x]) /\ x \in Bags)
    BY <1>8
  <2>3. ASSUME NEW cid \in Cids, m.open[cid].bag # W!None PROVE Reached(m, m.open[cid].bag)
    <3>1. m.open[cid].bag = s.open[cid].bag
      OBVIOUS
    <3>2. s.open[cid].bag \in Bags /\ Reached(s, s.open[cid].bag)
      BY <1>2, <2>3, <3>1
    <3> QED
      BY <1>3, <1>4, <2>2, <3>1, <3>2
  <2>4. Open(m)
    BY <2>3 DEF Open
  <2> QED
    BY <2>1, <2>4 DEF Steady, Sound
<1> QED
  BY <1>6, <1>7, <1>8

LEMMA PostAddKeeps ==
  ASSUME NEW M, NEW s, Sound(s, M), NEW to, NEW x \in Things, NEW r, r = W!PostAdd(s, to, x)
  PROVE  Sound(r, M)
<1>1. CASE W!Reaches(s, to) /\ x \in Bags
  <2>1. r = W!OnSendContainer(s, x)
    BY <1>1 DEF W!PostAdd
  <2>2. Steady(r, M) /\ r.parent = s.parent /\ r.at = s.at /\ r.open = s.open
    BY <1>1, <2>1, OnSendKeeps DEF Sound, Steady
  <2>3. Open(r)
    BY <2>2 DEF Sound, Open, Reached, W!Holder
  <2> QED
    BY <2>2, <2>3 DEF Sound, Steady
<1>2. CASE ~(W!Reaches(s, to) /\ x \in Bags)
  BY <1>2 DEF W!PostAdd
<1> QED
  BY <1>1, <1>2

(* A thing that moves or is taken away leaves all in order.                *)
LEMMA MoveKeeps ==
  ASSUME NEW M, NEW s, Sound(s, M), NEW x \in Things, NEW to \in Grounds \cup Bags,
         MayMove(Bags, Grounds, s.parent, x, to), to # s.parent[x],
         to \in Bags => W!Wronged(s, to) \subseteq M, NEW near
  PROVE  Sound(W!InternalMoveItem(s, x, to, near), M)
<1> DEFINE from == s.parent[x]
           m1 == W!RemoveThing(s, x, near)
           m2 == W!AddThing(m1, to, x, near)
           m3 == W!PostRemove(m2, from, x, near)
           m4 == W!PostAdd(m3, to, x)
<1>1. W!InternalMoveItem(s, x, to, near) = m4
  BY DEF W!InternalMoveItem
<1>2. Steady(s, M) /\ Open(s)
  BY DEF Sound, Steady
<1>3. from \in Bags /\ W!Showing(s, from) # {} => Reached(s, from)
  BY <1>2, ShowingReached
<1>4. /\ Steady(m1, M) /\ m1.parent = [s.parent EXCEPT ![x] = W!Nowhere]
      /\ m1.at = s.at /\ m1.look = s.look
      /\ \A cid \in Cids : m1.open[cid].bag = s.open[cid].bag
      /\ \A cid \in Cids : s.open[cid].bag # from => m1.open[cid] = s.open[cid]
  BY <1>2, <1>3, RemoveThingKeeps
<1>5. s.parent \in [Things -> Grounds \cup Bags]
  BY <1>2 DEF Steady, Shape
<1>6. Moved(s, m1, x, W!Nowhere)
  BY <1>4, MayVanish DEF Moved
<1> HIDE DEF m1
<1>7. m1.parent[x] = W!Nowhere
  BY <1>4, <1>5
<1>8. to \in Bags => ~ Inside(s, to, x)
  BY DEF MayMove, Inside
<1>9. to \in Bags /\ W!Showing(m1, to) # {} => Reached(m1, to)
  <2> SUFFICES ASSUME to \in Bags, W!Showing(m1, to) # {} PROVE Reached(m1, to)
    OBVIOUS
  <2>1. W!Showing(s, to) # {}
    BY <1>4 DEF W!Showing
  <2>2. Reached(s, to)
    BY <1>2, <2>1, ShowingReached
  <2>3. W!Holder(m1, to) = W!Holder(s, to)
    BY <1>2, <1>4, <1>6, <1>8, HolderAfter DEF Steady
  <2> QED
    BY <1>4, <2>2, <2>3 DEF Reached
<1>10. MayMove(Bags, Grounds, m1.parent, x, to)
  <2>1. to \in Bags => x \notin Over(Bags, m1.parent, to)
    <3> SUFFICES ASSUME to \in Bags PROVE x \notin Over(Bags, m1.parent, to)
      OBVIOUS
    <3>1. to # x /\ x \notin Over(Bags, s.parent, to)
      BY DEF MayMove
    <3>2. Over(Bags, m1.parent, to) = Over(Bags, s.parent, to)
      BY <1>4, <1>5, <3>1, PlaceKept
    <3> QED
      BY <3>1, <3>2
  <2> QED
    BY <2>1 DEF MayMove
<1>10a. m2 = W!AddThing(m1, to, x, near)
  OBVIOUS
<1> HIDE DEF m2
<1>10b. MayAdd(m1, x, to)
  BY <1>7, <1>9, <1>10 DEF MayAdd
<1>10c. to \in Bags => W!Wronged(m1, to) \subseteq M
  <2> SUFFICES ASSUME to \in Bags PROVE W!Wronged(m1, to) \subseteq W!Wronged(s, to)
    OBVIOUS
  <2>1. W!Showing(m1, to) = W!Showing(s, to)
        /\ \A cid \in W!Showing(s, to) : cid \in Cids /\ m1.open[cid] = s.open[cid]
    BY <1>4 DEF W!Showing
  <2>2. \A cid : W!Turned(m1, to, cid) = W!Turned(s, to, cid)
    BY <2>1 DEF W!Turned
  <2> QED
    BY <2>1, <2>2 DEF W!Wronged
<1>11. /\ Steady(m2, M) /\ m2.parent = [m1.parent EXCEPT ![x] = to]
       /\ m2.at = m1.at /\ m2.open = m1.open
  BY <1>4, <1>10a, <1>10b, <1>10c, AddThingKeeps
<1>12. m2.parent = [s.parent EXCEPT ![x] = to]
  BY <1>4, <1>5, <1>11
<1>13. Moved(s, m2, x, to) /\ m2.at = s.at /\ \A cid \in Cids : m2.open[cid].bag = s.open[cid].bag
  BY <1>4, <1>11, <1>12 DEF Moved
<1>14. Sound(m3, M)
  BY <1>11, <1>13, PostRemoveKeeps
<1> HIDE DEF m3
<1>15. Sound(m4, M)
  BY <1>14, PostAddKeeps
<1> QED
  BY <1>1, <1>15

LEMMA TakeAwayKeeps ==
  ASSUME NEW M, NEW s, Sound(s, M), NEW x \in Things, NEW near
  PROVE  Sound(W!InternalRemoveItem(s, x, near), M)
<1> DEFINE from == s.parent[x]
           m1 == W!RemoveThing(s, x, near)
<1>1. W!InternalRemoveItem(s, x, near) = W!PostRemove(m1, from, x, near)
  BY DEF W!InternalRemoveItem
<1>2. Steady(s, M) /\ Open(s)
  BY DEF Sound, Steady
<1>3. from \in Bags /\ W!Showing(s, from) # {} => Reached(s, from)
  BY <1>2, ShowingReached
<1>4. /\ Steady(m1, M) /\ m1.parent = [s.parent EXCEPT ![x] = W!Nowhere]
      /\ m1.at = s.at /\ m1.look = s.look
      /\ \A cid \in Cids : m1.open[cid].bag = s.open[cid].bag
  BY <1>2, <1>3, RemoveThingKeeps
<1>5. Moved(s, m1, x, W!Nowhere)
  BY <1>4, MayVanish DEF Moved
<1> HIDE DEF m1
<1> QED
  BY <1>1, <1>4, <1>5, PostRemoveKeeps

-----------------------------------------------------------------------------
(* A thing changes its look.                                               *)
Changed(s, r, x) ==
    /\ r.list = s.list /\ r.look \in [Things -> Int]
    /\ \A y \in Things : y # x => r.look[y] = s.look[y]

LEMMA ElsewhereShows ==
  ASSUME NEW M, NEW s, Steady(s, M), NEW x \in Things, NEW r, Changed(s, r, x),
         NEW b \in Bags, s.parent[x] # b, NEW k \in Nat, NEW w, Shows(s, b, k, w)
  PROVE  Shows(r, b, k, w)
<1> DEFINE l == s.list[b]
<1>1. /\ l \in Seq(Things) /\ Len(l) \in Nat /\ r.list[b] = l /\ MCSize[b] \in Nat
      /\ \A j \in 1..Len(l) : l[j] # x /\ l[j] \in Things
  <2>1. l \in Seq(Things) /\ Len(l) \in Nat /\ r.list[b] = l /\ MCSize[b] \in Nat
    BY SizeIs DEF Steady, Shape, Changed
  <2>2. \A j \in 1..Len(l) : l[j] \in Things
    BY <2>1, ElementOfSeq
  <2>3. \A j \in 1..Len(l) : l[j] # x
    BY DEF Steady, Listed
  <2> QED
    BY <2>1, <2>2, <2>3
<1>2. \A j \in 1..Len(l) : r.look[l[j]] = s.look[l[j]]
  BY <1>1 DEF Changed
<1>3. /\ w = [bag |-> b, index |-> k, size |-> Len(l), items |-> w.items]
      /\ w.items \in Seq(Seens)
      /\ Len(w.items) = Smaller(MCSize[b], Len(l) - k)
      /\ \A j \in 1..Len(w.items) : w.items[j] = <<l[k + j], s.look[l[k + j]]>>
  BY DEF Shows
<1> HIDE DEF l
<1>4. \A j \in 1..Len(w.items) : k + j \in 1..Len(l)
  BY <1>1, <1>3 DEF Smaller
<1>5. \A j \in 1..Len(w.items) : w.items[j] = <<l[k + j], r.look[l[k + j]]>>
  BY <1>2, <1>3, <1>4
<1> QED
  BY <1>1, <1>3, <1>5 DEF Shows

LEMMA UpdateShows ==
  ASSUME NEW M, NEW s, Steady(s, M), NEW x \in Things, NEW r, Changed(s, r, x),
         NEW b \in Bags, s.parent[x] = b, NEW k \in Nat, NEW w, Shows(s, b, k, w)
  PROVE  LET slot == W!SlotOf(s, b, x)
         IN  /\ slot - k \in 0..(MCSize[b] - 1) =>
                  Shows(r, b, k, W!ClientUpdate(w, slot, W!Seen(r, x)))
             /\ slot - k \notin 0..(MCSize[b] - 1) => Shows(r, b, k, w)
<1> DEFINE l == s.list[b]
           n == MCSize[b]
           slot == W!SlotOf(s, b, x)
           g == w.items
           p == slot - k + 1
           v == W!Seen(r, x)
           u == W!ClientUpdate(w, slot, v)
<1>1. /\ l \in Seq(Things) /\ Len(l) \in Nat /\ r.list[b] = l /\ n \in Nat
      /\ slot \in 0..(Len(l) - 1) /\ l[slot + 1] = x
      /\ \A j \in 1..Len(l) : l[j] \in Things /\ (l[j] = x => j = slot + 1)
  <2>1. l \in Seq(Things) /\ Len(l) \in Nat /\ r.list[b] = l /\ n \in Nat
    BY SizeIs DEF Steady, Shape, Changed
  <2>2. slot \in 0..(Len(l) - 1) /\ l[slot + 1] = x
    BY SlotIs DEF Steady
  <2>3. \A j1, j2 \in 1..Len(l) : l[j1] = l[j2] => j1 = j2
    BY DEF Steady, Listed
  <2> HIDE DEF l, slot
  <2>4. slot + 1 \in 1..Len(l)
    BY <2>1, <2>2
  <2>5. \A j \in 1..Len(l) : l[j] \in Things
    BY <2>1, ElementOfSeq
  <2> QED
    BY <2>1, <2>2, <2>3, <2>4, <2>5
<1>2. \A j \in 1..Len(l) : j # slot + 1 => r.look[l[j]] = s.look[l[j]]
  <2> HIDE DEF l, slot
  <2> QED
    BY <1>1 DEF Changed
<1>3. /\ w = [bag |-> b, index |-> k, size |-> Len(l), items |-> g]
      /\ g \in Seq(Seens) /\ Len(g) = Smaller(n, Len(l) - k)
      /\ \A j \in 1..Len(g) : g[j] = <<l[k + j], s.look[l[k + j]]>>
  BY DEF Shows
<1>4. v = <<x, r.look[x]>> /\ v \in Seens
  BY DEF W!Seen, Seens, Changed
<1> HIDE DEF l, n, slot, v
<1>5. u = IF p \in DOMAIN g THEN [w EXCEPT !.items[p] = v] ELSE w
  <2>1. w.index = k
    BY <1>3
  <2>2. u = IF slot - w.index + 1 \in DOMAIN w.items
            THEN [w EXCEPT !.items[slot - w.index + 1] = v] ELSE w
    BY DEF W!ClientUpdate
  <2> HIDE DEF u
  <2> QED
    BY <2>1, <2>2
<1> HIDE DEF g, u
<1>6. DOMAIN g = 1..Len(g) /\ Len(g) \in Nat
  BY <1>3
<1>7. \A j \in 1..Len(g) : k + j \in 1..Len(l) /\ j \in Int
  BY <1>1, <1>3, <1>6 DEF Smaller
<1>8. \A j \in 1..Len(g) : j # p => g[j] = <<l[k + j], r.look[l[k + j]]>>
  <2> TAKE j \in 1..Len(g)
  <2> HAVE j # p
  <2>1. k + j \in 1..Len(l) /\ k + j # slot + 1
    BY <1>1, <1>7
  <2>2. r.look[l[k + j]] = s.look[l[k + j]]
    BY <1>2, <2>1
  <2> QED
    BY <1>3, <2>2
<1>9. slot - k \in 0..(n - 1) <=> p \in 1..Len(g)
  BY <1>1, <1>3 DEF Smaller
<1>10. ASSUME p \in 1..Len(g) PROVE Shows(r, b, k, u)
  <2> DEFINE h == [g EXCEPT ![p] = v]
  <2>1. /\ h \in Seq(Seens) /\ Len(h) = Len(g)
        /\ \A j \in 1..Len(g) : h[j] = IF j = p THEN v ELSE g[j]
    <3>1. g \in [1..Len(g) -> Seens]
      BY <1>3
    <3>2. h \in [1..Len(g) -> Seens] /\ \A j \in 1..Len(g) : h[j] = IF j = p THEN v ELSE g[j]
      <4> HIDE DEF p
      <4> QED
        BY <1>4, <3>1
    <3> HIDE DEF h
    <3> QED
      BY <1>6, <3>2
  <2>2. u = [w EXCEPT !.items = h]
    <3>1. u = [w EXCEPT !.items[p] = v]
      BY <1>5, <1>6, <1>10
    <3> QED
      BY <3>1 DEF g
  <2> HIDE DEF h
  <2>3. u = [bag |-> b, index |-> k, size |-> Len(l), items |-> h]
    BY <1>3, <2>2
  <2>4. \A j \in 1..Len(h) : h[j] = <<l[k + j], r.look[l[k + j]]>>
    <3> TAKE j \in 1..Len(h)
    <3>1. CASE j = p
      <4>1. k + j = slot + 1
        BY <1>1, <3>1
      <4>2. l[k + j] = x
        BY <1>1, <4>1
      <4>3. h[j] = v
        BY <2>1, <3>1
      <4> QED
        BY <1>4, <4>2, <4>3
    <3>2. CASE j # p
      <4>1. h[j] = g[j] /\ j \in 1..Len(g)
        BY <2>1, <3>2
      <4> QED
        BY <1>8, <3>2, <4>1
    <3> QED
      BY <3>1, <3>2
  <2> QED
    BY <1>1, <1>3, <2>1, <2>3, <2>4 DEF Shows, n
<1>11. ASSUME p \notin 1..Len(g) PROVE Shows(r, b, k, w)
  <2>1. \A j \in 1..Len(g) : g[j] = <<l[k + j], r.look[l[k + j]]>>
    BY <1>8, <1>11
  <2> QED
    BY <1>1, <1>3, <2>1 DEF Shows, n, g
<1> QED
  BY <1>9, <1>10, <1>11 DEF u, v, slot, n

LEMMA ChangeKeeps ==
  ASSUME NEW M, NEW s, Sound(s, M), NEW x \in Things, s.parent[x] \in Bags, NEW near, NEW c,
         c = [s EXCEPT !.look[x] = 1 - @],
         NEW r, r = IF W!InRange(s, s.parent[x], near)
                    THEN W!SendUpdate(c, s.parent[x], W!SlotOf(s, s.parent[x], x), x) ELSE c
  PROVE  Sound(r, M)
<1> DEFINE b == s.parent[x]
           slot == W!SlotOf(s, b, x)
<1>1. Steady(s, M) /\ Open(s) /\ Shape(s)
  BY DEF Sound, Steady
<1>2. /\ c.parent = s.parent /\ c.list = s.list /\ c.at = s.at /\ c.open = s.open
      /\ c.window = s.window /\ c.look = [s.look EXCEPT ![x] = 1 - s.look[x]]
      /\ c = [parent |-> c.parent, list |-> c.list, look |-> c.look, at |-> c.at,
              open |-> c.open, window |-> c.window]
  <2> DEFINE p == s.parent
             l == s.list
             f == s.look
             n == s.at
             o == s.open
             w == s.window
  <2>1. s = [parent |-> p, list |-> l, look |-> f, at |-> n, open |-> o, window |-> w]
    BY <1>1 DEF Shape
  <2> HIDE DEF p, l, f, n, o, w, b, slot
  <2> DEFINE g == [f EXCEPT ![x] = 1 - f[x]]
  <2>2. c = [parent |-> p, list |-> l, look |-> g, at |-> n, open |-> o, window |-> w]
    BY <2>1
  <2> HIDE DEF g
  <2>3. /\ c.parent = p /\ c.list = l /\ c.at = n /\ c.open = o /\ c.window = w
        /\ c.look = g
        /\ c = [parent |-> c.parent, list |-> c.list, look |-> c.look, at |-> c.at,
                open |-> c.open, window |-> c.window]
    BY ONLY <2>2
  <2> QED
    BY <2>3 DEF g, p, l, f, n, o, w
<1>3. /\ s.look \in [Things -> Int] /\ c.look \in [Things -> Int]
      /\ \A y \in Things : y # x => c.look[y] = s.look[y]
  BY <1>1, <1>2 DEF Shape
<1>4. Changed(s, c, x)
  BY <1>2, <1>3 DEF Changed
<1>5. Shape(c)
  BY <1>1, <1>2, <1>3 DEF Shape
<1> DEFINE shows(cid) == slot - s.open[cid].index \in 0..(MCSize[b] - 1)
           w == [cid \in Cids |->
                    IF cid \in W!Showing(c, b) /\ c.window[cid] # W!Shut
                       /\ slot - c.open[cid].index \in 0..(MCSize[b] - 1)
                    THEN W!ClientUpdate(c.window[cid], slot, W!Seen(c, x)) ELSE c.window[cid]]
<1>6. W!SendUpdate(c, b, slot, x) = [c EXCEPT !.window = w]
  BY DEF W!SendUpdate
<1>7. ASSUME NEW cid \in Cids
      PROVE  /\ s.open[cid].bag = b /\ s.window[cid] # W!Shut /\ shows(cid) =>
                  w[cid] = W!ClientUpdate(s.window[cid], slot, W!Seen(c, x))
             /\ ~(s.open[cid].bag = b /\ s.window[cid] # W!Shut /\ shows(cid)) =>
                  w[cid] = s.window[cid]
  <2>1. cid \in W!Showing(c, b) <=> s.open[cid].bag = b
    BY <1>2 DEF W!Showing
  <2> QED
    BY <1>2, <2>1
<1>8. w = [cid \in Cids |-> w[cid]]
  OBVIOUS
<1> HIDE DEF w
<1>9. r = IF W!InRange(s, b, near) THEN [c EXCEPT !.window = w] ELSE c
  BY <1>6
<1> HIDE DEF b, slot
<1>10. Only(c, [c EXCEPT !.window = w], c.open, w)
  BY <1>5, OnlyWindow
<1> DEFINE z == IF W!InRange(s, b, near) THEN w ELSE s.window
<1>11. Only(c, r, c.open, z)
  <2>1. CASE W!InRange(s, b, near)
    BY <1>9, <1>10, <2>1
  <2>2. CASE ~ W!InRange(s, b, near)
    BY <1>2, <1>9, <2>2 DEF Only
  <2> QED
    BY <2>1, <2>2
<1> HIDE DEF z
<1>12. /\ r.parent = s.parent /\ r.list = s.list /\ r.look = c.look /\ r.at = s.at
       /\ r.open = s.open /\ r.window = z
       /\ r = [parent |-> r.parent, list |-> r.list, look |-> r.look, at |-> r.at,
               open |-> r.open, window |-> r.window]
  BY <1>2, <1>11 DEF Only
<1>13. z = [cid \in Cids |-> z[cid]]
  BY <1>1, <1>8 DEF z, Shape
<1>14. Shape(r)
  BY <1>1, <1>3, <1>12, <1>13 DEF Shape
<1>14a. r.parent = s.parent /\ r.list = s.list /\ r.at = s.at /\ r.open = s.open
  BY <1>12
<1>15. Placed(r) /\ Listed(r) /\ Leafed(r)
  <2>1. Placed(r)
    BY ONLY <1>1, <1>14a DEF Steady, Placed
  <2>2. Listed(r)
    BY ONLY <1>1, <1>14a DEF Steady, Listed
  <2>3. Leafed(r)
    BY ONLY <1>1, <1>14a DEF Steady, Leafed, Begins
  <2> QED
    BY <2>1, <2>2, <2>3
<1>16. Open(r)
  BY ONLY <1>1, <1>14a DEF Open, Reached, W!Holder
<1>17. ASSUME NEW cid \in Cids \ M, z[cid] # W!Shut
       PROVE  s.open[cid].bag \in Bags /\ Shows(c, s.open[cid].bag, s.open[cid].index, z[cid])
  <2>1. s.window[cid] # W!Shut
    BY <1>7, <1>17 DEF z
  <2>2. /\ s.open[cid].bag \in Bags /\ s.open[cid].index \in Nat
        /\ Shows(s, s.open[cid].bag, s.open[cid].index, s.window[cid])
    BY <1>1, <2>1 DEF Steady, Synced, Shape
  <2>3. CASE s.open[cid].bag # b
    <3>1. z[cid] = s.window[cid]
      BY <1>7, <2>3 DEF z
    <3>2. Shows(c, s.open[cid].bag, s.open[cid].index, s.window[cid])
      BY <1>1, <1>4, <2>2, <2>3, ElsewhereShows DEF b
    <3> QED
      BY <2>2, <3>1, <3>2
  <2>4. CASE s.open[cid].bag = b
    <3>1. z[cid] = w[cid]
      <4>1. W!Showing(s, b) # {} /\ b \in Bags
        BY <2>4 DEF W!Showing, b
      <4>2. W!InRange(s, b, near)
        BY <1>1, <4>1, ShowingReached, ReachedInRange
      <4> QED
        BY <4>2 DEF z
    <3> DEFINE k == s.open[cid].index
               v == s.window[cid]
    <3>2. /\ Steady(s, M) /\ Changed(s, c, x) /\ b \in Bags /\ s.parent[x] = b /\ k \in Nat
          /\ Shows(s, b, k, v)
      BY <1>1, <1>4, <2>2, <2>4 DEF b
    <3>3. /\ shows(cid) => w[cid] = W!ClientUpdate(v, slot, W!Seen(c, x))
          /\ ~ shows(cid) => w[cid] = v
      BY <1>7, <2>1, <2>4
    <3>4. shows(cid) <=> slot - k \in 0..(MCSize[b] - 1)
      OBVIOUS
    <3> HIDE DEF k, v, shows
    <3>5. /\ slot - k \in 0..(MCSize[b] - 1) => Shows(c, b, k, W!ClientUpdate(v, slot, W!Seen(c, x)))
          /\ slot - k \notin 0..(MCSize[b] - 1) => Shows(c, b, k, v)
      BY <3>2, UpdateShows DEF slot
    <3>6. Shows(c, b, k, w[cid])
      BY <3>3, <3>4, <3>5
    <3> QED
      BY <2>2, <2>4, <3>1, <3>6 DEF k
  <2> QED
    BY <2>3, <2>4
<1>18. Synced(r, M)
  <2>1. \A bb, k, v : Shows(c, bb, k, v) <=> Shows(r, bb, k, v)
    <3>1. r.list = c.list /\ r.look = c.look
      BY <1>2, <1>12
    <3> QED
      BY ONLY <3>1 DEF Shows
  <2> QED
    BY <1>12, <1>17, <2>1 DEF Synced
<1> QED
  BY <1>14, <1>15, <1>16, <1>18 DEF Sound

-----------------------------------------------------------------------------
(* What the player does.                                                   *)
LEMMA SoundWith ==
  ASSUME NEW M, NEW s, Sound(s, M), NEW o, NEW w, Fine(s, o, w, M), NEW r, Only(s, r, o, w),
         \A cid \in Cids : o[cid].bag # W!None => Reached(s, o[cid].bag)
  PROVE  Sound(r, M)
<1>1. /\ Steady(r, M) /\ r.parent = s.parent /\ r.at = s.at /\ r.open = o
  BY WithWindows DEF Sound, Steady
<1>2. Open(r)
  BY <1>1 DEF Open, Reached, W!Holder
<1> QED
  BY <1>1, <1>2 DEF Sound, Steady

LEMMA OneWindow ==
  ASSUME NEW M, NEW s, Sound(s, M), NEW c \in Cids, NEW b, NEW k, NEW v, FitsAt(s, b, k, v),
         b # W!None => Reached(s, b), NEW r,
         Only(s, r, [s.open EXCEPT ![c] = [bag |-> b, index |-> k]], [s.window EXCEPT ![c] = v])
  PROVE  Sound(r, M)
<1> DEFINE n == [bag |-> b, index |-> k]
           o == [s.open EXCEPT ![c] = n]
<1>1. Fine(s, o, [s.window EXCEPT ![c] = v], M)
  BY FineNow, FineAtOne DEF Sound, Steady
<1>2. n.bag = b /\ DOMAIN s.open = Cids
  BY DEF Sound, Shape
<1> HIDE DEF n
<1>3. \A cid \in Cids : o[cid] = IF cid = c THEN n ELSE s.open[cid]
  BY <1>2
<1> HIDE DEF o
<1>4. \A cid \in Cids : o[cid].bag # W!None => Reached(s, o[cid].bag)
  BY <1>2, <1>3 DEF Sound, Open
<1> QED
  BY <1>1, <1>4, SoundWith DEF o, n

LEMMA FieldsOfOpened ==
  ASSUME NEW s, Shape(s), NEW c, NEW n, NEW a, a = [s EXCEPT !.open[c] = n]
  PROVE  /\ Only(s, a, [s.open EXCEPT ![c] = n], s.window)
         /\ \A v : Only(s, [a EXCEPT !.window[c] = v], [s.open EXCEPT ![c] = n],
                        [s.window EXCEPT ![c] = v])
<1> DEFINE p == s.parent
           l == s.list
           f == s.look
           m == s.at
           o == s.open
           w == s.window
           oo == [o EXCEPT ![c] = n]
<1>1. s = [parent |-> p, list |-> l, look |-> f, at |-> m, open |-> o, window |-> w]
  BY DEF Shape
<1> HIDE DEF p, l, f, m, o, w
<1>2. a = [parent |-> p, list |-> l, look |-> f, at |-> m, open |-> oo, window |-> w]
  BY <1>1
<1> HIDE DEF oo
<1>3. ASSUME NEW v
      PROVE  [a EXCEPT !.window[c] = v] =
                [parent |-> p, list |-> l, look |-> f, at |-> m, open |-> oo,
                 window |-> [w EXCEPT ![c] = v]]
  BY ONLY <1>2
<1> QED
  BY <1>2, <1>3 DEF Only, p, l, f, m, o, w, oo

LEMMA SamePage ==
  ASSUME NEW s, NEW r, r.list = s.list, r.look = s.look, NEW b, NEW k
  PROVE  W!Page(r, b, k) = W!Page(s, b, k)
BY DEF W!Page, W!Seen

LEMMA FirstPageFits ==
  ASSUME NEW M, NEW s, Sound(s, M), NEW b \in Bags
  PROVE  FitsAt(s, b, 0, W!Page(s, b, 0))
<1>1. \A n \in Nat : n >= 1 => 0 % n = 0
  OBVIOUS
<1>2. Begins(s, b, 0)
  BY <1>1, SizeIs DEF Begins
<1> QED
  BY <1>2, PageFits DEF Sound

LEMMA StepKeeps ==
  ASSUME NEW M, NEW s, Sound(s, M), NEW to \in Tiles, NEW a, a = [s EXCEPT !.at = to],
         NEW r, r = W!AutoCloseContainers(a,
                       {b \in Bags : W!Showing(s, b) # {} /\ ~ W!InRange(a, b, FALSE)})
  PROVE  Sound(r, M)
<1> DEFINE far == {b \in Bags : W!Showing(s, b) # {} /\ ~ W!InRange(a, b, FALSE)}
<1>1. /\ a.parent = s.parent /\ a.list = s.list /\ a.look = s.look /\ a.at = to
      /\ a.open = s.open /\ a.window = s.window
      /\ a = [parent |-> a.parent, list |-> a.list, look |-> a.look, at |-> a.at,
              open |-> a.open, window |-> a.window]
  <2> DEFINE p == s.parent
             l == s.list
             f == s.look
             o == s.open
             w == s.window
             n == s.at
  <2>1. s = [parent |-> p, list |-> l, look |-> f, at |-> n, open |-> o, window |-> w]
    BY DEF Sound, Shape
  <2> HIDE DEF p, l, f, o, w, n
  <2>2. a = [parent |-> p, list |-> l, look |-> f, at |-> to, open |-> o, window |-> w]
    BY <2>1
  <2>3. /\ a.parent = p /\ a.list = l /\ a.look = f /\ a.at = to /\ a.open = o /\ a.window = w
        /\ a = [parent |-> a.parent, list |-> a.list, look |-> a.look, at |-> a.at,
                open |-> a.open, window |-> a.window]
    BY ONLY <2>2
  <2> QED
    BY <2>3 DEF p, l, f, o, w
<1>2. to \in Int
  BY WindowsAssumption
<1>3. Shape(a)
  BY <1>1, <1>2 DEF Sound, Shape
<1>4. /\ a.parent = s.parent /\ a.list = s.list /\ a.look = s.look /\ a.open = s.open
      /\ a.window = s.window
  BY <1>1
<1>5. Sound(s, M)
  OBVIOUS
<1>6. Placed(a)
  BY ONLY <1>4, <1>5 DEF Sound, Placed
<1>7. Listed(a)
  BY ONLY <1>4, <1>5 DEF Sound, Listed
<1>8. Leafed(a)
  BY ONLY <1>4, <1>5 DEF Sound, Leafed, Begins
<1>9. Synced(a, M)
  <2>1. \A b, k, v : Shows(s, b, k, v) <=> Shows(a, b, k, v)
    BY ONLY <1>4 DEF Shows
  <2> QED
    BY ONLY <1>4, <1>5, <2>1 DEF Sound, Synced
<1>10. Steady(a, M)
  BY <1>3, <1>6, <1>7, <1>8, <1>9 DEF Steady
<1>11. r = W!AutoCloseContainers(a, far)
  OBVIOUS
<1>12. \A b \in Bags : b \notin far /\ W!Showing(s, b) # {} => W!InRange(a, b, FALSE)
  OBVIOUS
<1> HIDE DEF far
<1>13. /\ Steady(r, M) /\ r.parent = a.parent /\ r.at = a.at
       /\ \A cid \in Cids : r.open[cid].bag # W!None =>
              r.open[cid] = a.open[cid] /\ \A c \in far : ~ W!Within(a, a.open[cid].bag, c)
  BY ONLY <1>4, <1>10, <1>11, AutoCloseKeeps
<1>14. ASSUME NEW cid \in Cids, r.open[cid].bag # W!None PROVE Reached(r, r.open[cid].bag)
  <2> DEFINE b == s.open[cid].bag
  <2>1. r.open[cid].bag = b /\ \A c \in far : ~ W!Within(a, b, c)
    BY <1>4, <1>13, <1>14
  <2>2. b \in Bags /\ cid \in W!Showing(s, b) /\ Reached(s, b)
    BY <1>14, <2>1 DEF Sound, Shape, Open, W!Showing
  <2> HIDE DEF b
  <2>3. b \notin far
    BY <2>1 DEF W!Within
  <2>4. W!InRange(a, b, FALSE)
    BY <1>12, <2>2, <2>3
  <2>5. W!Holder(a, b) = W!Holder(s, b)
    BY <1>4 DEF W!Holder
  <2>6. Reached(a, b)
    BY <2>2, <2>4, <2>5, InRangeReached DEF Reached
  <2> QED
    BY <1>13, <2>1, <2>6 DEF Reached, W!Holder
<1>15. Open(r)
  BY <1>14 DEF Open
<1> QED
  BY <1>13, <1>15 DEF Sound, Steady

LEMMA UseOpens ==
  ASSUME NEW M, NEW s, Sound(s, M), NEW b \in Bags, NEW cid \in Cids, W!Showing(s, b) = {}, Reached(s, b),
         NEW r, r = W!OnSendContainer(W!AddContainer(s, cid, b), b)
  PROVE  Sound(r, M)
<1> DEFINE n == [bag |-> b, index |-> 0]
           a == [s EXCEPT !.open[cid] = n]
           o == [s.open EXCEPT ![cid] = n]
           w == [s.window EXCEPT ![cid] = W!Page(s, b, 0)]
           z == [c \in Cids |-> IF c \in W!Showing(a, b)
                                THEN W!Page(a, b, a.open[c].index) ELSE a.window[c]]
<1>1. W!AddContainer(s, cid, b) = a
  BY DEF W!AddContainer
<1>2. W!OnSendContainer(a, b) = [a EXCEPT !.window = z]
  BY DEF W!OnSendContainer
<1>3. Shape(s) /\ DOMAIN s.open = Cids /\ s.window = [c \in Cids |-> s.window[c]]
      /\ s.open \in [Cids -> [bag : Bags \cup {W!None}, index : Nat]]
  BY DEF Sound, Shape
<1>4. Only(s, a, o, s.window)
  BY <1>3, FieldsOfOpened
<1>5. n \in [bag : Bags \cup {W!None}, index : Nat] /\ n.bag = b /\ n.index = 0
  OBVIOUS
<1> HIDE DEF n, a
<1>6. /\ a.open = o /\ a.window = s.window /\ a.list = s.list /\ a.look = s.look
      /\ a.parent = s.parent /\ a.at = s.at
      /\ a = [parent |-> a.parent, list |-> a.list, look |-> a.look, at |-> a.at,
              open |-> a.open, window |-> a.window]
  BY ONLY <1>4 DEF Only
<1>7. o \in [Cids -> [bag : Bags \cup {W!None}, index : Nat]]
      /\ \A c \in Cids : o[c] = IF c = cid THEN n ELSE s.open[c]
  BY <1>3, <1>5
<1>8. \A c \in Cids : w[c] = IF c = cid THEN W!Page(s, b, 0) ELSE s.window[c]
  BY <1>3
<1>9. w = [c \in Cids |-> w[c]]
  BY <1>3
<1> HIDE DEF o
<1>10. \A c \in Cids : c \in W!Showing(a, b) <=> c = cid
  BY <1>5, <1>6, <1>7 DEF W!Showing
<1>11. \A k : W!Page(a, b, k) = W!Page(s, b, k)
  BY <1>6, SamePage
<1>12. z = w
  <2>1. \A c \in Cids : w[c] = IF c \in W!Showing(a, b)
                               THEN W!Page(a, b, a.open[c].index) ELSE a.window[c]
    BY <1>5, <1>6, <1>7, <1>8, <1>10, <1>11
  <2> HIDE DEF w
  <2> QED
    BY <1>9, <2>1
<1> HIDE DEF z
<1>13. r = [a EXCEPT !.window = w]
  BY <1>1, <1>2, <1>12
<1> HIDE DEF w
<1>14. Shape(a)
  BY <1>3, <1>6, <1>7 DEF Shape
<1>15. Only(a, [a EXCEPT !.window = w], a.open, w)
  BY <1>14, OnlyWindow
<1>16. Only(s, r, o, w)
  BY <1>6, <1>13, <1>15 DEF Only
<1>17. FitsAt(s, b, 0, W!Page(s, b, 0))
  BY FirstPageFits
<1>18. Only(s, r, [s.open EXCEPT ![cid] = [bag |-> b, index |-> 0]],
            [s.window EXCEPT ![cid] = W!Page(s, b, 0)])
  BY <1>16 DEF o, w, n
<1> QED
  BY <1>17, <1>18, OneWindow

LEMMA UseCloses ==
  ASSUME NEW M, NEW s, Sound(s, M), NEW b \in Bags, NEW c \in W!Showing(s, b),
         NEW r, r = W!CloseContainer(W!OnCloseContainer(s, b), c)
  PROVE  Sound(r, M)
<1> DEFINE none == [bag |-> W!None, index |-> 0]
           o == [s.open EXCEPT ![c] = none]
           w == [cid \in Cids |-> IF cid \in W!Showing(s, b) THEN W!Shut ELSE s.window[cid]]
           a == W!OnCloseContainer(s, b)
<1>1. a = [s EXCEPT !.window = w]
  BY DEF W!OnCloseContainer
<1>2. r = [a EXCEPT !.open[c] = none]
  BY DEF W!CloseContainer
<1>3. Shape(s) /\ Fine(s, s.open, s.window, M)
      /\ s.open \in [Cids -> [bag : Bags \cup {W!None}, index : Nat]]
  BY FineNow DEF Sound, Steady, Shape
<1>4. none \in [bag : Bags \cup {W!None}, index : Nat] /\ none.bag = W!None /\ none.index = 0
  OBVIOUS
<1>5. \A cid \in Cids : w[cid] = IF cid \in W!Showing(s, b) THEN W!Shut ELSE s.window[cid]
  OBVIOUS
<1>6. w = [cid \in Cids |-> w[cid]]
  OBVIOUS
<1> HIDE DEF none, a, w
<1>7. Only(s, a, s.open, w)
  BY <1>1, <1>3, OnlyWindow
<1>8. o \in [Cids -> [bag : Bags \cup {W!None}, index : Nat]]
      /\ \A cid \in Cids : o[cid] = IF cid = c THEN none ELSE s.open[cid]
  BY <1>3, <1>4
<1>9. Shape(a)
  BY <1>3, <1>6, <1>7 DEF Shape, Only
<1>10. Only(a, r, [a.open EXCEPT ![c] = none], a.window)
  BY <1>2, <1>9, FieldsOfOpened
<1>11. Only(s, r, o, w)
  BY <1>7, <1>10 DEF Only
<1> HIDE DEF o
<1>12. ASSUME NEW cid \in Cids
       PROVE  FitsAt(s, o[cid].bag, o[cid].index, Unless(M, cid, w[cid]))
  <2>1. FitsAt(s, s.open[cid].bag, s.open[cid].index, Unless(M, cid, s.window[cid]))
    BY <1>3 DEF Fine
  <2>2. FitsAt(s, s.open[cid].bag, s.open[cid].index, Unless(M, cid, W!Shut))
    BY <2>1 DEF FitsAt, Unless
  <2>3. CASE cid = c
    <3>1. o[cid].bag = W!None /\ o[cid].index = 0
      BY <1>4, <1>8, <2>3
    <3>2. w[cid] = W!Shut
      BY <1>5, <2>3
    <3> QED
      BY <3>1, <3>2, ShutFits, FitsUnless
  <2>4. CASE cid # c
    BY <1>5, <1>8, <2>1, <2>2, <2>4 DEF Unless
  <2> QED
    BY <2>3, <2>4
<1>13. Fine(s, o, w, M)
  BY <1>6, <1>8, <1>12 DEF Fine
<1>14. \A cid \in Cids : o[cid].bag # W!None => Reached(s, o[cid].bag)
  BY <1>4, <1>8 DEF Sound, Open
<1> QED
  BY <1>11, <1>13, <1>14, SoundWith

LEMMA CloseKeeps ==
  ASSUME NEW M, NEW s, Sound(s, M), NEW cid \in Cids,
         NEW r, r = W!ClientClose(W!CloseContainer(s, cid), cid)
  PROVE  Sound(r, M)
<1> DEFINE n == [bag |-> W!None, index |-> 0]
           a == [s EXCEPT !.open[cid] = n]
<1>1. r = [a EXCEPT !.window[cid] = W!Shut]
  BY DEF W!ClientClose, W!CloseContainer
<1>2. Shape(s)
  BY DEF Sound
<1>3. a = [s EXCEPT !.open[cid] = n]
  OBVIOUS
<1> HIDE DEF n, a
<1>4. Only(s, r, [s.open EXCEPT ![cid] = n], [s.window EXCEPT ![cid] = W!Shut])
  <2>1. \A v : Only(s, [a EXCEPT !.window[cid] = v], [s.open EXCEPT ![cid] = n],
                   [s.window EXCEPT ![cid] = v])
    BY ONLY <1>2, <1>3, FieldsOfOpened
  <2>2. Only(s, [a EXCEPT !.window[cid] = W!Shut], [s.open EXCEPT ![cid] = n],
             [s.window EXCEPT ![cid] = W!Shut])
    BY <2>1
  <2> QED
    BY ONLY <1>1, <2>2
<1> QED
  BY <1>4, ShutFits, OneWindow DEF n

(* A window that turns to page k of bag b.                                 *)
LEMMA TurnKeeps ==
  ASSUME NEW M, NEW s, Sound(s, M), NEW cid \in Cids, NEW b \in Bags, NEW k,
         FitsAt(s, b, k, W!Page(s, b, k)), Reached(s, b),
         NEW a, Only(s, a, [s.open EXCEPT ![cid] = [bag |-> b, index |-> k]], s.window),
         NEW r, r = W!SendContainer(a, cid, b, k)
  PROVE  Sound(r, M)
<1> DEFINE n == [bag |-> b, index |-> k]
           o == [s.open EXCEPT ![cid] = n]
           v == W!Page(s, b, k)
<1>1. r = [a EXCEPT !.window[cid] = W!Page(a, b, k)]
  BY DEF W!SendContainer
<1>2. a = [parent |-> s.parent, list |-> s.list, look |-> s.look, at |-> s.at,
           open |-> o, window |-> s.window]
  BY DEF Only
<1> HIDE DEF o
<1>3. a.list = s.list /\ a.look = s.look
  BY <1>2
<1>4. W!Page(a, b, k) = v
  BY <1>3, SamePage
<1> HIDE DEF v
<1>5. Only(s, r, o, [s.window EXCEPT ![cid] = v])
  <2> DEFINE p == s.parent
             l == s.list
             f == s.look
             m == s.at
             w == s.window
  <2>1. a = [parent |-> p, list |-> l, look |-> f, at |-> m, open |-> o, window |-> w]
    BY <1>2
  <2>2. r = [a EXCEPT !.window[cid] = v]
    BY <1>1, <1>4
  <2> HIDE DEF p, l, f, m, w
  <2>3. r = [parent |-> p, list |-> l, look |-> f, at |-> m, open |-> o,
             window |-> [w EXCEPT ![cid] = v]]
    BY ONLY <2>1, <2>2
  <2> QED
    BY <2>3 DEF Only, p, l, f, m, w
<1>6. Only(s, r, [s.open EXCEPT ![cid] = [bag |-> b, index |-> k]], [s.window EXCEPT ![cid] = v])
  BY <1>5 DEF o
<1>7. FitsAt(s, b, k, v)
  BY DEF v
<1> QED
  BY <1>6, <1>7, OneWindow

LEMMA MoveUpKeeps ==
  ASSUME NEW M, NEW s, Sound(s, M), NEW cid \in Cids, s.open[cid].bag # W!None,
         s.parent[s.open[cid].bag] \in Bags,
         NEW r, r = W!SendContainer(W!AddContainer(s, cid, s.parent[s.open[cid].bag]), cid,
                                    s.parent[s.open[cid].bag], 0)
  PROVE  Sound(r, M)
<1> DEFINE b == s.open[cid].bag
           up == s.parent[b]
           n == [bag |-> up, index |-> 0]
           a == W!AddContainer(s, cid, up)
<1>1. a = [s EXCEPT !.open[cid] = n]
  BY DEF W!AddContainer
<1>2. b \in Bags /\ b \in Things /\ Reached(s, b) /\ Placed(s) /\ Shape(s) /\ up \in Bags
  BY Apart DEF Sound, Shape, Open
<1>3. r = W!SendContainer(a, cid, up, 0)
  OBVIOUS
<1> HIDE DEF n, a
<1>4. Only(s, a, [s.open EXCEPT ![cid] = n], s.window)
  BY <1>1, <1>2, FieldsOfOpened
<1>5. W!Holder(s, up) = W!Holder(s, b)
  <2>1. W!Holder(s, up) = W!Holder(s, b)
    <3> HIDE DEF b
    <3> QED
      BY <1>2, HolderOfPlace
  <2> QED
    BY <2>1
<1> HIDE DEF up, b
<1>6. Reached(s, up)
  BY <1>2, <1>5 DEF Reached
<1>7. FitsAt(s, up, 0, W!Page(s, up, 0))
  BY <1>2, FirstPageFits
<1>8. Only(s, a, [s.open EXCEPT ![cid] = [bag |-> up, index |-> 0]], s.window)
  BY <1>4 DEF n
<1> QED
  BY <1>2, <1>3, <1>6, <1>7, <1>8, TurnKeeps

LEMMA UpdateKeeps ==
  ASSUME NEW M, NEW s, Sound(s, M), NEW cid \in Cids, s.open[cid].bag # W!None,
         NEW r, r = W!SendContainer(s, cid, s.open[cid].bag, s.open[cid].index)
  PROVE  Sound(r, M)
<1> DEFINE b == s.open[cid].bag
           k == s.open[cid].index
           o == s.open
<1>1. /\ b \in Bags /\ Reached(s, b) /\ Shape(s) /\ Begins(s, b, k)
      /\ o \in [Cids -> [bag : Bags \cup {W!None}, index : Nat]]
      /\ r = W!SendContainer(s, cid, b, k)
  BY DEF Sound, Shape, Open, Leafed
<1>2. [o EXCEPT ![cid] = [bag |-> b, index |-> k]] = o
  <2>1. o[cid] = [bag |-> b, index |-> k]
    BY <1>1
  <2> HIDE DEF b, k, o
  <2>2. \A c \in Cids : [o EXCEPT ![cid] = [bag |-> b, index |-> k]][c] = o[c]
    BY <1>1, <2>1
  <2> QED
    BY <1>1, <2>2
<1>3. Only(s, s, o, s.window)
  BY <1>1 DEF Only, Shape
<1> HIDE DEF b, k
<1>4. Only(s, s, [s.open EXCEPT ![cid] = [bag |-> b, index |-> k]], s.window)
  BY <1>2, <1>3
<1>5. FitsAt(s, b, k, W!Page(s, b, k))
  BY <1>1, PageFits
<1> QED
  BY <1>1, <1>4, <1>5, TurnKeeps

LEMMA SeekKeeps ==
  ASSUME NEW M, NEW s, Sound(s, M), NEW cid \in Cids, s.open[cid].bag # W!None, NEW k \in Nat,
         k % MCSize[s.open[cid].bag] = 0, k < Len(s.list[s.open[cid].bag]),
         NEW a, a = [s EXCEPT !.open[cid].index = k],
         NEW r, r = W!SendContainer(a, cid, s.open[cid].bag, k)
  PROVE  Sound(r, M)
<1> DEFINE b == s.open[cid].bag
           n == [bag |-> b, index |-> k]
<1>1. /\ b \in Bags /\ Reached(s, b) /\ Shape(s) /\ Begins(s, b, k)
      /\ s.open \in [Cids -> [bag : Bags \cup {W!None}, index : Nat]]
      /\ r = W!SendContainer(a, cid, b, k)
  BY DEF Sound, Shape, Open, Begins
<1>2. a = [s EXCEPT !.open[cid] = n]
  <2>1. a = [s EXCEPT !.open[cid] = [s.open[cid] EXCEPT !.index = k]]
    OBVIOUS
  <2>2. [s.open[cid] EXCEPT !.index = k] = n
    <3> DEFINE i == s.open[cid].index
               f == s.open[cid]
    <3>1. f = [bag |-> b, index |-> i]
      BY <1>1
    <3> HIDE DEF f, b, i
    <3>2. [f EXCEPT !.index = k] = [bag |-> b, index |-> k]
      BY ONLY <3>1
    <3> QED
      BY <3>2 DEF f
  <2> QED
    BY <2>1, <2>2
<1> HIDE DEF n
<1>3. Only(s, a, [s.open EXCEPT ![cid] = n], s.window)
  BY <1>1, <1>2, FieldsOfOpened
<1> HIDE DEF b
<1>4. Only(s, a, [s.open EXCEPT ![cid] = [bag |-> b, index |-> k]], s.window)
  BY <1>3 DEF n
<1>5. FitsAt(s, b, k, W!Page(s, b, k))
  BY <1>1, PageFits
<1> QED
  BY <1>1, <1>4, <1>5, TurnKeeps

-----------------------------------------------------------------------------
(* The steps of the specification.                                         *)
LEMMA NowIs ==
  /\ W!Now.parent = parent /\ W!Now.list = itemlist /\ W!Now.look = looks /\ W!Now.at = stands
  /\ W!Now.open = openContainers /\ W!Now.window = window
BY DEF W!Now

(* More windows may be left out; those that are in step need not be.       *)
LEMMA SoundWeaker ==
  ASSUME NEW s, NEW M, Sound(s, M), NEW N
  PROVE  Sound(s, M \cup N)
BY DEF Sound, Synced

LEMMA InStepShows ==
  ASSUME NEW s, Shape(s), Leafed(s), NEW cid \in Cids, s.open[cid].bag # W!None,
         s.window[cid] = W!Page(s, s.open[cid].bag, s.open[cid].index)
  PROVE  s.open[cid].bag \in Bags /\ Shows(s, s.open[cid].bag, s.open[cid].index, s.window[cid])
<1>1. s.open[cid].bag \in Bags /\ Begins(s, s.open[cid].bag, s.open[cid].index)
  BY DEF Shape, Leafed
<1> QED
  BY <1>1, PagesBegin, PageIs

LEMMA MisleadingIs ==
  ASSUME NEW STATE r, NEW STATE m, Sound(r, misled \cup m), W!Misleading(r, m)
  PROVE  Sound(W!Now', misled')
<1>1. r = [parent |-> r.parent, list |-> r.list, look |-> r.look, at |-> r.at,
           open |-> r.open, window |-> r.window]
  BY DEF Sound, Shape
<1>2. W!Now' = [parent |-> parent', list |-> itemlist', look |-> looks', at |-> stands',
                open |-> openContainers', window |-> window']
  BY DEF W!Now
<1>3. /\ parent' = r.parent /\ itemlist' = r.list /\ looks' = r.look /\ stands' = r.at
      /\ openContainers' = r.open /\ window' = r.window
  BY DEF W!Misleading
<1>4. W!Now' = r
  BY <1>1, <1>2, <1>3
<1>5. ASSUME NEW cid \in misled \cup m, cid \notin misled', r.window[cid] # W!Shut
      PROVE  r.open[cid].bag # W!None
             /\ r.window[cid] = W!Page(r, r.open[cid].bag, r.open[cid].index)
  BY <1>3, <1>4, <1>5 DEF W!Misleading, W!InStep
<1>6. ASSUME NEW cid \in Cids \ misled', r.window[cid] # W!Shut
      PROVE  r.open[cid].bag \in Bags /\ Shows(r, r.open[cid].bag, r.open[cid].index, r.window[cid])
  <2>1. CASE cid \in misled \cup m
    BY <1>5, <1>6, <2>1, InStepShows DEF Sound
  <2>2. CASE cid \notin misled \cup m
    BY <1>6, <2>2 DEF Sound, Synced
  <2> QED
    BY <2>1, <2>2
<1>7. Sound(r, misled')
  BY <1>6 DEF Sound, Synced
<1> QED
  BY <1>4, <1>7

LEMMA BecomeIs ==
  ASSUME NEW STATE r, Sound(r, misled), W!Become(r)
  PROVE  Sound(W!Now', misled')
<1>1. Sound(r, misled \cup {})
  BY SoundWeaker
<1>2. W!Misleading(r, {})
  BY DEF W!Become
<1> QED
  BY <1>1, <1>2, MisleadingIs

LEMMA ThingsAre == W!Things = Things
BY DEF W!Things, Things

LEMMA MoveSound ==
  ASSUME Sound(W!Now, misled), NEW x \in Things, NEW near,
         NEW to \in {W!Tile(p) : p \in Tiles} \cup Bags \cup {W!Mine, W!Theirs},
         W!Move(x, to, near)
  PROVE  Sound(W!Now', misled')
<1> DEFINE s == W!Now
<1> DEFINE m == IF to \in Bags THEN W!Wronged(s, to) ELSE {}
<1>1. W!Misleading(W!InternalMoveItem(s, x, to, near), m)
  BY DEF W!Move
<1>2. (to \in Bags => ~ W!Within(s, to, x)) /\ to # s.parent[x]
  BY NowIs DEF W!Move, W!Fits
<1>3. to \in Grounds \cup Bags
  BY DEF Grounds
<1> HIDE DEF s
<1>4. MayMove(Bags, Grounds, s.parent, x, to)
  BY <1>2, <1>3, WithinIs, Apart DEF MayMove, Inside
<1>5. Sound(s, misled \cup m)
  BY SoundWeaker DEF s
<1>6. to \in Bags => W!Wronged(s, to) \subseteq misled \cup m
  OBVIOUS
<1> HIDE DEF m
<1>7. Sound(W!InternalMoveItem(s, x, to, near), misled \cup m)
  BY <1>2, <1>3, <1>4, <1>5, <1>6, MoveKeeps
<1> QED
  BY <1>1, <1>7, MisleadingIs

LEMMA TakeAwaySound ==
  ASSUME Sound(W!Now, misled), NEW x \in Things, NEW near, W!TakeAway(x, near)
  PROVE  Sound(W!Now', misled')
<1>1. W!Become(W!InternalRemoveItem(W!Now, x, near))
  BY DEF W!TakeAway
<1>2. Sound(W!InternalRemoveItem(W!Now, x, near), misled)
  BY TakeAwayKeeps
<1> QED
  BY <1>1, <1>2, BecomeIs

LEMMA ChangeSound ==
  ASSUME Sound(W!Now, misled), NEW x \in Plain, NEW near, W!Change(x, near)
  PROVE  Sound(W!Now', misled')
<1> DEFINE s == W!Now
           b == s.parent[x]
           c == [s EXCEPT !.look[x] = 1 - @]
           r == IF W!InRange(s, b, near) THEN W!SendUpdate(c, b, W!SlotOf(s, b, x), x) ELSE c
<1>1. b \in Bags /\ W!Become(r)
  BY NowIs DEF W!Change
<1>2. x \in Things
  BY Apart
<1>3. Sound(s, misled)
  OBVIOUS
<1> HIDE DEF s
<1>4. Sound(r, misled)
  BY <1>1, <1>2, <1>3, ChangeKeeps
<1> QED
  BY <1>1, <1>4, BecomeIs

LEMMA StepSound ==
  ASSUME Sound(W!Now, misled), NEW to \in Tiles, W!Step(to)
  PROVE  Sound(W!Now', misled')
<1> DEFINE s == W!Now
           a == [s EXCEPT !.at = to]
           r == W!AutoCloseContainers(a,
                   {b \in Bags : W!Showing(s, b) # {} /\ ~ W!InRange(a, b, FALSE)})
<1>1. W!Become(r)
  BY DEF W!Step
<1>2. Sound(s, misled)
  OBVIOUS
<1> HIDE DEF s
<1>3. Sound(r, misled)
  BY <1>2, StepKeeps
<1> QED
  BY <1>1, <1>3, BecomeIs

LEMMA UseSound ==
  ASSUME Sound(W!Now, misled), NEW b \in Bags, NEW cid \in Cids, W!Use(b, cid)
  PROVE  Sound(W!Now', misled')
<1> DEFINE s == W!Now
           c == CHOOSE k \in W!Showing(s, b) : \A d1 \in W!Showing(s, b) : k <= d1
           r1 == W!OnSendContainer(W!AddContainer(s, cid, b), b)
           r2 == W!CloseContainer(W!OnCloseContainer(s, b), c)
<1>1. /\ ~ W!IsRemoved(s, b) /\ W!Holder(s, b) # W!Theirs /\ W!InRange(s, b, FALSE)
      /\ W!Showing(s, b) = {} => W!Become(r1)
      /\ W!Showing(s, b) # {} => W!Become(r2)
  BY DEF W!Use, W!Exists
<1>2. Sound(s, misled)
  OBVIOUS
<1>3. ASSUME W!Showing(s, b) # {} PROVE c \in W!Showing(s, b)
  <2> DEFINE T == W!Showing(s, b)
  <2>1. T \in SUBSET Nat /\ T # {}
    BY <1>3, WindowsAssumption DEF W!Showing
  <2> HIDE DEF T
  <2>2. \E k \in T : \A d1 \in T : k <= d1
    BY <2>1, LeastNatural
  <2> QED
    BY <2>2 DEF T
<1> HIDE DEF s
<1>4. Reached(s, b)
  BY <1>1, InRangeReached DEF W!IsRemoved
<1>5. CASE W!Showing(s, b) = {}
  <2>1. Sound(r1, misled)
    BY <1>2, <1>4, <1>5, UseOpens
  <2> QED
    BY <1>1, <1>5, <2>1, BecomeIs
<1>6. CASE W!Showing(s, b) # {}
  <2>1. c \in W!Showing(s, b)
    BY <1>3, <1>6
  <2> HIDE DEF c
  <2>2. Sound(r2, misled)
    BY <1>2, <2>1, UseCloses
  <2> QED
    BY <1>1, <1>6, <2>2, BecomeIs
<1> QED
  BY <1>5, <1>6

LEMMA PlayerSound ==
  ASSUME Sound(W!Now, misled), NEW cid \in Cids,
         \/ W!PlayerClose(cid) \/ W!PlayerMoveUp(cid) \/ W!PlayerUpdate(cid)
         \/ \E k \in 0..(Cardinality(Things) - 1) : W!PlayerSeek(cid, k)
  PROVE  Sound(W!Now', misled')
<1> DEFINE s == W!Now
<1>0. Sound(s, misled) /\ s.open = openContainers /\ s.parent = parent /\ s.list = itemlist
  BY NowIs
<1>1. CASE W!PlayerClose(cid)
  <2> DEFINE r == W!ClientClose(W!CloseContainer(s, cid), cid)
  <2>1. W!Become(r)
    BY <1>1 DEF W!PlayerClose
  <2> HIDE DEF s
  <2>2. Sound(r, misled)
    BY <1>0, CloseKeeps
  <2> QED
    BY <2>1, <2>2, BecomeIs
<1>2. CASE W!PlayerMoveUp(cid)
  <2> DEFINE up == s.parent[s.open[cid].bag]
             r == W!SendContainer(W!AddContainer(s, cid, up), cid, up, 0)
  <2>1. s.open[cid].bag # W!None /\ up \in Bags /\ W!Become(r)
    BY <1>0, <1>2 DEF W!PlayerMoveUp
  <2> HIDE DEF s
  <2>2. Sound(r, misled)
    BY <1>0, <2>1, MoveUpKeeps
  <2> QED
    BY <2>1, <2>2, BecomeIs
<1>3. CASE W!PlayerUpdate(cid)
  <2> DEFINE r == W!SendContainer(s, cid, s.open[cid].bag, s.open[cid].index)
  <2>1. s.open[cid].bag # W!None /\ W!Become(r)
    BY <1>0, <1>3 DEF W!PlayerUpdate
  <2> HIDE DEF s
  <2>2. Sound(r, misled)
    BY <1>0, <2>1, UpdateKeeps
  <2> QED
    BY <2>1, <2>2, BecomeIs
<1>4. ASSUME NEW k \in 0..(Cardinality(Things) - 1), W!PlayerSeek(cid, k)
      PROVE  Sound(W!Now', misled')
  <2> DEFINE a == [s EXCEPT !.open[cid].index = k]
             r == W!SendContainer(a, cid, s.open[cid].bag, k)
  <2>1. /\ s.open[cid].bag # W!None /\ W!Become(r)
        /\ k % MCSize[s.open[cid].bag] = 0 /\ k < Len(s.list[s.open[cid].bag])
    BY <1>0, <1>4 DEF W!PlayerSeek
  <2>2. k \in Nat
    <3>1. Cardinality(Things) \in Nat
      BY WindowsAssumption, FS_CardinalityType DEF Things
    <3> QED
      BY <3>1
  <2> HIDE DEF s
  <2>3. Sound(r, misled)
    BY <1>0, <2>1, <2>2, SeekKeeps
  <2> QED
    BY <2>1, <2>3, BecomeIs
<1> QED
  BY <1>1, <1>2, <1>3, <1>4

LEMMA WindowsStep ==
  ASSUME Sound(W!Now, misled), W!WindowsNext
  PROVE  Sound(W!Now', misled')
<1>1. ASSUME NEW x \in Things, NEW near \in W!Nears,
             NEW to \in {W!Tile(p) : p \in Tiles} \cup Bags \cup {W!Mine, W!Theirs},
             W!Move(x, to, near)
      PROVE  Sound(W!Now', misled')
  BY <1>1, MoveSound
<1>2. ASSUME NEW x \in Things, NEW near \in W!Nears, W!TakeAway(x, near) PROVE Sound(W!Now', misled')
  BY <1>2, TakeAwaySound
<1>3. ASSUME NEW x \in Plain, NEW near \in W!Nears, W!Change(x, near) PROVE Sound(W!Now', misled')
  BY <1>3, ChangeSound
<1>4. ASSUME NEW to \in Tiles, W!Step(to) PROVE Sound(W!Now', misled')
  BY <1>4, StepSound
<1>5. ASSUME NEW cid \in Cids, NEW b \in Bags, W!Use(b, cid) PROVE Sound(W!Now', misled')
  BY <1>5, UseSound
<1>6. ASSUME NEW cid \in Cids,
             \/ W!PlayerClose(cid) \/ W!PlayerMoveUp(cid) \/ W!PlayerUpdate(cid)
             \/ \E k \in 0..(Cardinality(Things) - 1) : W!PlayerSeek(cid, k)
      PROVE  Sound(W!Now', misled')
  BY <1>6, PlayerSound
<1>7. \/ \E x \in Things, near \in W!Nears :
            \/ \E to \in {W!Tile(p) : p \in Tiles} \cup Bags \cup {W!Mine, W!Theirs} :
                  W!Move(x, to, near)
            \/ W!TakeAway(x, near)
      \/ \E x \in Plain, near \in W!Nears : W!Change(x, near)
      \/ \E to \in Tiles : W!Step(to)
      \/ \E cid \in Cids :
            \/ \E b \in Bags : W!Use(b, cid)
            \/ W!PlayerClose(cid) \/ W!PlayerMoveUp(cid) \/ W!PlayerUpdate(cid)
            \/ \E k \in 0..(Cardinality(Things) - 1) : W!PlayerSeek(cid, k)
  BY Zenon DEF W!WindowsNext, W!Things, Things, W!Cardinality, Cardinality
<1> QED
  BY ONLY <1>1, <1>2, <1>3, <1>4, <1>5, <1>6, <1>7, Zenon

LEMMA WindowsStart ==
  ASSUME W!WindowsInit
  PROVE  Sound(W!Now, misled)
<1> DEFINE s == W!Now
<1>1. PICK p \in Tiles : parent = [x \in Things |-> W!Tile(p)]
  BY ThingsAre DEF W!WindowsInit
<1>2. /\ s.parent = [x \in Things |-> W!Tile(p)] /\ s.list = [b \in Bags |-> <<>>]
      /\ s.look = [x \in Things |-> 0] /\ s.at \in Tiles
      /\ s.open = [cid \in Cids |-> [bag |-> W!None, index |-> 0]]
      /\ s.window = [cid \in Cids |-> W!Shut]
  BY <1>1, NowIs, ThingsAre DEF W!WindowsInit
<1>3. s = [parent |-> s.parent, list |-> s.list, look |-> s.look, at |-> s.at,
           open |-> s.open, window |-> s.window]
  BY DEF W!Now
<1> HIDE DEF s
<1>4. W!Tile(p) \in Grounds /\ W!Tile(p) \notin Bags /\ W!Tile(p) \notin Things
  BY Apart
<1>5. s.parent \in [Things -> Grounds \cup Bags] /\ \A x \in Things : s.parent[x] = W!Tile(p)
  BY <1>2, <1>4
<1>6. Shape(s)
  <2>1. s.list \in [Bags -> Seq(Things)]
    <3>1. <<>> \in Seq(Things)
      OBVIOUS
    <3> QED
      BY <1>2, <3>1
  <2>2. s.open \in [Cids -> [bag : Bags \cup {W!None}, index : Nat]]
    BY <1>2
  <2>3. s.look \in [Things -> Int] /\ s.at \in Int
    BY <1>2, WindowsAssumption
  <2>4. s.window = [cid \in Cids |-> s.window[cid]]
    BY <1>2
  <2> QED
    BY <1>3, <1>5, <2>1, <2>2, <2>3, <2>4 DEF Shape
<1>7. Placed(s)
  <2>1. ASSUME NEW x \in Things PROVE Over(Bags, s.parent, x) = {W!Tile(p)}
    BY <1>4, <1>5, OverStep
  <2> QED
    BY <1>4, <1>5, <2>1 DEF Placed, Forest
<1>8. Listed(s)
  <2>1. \A b \in Bags : s.list[b] = <<>> /\ Len(s.list[b]) = 0
    BY <1>2
  <2>2. \A b \in Bags, x \in Things : s.parent[x] # b
    BY <1>4, <1>5
  <2> QED
    BY <2>1, <2>2 DEF Listed
<1>9. \A cid \in Cids : s.open[cid].bag = W!None /\ s.window[cid] = W!Shut
  BY <1>2
<1>10. Leafed(s) /\ Open(s) /\ Synced(s, misled)
  BY <1>9 DEF Leafed, Open, Synced
<1> QED
  BY <1>6, <1>7, <1>8, <1>10 DEF Sound, s

(* What has a window is within reach, and what has none is not shown.      *)
LEMMA SoundAgrees ==
  ASSUME Sound(W!Now, misled)
  PROVE  W!OpenIsThere /\ W!WindowsInSync
<1> DEFINE s == W!Now
<1>0. Sound(s, misled) /\ s.open = openContainers /\ s.window = window
  BY NowIs
<1>1. ASSUME NEW cid \in Cids, openContainers[cid].bag # W!None
      PROVE  LET b == openContainers[cid].bag
             IN  ~ W!IsRemoved(s, b) /\ W!Holder(s, b) # W!Theirs /\ W!InRange(s, b, FALSE)
  <2> HIDE DEF s
  <2>1. Reached(s, openContainers[cid].bag)
    BY <1>0, <1>1 DEF Sound, Open
  <2>2. W!InRange(s, openContainers[cid].bag, FALSE) = TRUE
    BY <2>1, ReachedInRange
  <2> QED
    BY <2>1, <2>2 DEF Reached, W!IsRemoved
<1>2. ASSUME NEW cid \in Cids \ misled, window[cid] # W!Shut
      PROVE  /\ openContainers[cid].bag # W!None
             /\ window[cid] = W!Page(s, openContainers[cid].bag, openContainers[cid].index)
  <2> HIDE DEF s
  <2> DEFINE b == openContainers[cid].bag
             k == openContainers[cid].index
             w == window[cid]
  <2>1. b \in Bags /\ Shows(s, b, k, w) /\ Shape(s) /\ Begins(s, b, k)
    BY <1>0, <1>2, Apart DEF Sound, Synced, Leafed
  <2> HIDE DEF b, k, w
  <2>2. k \in 0..Len(s.list[b])
    BY <2>1, PagesBegin
  <2>3. w = W!Page(s, b, k)
    BY <2>1, <2>2, ShownIsPage
  <2>4. b # W!None
    BY <2>1, Apart
  <2> QED
    BY <2>3, <2>4 DEF b, k, w
<1>3. W!OpenIsThere
  BY <1>1 DEF W!OpenIsThere
<1>4. W!WindowsInSync
  BY <1>2 DEF W!WindowsInSync, W!InStep
<1> QED
  BY <1>3, <1>4

(* The inductive invariant, of the behaviours that are of the windows.     *)
WindowsSound == part = "windows" => Sound(W!Now, misled)

(* Whatever is moved, taken away and changed, by whomever, and wherever    *)
(* the player goes and looks: he has open only containers within his reach *)
(* (player.cpp:2196), and his client shows of them what is in them         *)
(* (player.cpp:903, 955), except in a window that was told of a thing      *)
(* looked up for another (player.cpp:925), until it is in step again.      *)
THEOREM WindowsStayInSync == MCSpec => []WindowsAgree
<1>1. MCInit => WindowsSound
  BY WindowsStart DEF MCInit, WindowsSound
<1>2. WindowsSound /\ [MCNext]_<<part, vars, windows>> => WindowsSound'
  <2> SUFFICES ASSUME WindowsSound, [MCNext]_<<part, vars, windows>>, part' = "windows"
               PROVE  Sound(W!Now', misled')
    BY DEF WindowsSound
  <2>1. CASE MCNext
    <3>1. part = "windows" /\ W!WindowsNext
      BY <2>1 DEF MCNext
    <3> QED
      BY <3>1, WindowsStep DEF WindowsSound
  <2>2. CASE UNCHANGED <<part, vars, windows>>
    <3>1. W!Now' = W!Now /\ misled' = misled /\ part = "windows"
      BY <2>2 DEF windows, W!Now
    <3> QED
      BY <3>1 DEF WindowsSound
  <2> QED
    BY <2>1, <2>2
<1>3. WindowsSound => WindowsAgree
  BY SoundAgrees DEF WindowsSound, WindowsAgree
<1> QED
  BY <1>1, <1>2, <1>3, PTL DEF MCSpec
=============================================================================
