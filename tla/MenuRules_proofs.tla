-------------------------- MODULE MenuRules_proofs --------------------------
(***************************************************************************)
(* What validateMenuTree means for any finite set of menus, and the two    *)
(* changes of a draft under which it goes on to hold.                      *)
(***************************************************************************)
EXTENDS MenuRules, FiniteSetTheorems, TLAPS

-----------------------------------------------------------------------------
(* Induction, over sets of naturals.                                      *)
LEMMA LeastNumber ==
  ASSUME NEW T, T \subseteq Nat, T # {}
  PROVE  \E n \in T : \A k \in T : n <= k
  <1>1. \E n \in T : \A k \in T : ~ (<<k, n>> \in OpToRel(<, Nat))
    BY NatLessThanWellFounded, WFMin
  <1>2. PICK n \in T : \A k \in T : ~ (<<k, n>> \in OpToRel(<, Nat))
    BY <1>1
  <1>3. \A k \in T : ~ (k < n)
    BY <1>2 DEF OpToRel
  <1> QED BY <1>3

LEMMA Induction ==
  ASSUME NEW S, 0 \in S, \A n \in Nat : n \in S => n + 1 \in S
  PROVE  \A n \in Nat : n \in S
  <1> DEFINE T == {n \in Nat : n \notin S}
  <1>1. SUFFICES ASSUME T # {} PROVE FALSE
    OBVIOUS
  <1>2. PICK n \in T : \A k \in T : n <= k
    BY <1>1, LeastNumber
  <1>3. n # 0 /\ n - 1 \in Nat /\ n - 1 \in S
    BY <1>2
  <1> QED BY <1>2, <1>3

-----------------------------------------------------------------------------
(* One step up from an id, and n of them: a path.                          *)
Up(items, id) ==
  IF id # NoMenu /\ Has(items, id) THEN ItemOf(items, id).parent ELSE id

IsPath(items, f, id, n) ==
  /\ f = [k \in 0 .. n |-> f[k]]
  /\ f[0] = id
  /\ \A k \in 0 .. n - 1 : f[k + 1] = Up(items, f[k])

Climbs(items, f, id, n) ==
  f = [k \in 0 .. n |-> IF k = 0 THEN id ELSE Up(items, f[k - 1])]

(* Chain is the path above an item that has as many steps as there are     *)
(* items.                                                                  *)
LEMMA PathExists ==
  ASSUME NEW items, NEW id, NEW n \in Nat
  PROVE  \E f : Climbs(items, f, id, n)
  <1> DEFINE Is(f, j) == f = [k \in 0 .. j |-> IF k = 0 THEN id ELSE Up(items, f[k - 1])]
             S == {j \in Nat : \E f : Is(f, j)}
  <1>1. 0 \in S
    <2> DEFINE f == [k \in 0 .. 0 |-> id]
    <2>1. Is(f, 0)
      OBVIOUS
    <2> HIDE DEF f, Is
    <2> QED BY <2>1
  <1>2. ASSUME NEW j \in Nat, j \in S PROVE j + 1 \in S
    <2>1. PICK f : Is(f, j)
      BY <1>2
    <2> DEFINE g == [k \in 0 .. j + 1 |-> IF k = j + 1 THEN Up(items, f[j]) ELSE f[k]]
    <2>2. \A k \in 0 .. j : f[k] = IF k = 0 THEN id ELSE Up(items, f[k - 1])
      BY <2>1
    <2>3. \A k \in 0 .. j + 1 : g[k] = IF k = 0 THEN id ELSE Up(items, g[k - 1])
      <3>1. ASSUME NEW k \in 0 .. j + 1 PROVE g[k] = IF k = 0 THEN id ELSE Up(items, g[k - 1])
        <4>1. CASE k = j + 1
          BY <4>1
        <4>2. CASE k # j + 1
          BY <2>2, <4>2
        <4> QED BY <4>1, <4>2
      <3> QED BY <3>1
    <2>4. g = [k \in 0 .. j + 1 |-> g[k]]
      OBVIOUS
    <2> HIDE DEF g
    <2>5. Is(g, j + 1)
      BY <2>3, <2>4
    <2> HIDE DEF Is
    <2> QED BY <2>5
  <1> HIDE DEF S
  <1>3. n \in S
    BY <1>1, <1>2, Induction
  <1>4. \E f : Is(f, n)
    BY <1>3 DEF S
  <1>5. \A f : Is(f, n) <=> Climbs(items, f, id, n)
    BY DEF Climbs
  <1> HIDE DEF Is
  <1> QED BY <1>4, <1>5

LEMMA ChainIsPath ==
  ASSUME NEW items, IsFiniteSet(items), NEW m
  PROVE  IsPath(items, Chain(items, m), m.parent, Cardinality(items))
  <1> DEFINE n == Cardinality(items)
             Is(f) == f = [k \in 0 .. n |-> IF k = 0 THEN m.parent ELSE Up(items, f[k - 1])]
  <1>1. n \in Nat
    BY FS_CardinalityType
  <1>2. Chain(items, m) = CHOOSE f : Is(f)
    BY DEF Chain, Up
  <1>3. Is(Chain(items, m))
    <2>1. \A f : Climbs(items, f, m.parent, n) <=> Is(f)
      BY DEF Climbs
    <2>2. \E f : Climbs(items, f, m.parent, n)
      <3> HIDE DEF n
      <3> QED BY <1>1, PathExists
    <2> HIDE DEF Is
    <2> QED BY <1>2, <2>1, <2>2
  <1> HIDE DEF n
  <1> DEFINE c == Chain(items, m)
  <1>4. Is(c)
    BY <1>3
  <1> HIDE DEF c
  <1>5. IsPath(items, c, m.parent, n)
    <2>1. c = [k \in 0 .. n |-> c[k]] /\ c[0] = m.parent
      BY <1>1, <1>4
    <2>2. \A k \in 0 .. n - 1 : c[k + 1] = Up(items, c[k])
      BY <1>1, <1>4
    <2> QED BY <2>1, <2>2 DEF IsPath
  <1> QED BY <1>5 DEF c, n

-----------------------------------------------------------------------------
(* Parts of a path, and paths that go on.                                  *)
LEMMA PathSteps ==
  ASSUME NEW items, NEW f, NEW id, NEW n \in Nat, IsPath(items, f, id, n)
  PROVE  f[0] = id /\ \A k \in 0 .. n - 1 : f[k + 1] = Up(items, f[k])
  BY DEF IsPath

LEMMA PathPart ==
  ASSUME NEW items, NEW f, NEW id, NEW n \in Nat, IsPath(items, f, id, n), NEW j \in 0 .. n
  PROVE  \E g : IsPath(items, g, id, j) /\ g[j] = f[j]
  <1> DEFINE g == [k \in 0 .. j |-> f[k]]
  <1>1. g = [k \in 0 .. j |-> g[k]] /\ g[0] = id /\ g[j] = f[j]
    BY DEF IsPath
  <1>2. \A k \in 0 .. j - 1 : g[k + 1] = Up(items, g[k])
    <2>1. \A k \in 0 .. j - 1 : g[k + 1] = f[k + 1] /\ g[k] = f[k]
      OBVIOUS
    <2>2. \A k \in 0 .. j - 1 : f[k + 1] = Up(items, f[k])
      BY PathSteps
    <2> QED BY <2>1, <2>2
  <1> HIDE DEF g
  <1>3. IsPath(items, g, id, j)
    BY <1>1, <1>2 DEF IsPath
  <1> QED BY <1>1, <1>3

(* A path that does not move does not move any more.                       *)
LEMMA PathStays ==
  ASSUME NEW items, NEW f, NEW id, NEW n \in Nat, IsPath(items, f, id, n),
         NEW j \in 0 .. n, Up(items, f[j]) = f[j]
  PROVE  \A k \in j .. n : f[k] = f[j]
  <1> DEFINE S == {d \in Nat : j + d <= n => f[j + d] = f[j]}
  <1>1. 0 \in S
    OBVIOUS
  <1>2. ASSUME NEW d \in Nat, d \in S PROVE d + 1 \in S
    <2>1. SUFFICES ASSUME j + d + 1 <= n PROVE f[j + d + 1] = f[j]
      OBVIOUS
    <2>2. f[j + d] = f[j]
      BY <1>2, <2>1
    <2>3. f[j + d + 1] = Up(items, f[j + d])
      <3>1. j + d \in 0 .. n - 1
        BY <2>1
      <3> QED BY <3>1, PathSteps
    <2> QED BY <2>2, <2>3
  <1> HIDE DEF S
  <1>3. \A d \in Nat : d \in S
    BY <1>1, <1>2, Induction
  <1>4. ASSUME NEW k \in j .. n PROVE f[k] = f[j]
    <2>1. k - j \in Nat /\ j + (k - j) = k /\ k <= n
      OBVIOUS
    <2>2. k - j \in S
      BY <1>3, <2>1
    <2> QED BY <2>1, <2>2 DEF S
  <1> QED BY <1>4

(* Two paths that meet go on alike.                                        *)
LEMMA PathsMeet ==
  ASSUME NEW items, NEW f, NEW a, NEW n \in Nat, IsPath(items, f, a, n),
         NEW g, NEW b, NEW o \in Nat, IsPath(items, g, b, o),
         NEW i \in 0 .. n, NEW j \in 0 .. o, f[i] = g[j]
  PROVE  \A d \in Nat : i + d <= n /\ j + d <= o => f[i + d] = g[j + d]
  <1> DEFINE S == {d \in Nat : i + d <= n /\ j + d <= o => f[i + d] = g[j + d]}
  <1>1. 0 \in S
    OBVIOUS
  <1>2. ASSUME NEW d \in Nat, d \in S PROVE d + 1 \in S
    <2>1. SUFFICES ASSUME i + d + 1 <= n, j + d + 1 <= o PROVE f[i + d + 1] = g[j + d + 1]
      OBVIOUS
    <2>2. f[i + d] = g[j + d]
      BY <1>2, <2>1
    <2>3. i + d \in 0 .. n - 1 /\ j + d \in 0 .. o - 1
      BY <2>1
    <2>4. f[i + d + 1] = Up(items, f[i + d])
      BY <2>3, PathSteps
    <2>5. g[j + d + 1] = Up(items, g[j + d])
      BY <2>3, PathSteps
    <2> QED BY <2>2, <2>4, <2>5
  <1> HIDE DEF S
  <1>3. \A d \in Nat : d \in S
    BY <1>1, <1>2, Induction
  <1> QED BY <1>3 DEF S

(* Ids of a draft are primary keys.                                        *)
UniqueIds(items) == \A a, b \in items : a.id = b.id => a = b

LEMMA ItemFound ==
  ASSUME NEW items, NEW id, Has(items, id)
  PROVE  ItemOf(items, id) \in items /\ ItemOf(items, id).id = id
  BY DEF Has, ItemOf

(* An item hangs from the root when some path above it gets there.         *)
Hangs(items, m) ==
  \E n \in Nat : \E f : IsPath(items, f, m.parent, n) /\ f[n] = NoMenu

(* The shortest path to the root meets different items, so it is no longer *)
(* than there are items: Chain is long enough.                             *)
LEMMA HangsByChain ==
  ASSUME NEW items, IsFiniteSet(items), NEW m, Hangs(items, m)
  PROVE  Chain(items, m)[Cardinality(items)] = NoMenu
  <1> DEFINE Lengths == {n \in Nat : \E f : IsPath(items, f, m.parent, n) /\ f[n] = NoMenu}
  <1>1. PICK n \in Lengths : \A k \in Lengths : n <= k
    <2>1. Lengths \subseteq Nat /\ Lengths # {}
      BY DEF Hangs
    <2> HIDE DEF Lengths
    <2> QED BY <2>1, LeastNumber
  <1>2. PICK f : IsPath(items, f, m.parent, n) /\ f[n] = NoMenu
    BY <1>1
  <1>3. n \in Nat
    BY <1>1
  <1>4. \A k \in 0 .. n - 1 : f[k] # NoMenu
    <2>1. ASSUME NEW k \in 0 .. n - 1, f[k] = NoMenu PROVE FALSE
      <3>1. PICK g : IsPath(items, g, m.parent, k) /\ g[k] = f[k]
        BY <1>2, <1>3, PathPart
      <3>2. k \in Lengths
        BY <1>3, <2>1, <3>1
      <3> QED BY <1>1, <1>3, <3>2
    <2> QED BY <2>1
  <1> HIDE DEF Lengths
  <1>5. \A k \in 0 .. n - 1 : Has(items, f[k])
    <2>1. ASSUME NEW k \in 0 .. n - 1, ~ Has(items, f[k]) PROVE FALSE
      <3>1. Up(items, f[k]) = f[k]
        BY <2>1 DEF Up
      <3>2. f[n] = f[k]
        BY <1>2, <1>3, <3>1, PathStays
      <3> QED BY <1>2, <1>4, <3>2
    <2> QED BY <2>1
  <1>6. \A i, j \in 0 .. n - 1 : i < j => f[i] # f[j]
    <2>1. ASSUME NEW i \in 0 .. n - 1, NEW j \in 0 .. n - 1, i < j, f[i] = f[j] PROVE FALSE
      <3>1. n - j \in Nat /\ i + (n - j) <= n /\ j + (n - j) = n /\ i + (n - j) \in 0 .. n - 1
        BY <1>3, <2>1
      <3>2. f[i + (n - j)] = f[j + (n - j)]
        BY <1>2, <1>3, <2>1, <3>1, PathsMeet
      <3> QED BY <1>2, <1>4, <3>1, <3>2
    <2> QED BY <2>1
  <1>7. n <= Cardinality(items)
    <2> DEFINE visited == [k \in 0 .. n - 1 |-> ItemOf(items, f[k])]
    <2>1. visited \in [0 .. n - 1 -> items] /\ \A k \in 0 .. n - 1 : visited[k].id = f[k]
      BY <1>5, ItemFound
    <2>2. IsFiniteSet(0 .. n - 1) /\ Cardinality(0 .. n - 1) = n
      BY <1>3, FS_Interval
    <2>3. \A i, j \in 0 .. n - 1 : i # j => visited[i] # visited[j]
      <3>1. ASSUME NEW i \in 0 .. n - 1, NEW j \in 0 .. n - 1, i # j, visited[i] = visited[j]
            PROVE FALSE
        <4>1. f[i] = f[j] /\ (i < j \/ j < i)
          BY <1>3, <2>1, <3>1
        <4> QED BY <1>6, <4>1
      <3> QED BY <3>1
    <2> HIDE DEF visited
    <2>4. Cardinality(items) \in Nat
      BY FS_CardinalityType
    <2>5. ASSUME Cardinality(items) < n PROVE FALSE
      <3> DEFINE steps == 0 .. n - 1
      <3>1. /\ IsFiniteSet(steps) /\ Cardinality(items) < Cardinality(steps)
            /\ visited \in [steps -> items]
        BY <2>1, <2>2, <2>5
      <3> HIDE DEF steps
      <3>2. \E i, j \in steps : i # j /\ visited[i] = visited[j]
        BY <3>1, FS_PigeonHole
      <3> QED BY <2>3, <3>2 DEF steps
    <2> QED BY <1>3, <2>4, <2>5
  <1> DEFINE c == Chain(items, m)
             N == Cardinality(items)
  <1>8. IsPath(items, c, m.parent, N) /\ N \in Nat
    BY ChainIsPath, FS_CardinalityType
  <1> HIDE DEF c, N
  <1>9. c[n] = NoMenu
    <2>1. c[0] = m.parent /\ f[0] = m.parent
      BY <1>2, <1>8 DEF IsPath
    <2>2. n <= N
      BY <1>7 DEF N
    <2>3. \A d \in Nat : 0 + d <= N /\ 0 + d <= n => c[0 + d] = f[0 + d]
      BY <1>2, <1>3, <1>8, <2>1, PathsMeet
    <2> QED BY <1>2, <1>3, <2>2, <2>3
  <1>10. c[N] = c[n]
    <2>1. Up(items, c[n]) = c[n]
      BY <1>9 DEF Up
    <2>2. n \in 0 .. N /\ N \in n .. N
      BY <1>3, <1>7, <1>8 DEF N
    <2> QED BY <1>8, <2>1, <2>2, PathStays
  <1> QED BY <1>9, <1>10 DEF c, N

(* A draft is a tree when every menu hangs from the root, however long the *)
(* paths: the bound of validateMenuTree loses nothing.                     *)
THEOREM TreeMeansHanging ==
  ASSUME NEW items, IsFiniteSet(items)
  PROVE  validateMenuTree(items) <=> \A m \in items : Hangs(items, m)
  <1>1. ASSUME NEW m \in items, Chain(items, m)[Cardinality(items)] = NoMenu
        PROVE  Hangs(items, m)
    BY <1>1, ChainIsPath, FS_CardinalityType DEF Hangs
  <1> QED BY <1>1, HangsByChain DEF validateMenuTree

-----------------------------------------------------------------------------
(***************************************************************************)
(* The changes of a draft that keep it a tree: a menu is added below one   *)
(* that is there, and a menu without children is removed.                  *)
(***************************************************************************)

(* A path of one set of menus is a path of another one that leads the same *)
(* way from wherever the path has been.                                    *)
LEMMA SamePath ==
  ASSUME NEW items, NEW others, NEW f, NEW id, NEW n \in Nat, IsPath(items, f, id, n),
         \A k \in 0 .. n - 1 : Up(others, f[k]) = Up(items, f[k])
  PROVE  IsPath(others, f, id, n)
  BY DEF IsPath

LEMMA ItemIs ==
  ASSUME NEW items, UniqueIds(items), NEW m \in items
  PROVE  Has(items, m.id) /\ ItemOf(items, m.id) = m
  <1>1. Has(items, m.id)
    BY DEF Has
  <1>2. ItemOf(items, m.id) \in items /\ ItemOf(items, m.id).id = m.id
    BY <1>1, ItemFound
  <1> QED BY <1>1, <1>2 DEF UniqueIds

(* One step up is the same in two sets that agree on the item with the id. *)
LEMMA SameUp ==
  ASSUME NEW items, UniqueIds(items), NEW others, UniqueIds(others), NEW id,
         \A m : m.id = id => (m \in items <=> m \in others)
  PROVE  Up(items, id) = Up(others, id)
  <1>1. CASE Has(items, id)
    <2>1. ItemOf(items, id) \in items /\ ItemOf(items, id).id = id
      BY <1>1, ItemFound
    <2>2. PICK m \in items : m = ItemOf(items, id) /\ m.id = id
      BY <2>1
    <2>3. m \in others
      BY <2>2
    <2>4. Has(others, id) /\ ItemOf(others, id) = m
      BY <2>2, <2>3, ItemIs
    <2> QED BY <1>1, <2>2, <2>4 DEF Up
  <1>2. CASE ~ Has(items, id)
    <2>1. ~ Has(others, id)
      BY <1>2 DEF Has
    <2> QED BY <1>2, <2>1 DEF Up
  <1> QED BY <1>1, <1>2

(* A menu with a new id, below the root or below a menu of the draft.      *)
LEMMA LeafAdded ==
  ASSUME NEW items, IsFiniteSet(items), UniqueIds(items), validateMenuTree(items),
         NEW x, x.id # NoMenu, ~ Has(items, x.id),
         x.parent = NoMenu \/ Has(items, x.parent)
  PROVE  validateMenuTree(items \cup {x})
  <1> DEFINE more == items \cup {x}
  <1>1. IsFiniteSet(more) /\ UniqueIds(more)
    BY FS_AddElement DEF UniqueIds, Has
  <1>2. \A m \in items : Hangs(items, m)
    BY TreeMeansHanging
  <1>3. \A id : id # x.id => Up(more, id) = Up(items, id)
    <2>1. SUFFICES ASSUME NEW id, id # x.id PROVE Up(more, id) = Up(items, id)
      OBVIOUS
    <2>2. \A m : m.id = id => (m \in items <=> m \in more)
      BY <2>1
    <2> HIDE DEF more
    <2> QED BY <1>1, <2>2, SameUp
  <1>4. \A m \in items : x \in more /\ m \in more
    OBVIOUS
  <1>5. x \in more
    OBVIOUS
  <1>6. \A m \in more : m \in items \/ m = x
    OBVIOUS
  <1> HIDE DEF more
  <1>7. ASSUME NEW m \in items PROVE Hangs(more, m)
    <2>1. PICK n \in Nat : \E f : IsPath(items, f, m.parent, n) /\ f[n] = NoMenu
      BY <1>2 DEF Hangs
    <2>2. PICK f : IsPath(items, f, m.parent, n) /\ f[n] = NoMenu
      BY <2>1
    <2>3. ASSUME NEW k \in 0 .. n - 1, f[k] = x.id PROVE FALSE
      <3>1. Up(items, f[k]) = f[k]
        BY <2>3 DEF Up
      <3>2. k \in 0 .. n /\ n \in k .. n
        OBVIOUS
      <3>3. f[n] = f[k]
        BY <2>2, <3>1, <3>2, PathStays
      <3> QED BY <2>2, <2>3, <3>3
    <2>4. \A k \in 0 .. n - 1 : Up(more, f[k]) = Up(items, f[k])
      BY <1>3, <2>3
    <2>5. IsPath(more, f, m.parent, n)
      BY <2>2, <2>4, SamePath
    <2> QED BY <2>2, <2>5 DEF Hangs
  <1>8. Hangs(more, x)
    <2>1. CASE x.parent = NoMenu
      <3> DEFINE f == [k \in 0 .. 0 |-> x.parent]
      <3>1. IsPath(more, f, x.parent, 0) /\ f[0] = NoMenu
        BY <2>1 DEF IsPath
      <3> HIDE DEF f
      <3> QED BY <3>1 DEF Hangs
    <2>2. CASE x.parent # NoMenu
      <3>1. PICK p \in items : p.id = x.parent
        BY <2>2 DEF Has
      <3>2. Up(more, x.parent) = p.parent
        <4>1. p \in more
          BY <1>4
        <4>2. Has(more, p.id) /\ ItemOf(more, p.id) = p
          BY <1>1, <4>1, ItemIs
        <4> QED BY <2>2, <3>1, <4>2 DEF Up
      <3>3. PICK n \in Nat : \E f : IsPath(more, f, p.parent, n) /\ f[n] = NoMenu
        BY <1>7 DEF Hangs
      <3>4. PICK f : IsPath(more, f, p.parent, n) /\ f[n] = NoMenu
        BY <3>3
      <3>5. PICK o \in Nat : o = n + 1
        OBVIOUS
      <3> DEFINE g == [k \in 0 .. o |-> IF k = 0 THEN x.parent ELSE f[k - 1]]
      <3>6. g = [k \in 0 .. o |-> g[k]] /\ g[0] = x.parent /\ g[o] = NoMenu
        BY <3>4, <3>5
      <3>7. ASSUME NEW k \in 0 .. o - 1 PROVE g[k + 1] = Up(more, g[k])
        <4>1. g[k + 1] = f[k]
          OBVIOUS
        <4>2. CASE k = 0
          <5>1. f[0] = p.parent /\ g[k] = x.parent
            BY <3>4, <4>2, PathSteps
          <5> QED BY <3>2, <4>1, <4>2, <5>1
        <4>3. CASE k # 0
          <5>1. g[k] = f[k - 1] /\ k - 1 \in 0 .. n - 1 /\ (k - 1) + 1 = k
            BY <3>5, <4>3
          <5>2. f[(k - 1) + 1] = Up(more, f[k - 1])
            BY <3>4, <5>1, PathSteps
          <5> QED BY <4>1, <5>1, <5>2
        <4> QED BY <4>2, <4>3
      <3> HIDE DEF g
      <3>8. IsPath(more, g, x.parent, o)
        BY <3>6, <3>7 DEF IsPath
      <3> QED BY <3>6, <3>8 DEF Hangs
    <2> QED BY <2>1, <2>2
  <1>9. \A m \in more : Hangs(more, m)
    BY <1>6, <1>7, <1>8
  <1>10. validateMenuTree(more)
    BY <1>1, <1>9, TreeMeansHanging
  <1> QED BY <1>10 DEF more

(* A menu that is nobody's parent.                                         *)
LEMMA LeafRemoved ==
  ASSUME NEW items, IsFiniteSet(items), UniqueIds(items), validateMenuTree(items),
         NEW id, \A m \in items : m.parent # id
  PROVE  validateMenuTree({m \in items : m.id # id})
  <1> DEFINE rest == {m \in items : m.id # id}
  <1>1. IsFiniteSet(rest) /\ UniqueIds(rest)
    BY FS_Subset DEF UniqueIds
  <1>2. \A i : i # id => Up(rest, i) = Up(items, i)
    <2>1. SUFFICES ASSUME NEW i, i # id PROVE Up(rest, i) = Up(items, i)
      OBVIOUS
    <2>2. \A m : m.id = i => (m \in items <=> m \in rest)
      BY <2>1
    <2> HIDE DEF rest
    <2> QED BY <1>1, <2>2, SameUp
  <1>3. \A m \in rest : m \in items
    OBVIOUS
  <1> HIDE DEF rest
  <1>4. ASSUME NEW m \in rest PROVE Hangs(rest, m)
    <2>1. m \in items /\ Hangs(items, m) /\ m.parent # id
      BY <1>3, TreeMeansHanging
    <2>2. PICK n \in Nat : \E f : IsPath(items, f, m.parent, n) /\ f[n] = NoMenu
      BY <2>1 DEF Hangs
    <2>3. PICK f : IsPath(items, f, m.parent, n) /\ f[n] = NoMenu
      BY <2>2
    <2> DEFINE S == {k \in Nat : k <= n => f[k] # id}
    <2>4. 0 \in S
      BY <2>1, <2>3, PathSteps
    <2>5. ASSUME NEW k \in Nat, k \in S PROVE k + 1 \in S
      <3>1. SUFFICES ASSUME k + 1 <= n PROVE f[k + 1] # id
        OBVIOUS
      <3>2. f[k] # id /\ f[k + 1] = Up(items, f[k])
        <4>1. k \in 0 .. n - 1
          BY <3>1
        <4> QED BY <2>3, <2>5, <3>1, <4>1, PathSteps
      <3>3. CASE f[k] # NoMenu /\ Has(items, f[k])
        BY <3>2, <3>3, ItemFound DEF Up
      <3>4. CASE ~ (f[k] # NoMenu /\ Has(items, f[k]))
        BY <3>2, <3>4 DEF Up
      <3> QED BY <3>3, <3>4
    <2> HIDE DEF S
    <2>6. \A k \in Nat : k \in S
      BY <2>4, <2>5, Induction
    <2>7. \A k \in 0 .. n - 1 : Up(rest, f[k]) = Up(items, f[k])
      BY <1>2, <2>6 DEF S
    <2>8. IsPath(rest, f, m.parent, n)
      BY <2>3, <2>7, SamePath
    <2> QED BY <2>3, <2>8 DEF Hangs
  <1>5. validateMenuTree(rest)
    BY <1>1, <1>4, TreeMeansHanging
  <1> QED BY <1>5 DEF rest
=============================================================================
