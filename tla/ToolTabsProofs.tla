--------------------------- MODULE ToolTabsProofs ---------------------------
(***************************************************************************)
(* Proofs about ToolTabs for any number of rows, places, keys, profiles    *)
(* and acts of the user: a key is bound once, clicker rows have no gaps,   *)
(* the tools run with what the tabs show, and the profiles are in step     *)
(* with their file.  OrderInv (where keys may be) is inductive; FollowInv  *)
(* (what the tools were handed) and ShelfInv (what a saved profile reads   *)
(* back as) are inductive on top of it.                                    *)
(***************************************************************************)
EXTENDS ToolTabs, WellFoundedInduction, TLAPS

-----------------------------------------------------------------------------
(* Rows and places *)

\* Every tab has a row and every row a place.
LEMMA Counts ==
  \A t \in Tabs : RowCount[t] \in Nat \ {0} /\ SlotCount[t] \in Nat \ {0}
BY ToolTabsAssumption DEF Tabs, RowCount, SlotCount

\* A clicker row holds up to ClickerKeysPerBind keys.
LEMMA ClickerSlots == SlotCount["clicker"] = ClickerKeysPerBind /\ "clicker" \in Tabs
BY DEF Tabs, SlotCount

\* A timer and a potion have one key each.
LEMMA OneSlot == SlotCount["timer"] = 1 /\ SlotCount["autopot"] = 1
BY DEF SlotCount

\* A place is a tab, a row of it and a slot of the row.
LEMMA PlaceParts ==
  ASSUME NEW p
  PROVE  p \in Place <=> /\ p = <<p[1], p[2], p[3]>>
                         /\ p[1] \in Tabs /\ p[2] \in 1 .. RowCount[p[1]] /\ p[3] \in 1 .. SlotCount[p[1]]
<1>1. ASSUME p \in Place
      PROVE  /\ p = <<p[1], p[2], p[3]>>
             /\ p[1] \in Tabs /\ p[2] \in 1 .. RowCount[p[1]] /\ p[3] \in 1 .. SlotCount[p[1]]
  <2>1. PICK t \in Tabs : p \in {t} \X (1 .. RowCount[t]) \X (1 .. SlotCount[t])
    BY <1>1 DEF Place
  <2> QED
    BY <2>1
<1>2. ASSUME p = <<p[1], p[2], p[3]>>,
             p[1] \in Tabs, p[2] \in 1 .. RowCount[p[1]], p[3] \in 1 .. SlotCount[p[1]]
      PROVE  p \in Place
  <2>1. p \in {p[1]} \X (1 .. RowCount[p[1]]) \X (1 .. SlotCount[p[1]])
    BY <1>2
  <2> QED
    BY <1>2, <2>1 DEF Place
<1> QED
  BY <1>1, <1>2

LEMMA PlaceOf ==
  ASSUME NEW t \in Tabs, NEW r \in 1 .. RowCount[t], NEW s \in 1 .. SlotCount[t]
  PROVE  <<t, r, s>> \in Place
<1>1. <<t, r, s>> \in {t} \X (1 .. RowCount[t]) \X (1 .. SlotCount[t])
  OBVIOUS
<1> QED
  BY <1>1 DEF Place

\* Min takes the least element of a set of numbers.
LEMMA MinIsLeast ==
  ASSUME NEW S, S \subseteq Nat, S # {}
  PROVE  Min(S) \in S /\ \A n \in S : Min(S) <= n
<1>1. PICK m \in S : \A n \in S : ~ (<<n, m>> \in OpToRel(<, Nat))
  <2>1. \E m \in S : \A n \in S : ~ (<<n, m>> \in OpToRel(<, Nat))
    BY NatLessThanWellFounded, WFMin
  <2> QED
    BY <2>1
<1>2. ASSUME NEW n \in S, n < m
      PROVE  FALSE
  <2>1. <<n, m>> \in OpToRel(<, Nat)
    BY <1>2 DEF OpToRel
  <2> QED
    BY <1>1, <2>1
<1>3. \A n \in S : m <= n
  BY <1>2
<1> QED
  BY <1>3 DEF Min

-----------------------------------------------------------------------------
(* Keys in order *)

\* Clicker rows have no gaps and, until a hidden row was given a key, no key is
\* in two places and the hidden rows have none: they will be shown again.
Tidy(hidden, k, v) ==
  /\ Compact(k)
  /\ \/ hidden
     \/ OnceAmong(Place, k) /\ \A p \in Place \ Shown(v) : k[p] = NoKey

TidyList(hidden, list) ==
  \A i \in DOMAIN list : Tidy(hidden, list[i].tabs.key, Normalized(list[i].tabs).visible)

KeysInv == key \in KeyMaps /\ visible \in VisibleCounts /\ Tidy(hiddenBind, key, visible)

Emptied(t, r) == [p \in Place |-> IF p[1] = t /\ p[2] = r THEN NoKey ELSE key[p]]

\* A row that loses its keys leaves the rest in order.
LEMMA ClearedIsTidy ==
  ASSUME KeysInv, NEW t, NEW r, key' = Emptied(t, r)
  PROVE  key' \in KeyMaps /\ Tidy(hiddenBind, key', visible)
<1>1. key' \in KeyMaps
  BY DEF KeysInv, KeyMaps, Emptied
<1>2. \A p \in Place : key'[p] = key[p] \/ key'[p] = NoKey
  BY DEF Emptied
<1>3. Compact(key')
  BY DEF KeysInv, Tidy, Compact, Emptied
<1>4. OnceAmong(Place, key) => OnceAmong(Place, key')
  BY <1>2 DEF OnceAmong
<1> QED
  BY <1>1, <1>2, <1>3, <1>4 DEF KeysInv, Tidy

\* So do the rows that move up when a row goes.
LEMMA RemovedIsTidy ==
  ASSUME KeysInv, NEW t \in Tabs, NEW r, NEW empty, Remove(t, r, empty)
  PROVE  /\ key' \in KeyMaps /\ visible' \in VisibleCounts
         /\ Tidy(hiddenBind, key', visible')
<1> DEFINE from(p) == <<t, Source(t, r, p[2]), p[3]>>
<1>1. /\ visible[t] \in 2 .. RowCount[t] /\ r \in 1 .. visible[t]
      /\ visible' = [visible EXCEPT ![t] = visible[t] - 1]
      /\ visible \in [Tabs -> Nat] /\ \A u \in Tabs : visible[u] \in 1 .. RowCount[u]
      /\ RowCount[t] \in Nat
  BY Counts DEF Remove, KeysInv, VisibleCounts
<1>2. visible' \in VisibleCounts
  BY <1>1 DEF VisibleCounts
<1>3. \A p \in Place : p[1] # t => key'[p] = key[p]
  BY DEF Remove
<1>4. \A p \in Place : p[1] = t /\ p[2] = visible[t] => key'[p] = NoKey
  BY DEF Remove
<1>5. ASSUME NEW p \in Place, p[1] = t, p[2] # visible[t]
      PROVE  /\ key'[p] = key[from(p)] /\ from(p) \in Place
             /\ from(p)[2] = IF p[2] < r \/ p[2] > visible[t] THEN p[2] ELSE p[2] + 1
             /\ from(p)[2] > visible[t] <=> p[2] > visible[t]
  <2>1. key'[p] = key[from(p)]
    BY <1>5 DEF Remove
  <2>2. p[2] \in 1 .. RowCount[t] /\ p[3] \in 1 .. SlotCount[t]
    BY <1>5, PlaceParts
  <2>3. Source(t, r, p[2]) \in 1 .. RowCount[t]
    BY <1>1, <1>5, <2>2 DEF Source
  <2>4. from(p) \in Place
    BY <2>2, <2>3, PlaceOf
  <2> QED
    BY <1>1, <1>5, <2>1, <2>2, <2>4 DEF Source
<1>6. key' \in KeyMaps
  <2>1. \A p \in Place : key'[p] \in Keys \cup {NoKey}
    BY <1>3, <1>4, <1>5 DEF KeysInv, KeyMaps
  <2> QED
    BY <2>1 DEF Remove, KeyMaps
<1>7. Compact(key')
  <2> SUFFICES ASSUME NEW p \in Place, NEW q \in Place, p[1] = "clicker", q[1] = "clicker",
                      p[2] = q[2], p[3] < q[3], key'[q] # NoKey
               PROVE  key'[p] # NoKey
    BY DEF Compact
  <2>1. CASE t # "clicker"
    BY <1>3, <2>1 DEF KeysInv, Tidy, Compact
  <2>2. CASE t = "clicker"
    <3>1. q[2] # visible[t]
      BY <1>4, <2>2
    <3>2. key'[p] = key[from(p)] /\ key'[q] = key[from(q)] /\ from(p) \in Place /\ from(q) \in Place
      BY <1>5, <2>2, <3>1
    <3> QED
      BY <2>2, <3>2 DEF KeysInv, Tidy, Compact
  <2> QED
    BY <2>1, <2>2
<1>8. ASSUME ~hiddenBind
      PROVE  OnceAmong(Place, key')
  <2> SUFFICES ASSUME NEW p \in Place, NEW q \in Place, key'[p] = key'[q], key'[p] # NoKey
               PROVE  SameSpot(p, q)
    BY DEF OnceAmong
  <2> DEFINE was(x) == IF x[1] = t THEN from(x) ELSE x
  <2>1. ASSUME NEW x \in Place, key'[x] # NoKey
        PROVE  /\ was(x) \in Place /\ key'[x] = key[was(x)]
               /\ was(x)[1] = x[1] /\ was(x)[3] = x[3]
               /\ x[1] = t => was(x)[2] = IF x[2] < r \/ x[2] > visible[t] THEN x[2] ELSE x[2] + 1
               /\ x[1] = t => x[2] # visible[t]
               /\ x[1] # t => was(x)[2] = x[2]
    BY <1>3, <1>4, <1>5, <2>1
  <2>2. SameSpot(was(p), was(q))
    BY <1>8, <2>1 DEF KeysInv, Tidy, OnceAmong
  <2>3. p[1] = q[1] /\ (p[3] = q[3] \/ p[1] = "keychain") /\ was(p)[2] = was(q)[2]
    BY <2>1, <2>2 DEF SameSpot
  <2>4. p[2] = q[2]
    <3>1. p[2] \in Nat /\ q[2] \in Nat
      BY PlaceParts, Counts
    <3> HIDE DEF was
    <3> QED
      BY <1>1, <2>1, <2>3, <3>1
  <2>5. p = <<p[1], p[2], p[3]>> /\ q = <<q[1], q[2], q[3]>>
    BY PlaceParts
  <2>6. CASE p[3] = q[3]
    BY <2>3, <2>4, <2>5, <2>6 DEF SameSpot
  <2>7. CASE p[1] = "keychain"
    BY <2>3, <2>4, <2>7 DEF SameSpot
  <2> QED
    BY <2>3, <2>6, <2>7
<1>9. ASSUME ~hiddenBind, NEW p \in Place \ Shown(visible')
      PROVE  key'[p] = NoKey
  <2>1. CASE p[1] # t
    <3>1. p \notin Shown(visible)
      BY <1>1, <1>9, <2>1, PlaceParts DEF Shown
    <3> QED
      BY <1>3, <1>9, <2>1, <3>1 DEF KeysInv, Tidy
  <2>2. CASE p[1] = t /\ p[2] # visible[t]
    <3>1. p[2] \in Nat /\ p[2] > visible[t]
      BY <1>1, <1>9, <2>2, PlaceParts DEF Shown
    <3>2. from(p) \in Place \ Shown(visible) /\ key'[p] = key[from(p)]
      <4>1. from(p)[1] = t
        OBVIOUS
      <4> HIDE DEF from
      <4> QED
        BY <1>1, <1>5, <2>2, <3>1, <4>1 DEF Shown
    <3> QED
      BY <1>9, <3>2 DEF KeysInv, Tidy
  <2> QED
    BY <1>4, <2>1, <2>2
<1> QED
  BY <1>2, <1>6, <1>7, <1>8, <1>9 DEF Tidy

\* Some tab finds a key that is bound where it may not stay, and only there.
LEMMA FinderFinds ==
  ASSUME NEW vk \in Keys, NEW keep
  PROVE  LET t == Finder(vk, keep)
         IN /\ t = "none" => /\ \A u \in Tabs \ {"keychain"} : Holding(u, vk) = {}
                             /\ Others(vk, keep) = {}
            /\ t \in Tabs \cup {"none"}
            /\ t \in Tabs \ {"keychain"} => Holding(t, vk) # {}
<1>1. Tabs = {"clicker", "timer", "autopot", "keychain"}
  BY DEF Tabs
<1> QED
  BY <1>1 DEF Finder

\* unsetKeyBinding leaves the keys in order and the key bound nowhere else than
\* in the switch to keep.
LEMMA UnsetIsTidy ==
  ASSUME KeysInv, NEW vk \in Keys, NEW keep
  PROVE  /\ Unset(vk, keep) \in KeyMaps /\ Tidy(hiddenBind, Unset(vk, keep), visible)
         /\ \A p \in Place : Unset(vk, keep)[p] = vk /\ ~hiddenBind => p[1] = "keychain" /\ p[2] = keep
<1> DEFINE k == Unset(vk, keep)
           t == Finder(vk, keep)
<1>0. vk # NoKey
  BY ToolTabsAssumption
<1>1. ASSUME ~hiddenBind, NEW p \in Place, key[p] = vk
      PROVE  p[2] \in Holding(p[1], vk)
  <2>1. p \in Shown(visible)
    BY <1>0, <1>1 DEF KeysInv, Tidy
  <2>2. p[2] \in 1 .. visible[p[1]]
    BY <2>1, PlaceParts DEF Shown, KeysInv, VisibleCounts
  <2>3. p = <<p[1], p[2], p[3]>> /\ p[3] \in 1 .. SlotCount[p[1]]
    BY PlaceParts
  <2> QED
    BY <1>1, <2>2, <2>3 DEF Holding
<1>2. ASSUME ~hiddenBind, NEW p \in Place, NEW q \in Place, key[p] = vk, key[q] = vk
      PROVE  SameSpot(p, q)
  BY <1>0, <1>2 DEF KeysInv, Tidy, OnceAmong
<1>3. CASE t = "none"
  <2>1. k = key
    BY <1>3 DEF Unset
  <2>2. ASSUME ~hiddenBind, NEW p \in Place, key[p] = vk
        PROVE  p[1] = "keychain" /\ p[2] = keep
    <3>1. p[1] \in Tabs /\ p[2] \in Holding(p[1], vk)
      BY <1>1, <2>2, PlaceParts
    <3> QED
      BY <1>3, <3>1, FinderFinds DEF Others
  <2> QED
    BY <2>1, <2>2 DEF KeysInv
<1>4. CASE t = "keychain"
  <2>1. k = [p \in Place |-> IF p[1] = "keychain" /\ p[2] \in Others(vk, keep) /\ key[p] = vk
                             THEN NoKey ELSE key[p]]
    BY <1>4 DEF Unset
  <2>2. k \in KeyMaps
    BY <2>1 DEF KeysInv, KeyMaps
  <2>3. Compact(k)
    BY <2>1 DEF KeysInv, Tidy, Compact
  <2>4. OnceAmong(Place, key) => OnceAmong(Place, k)
    BY <2>1 DEF OnceAmong
  <2>5. \A p \in Place : key[p] = NoKey => k[p] = NoKey
    BY <2>1
  <2>6. ASSUME ~hiddenBind, NEW p \in Place, k[p] = vk
        PROVE  p[1] = "keychain" /\ p[2] = keep
    <3>1. key[p] = vk /\ ~(p[1] = "keychain" /\ p[2] \in Others(vk, keep))
      BY <1>0, <2>1, <2>6
    <3>2. p[2] \in Holding(p[1], vk)
      BY <1>1, <2>6, <3>1
    <3>3. p[1] = "keychain"
      BY <1>4, <3>1, <3>2, PlaceParts DEF Finder, Tabs
    <3> QED
      BY <3>1, <3>2, <3>3 DEF Others
  <2> QED
    BY <2>2, <2>3, <2>4, <2>5, <2>6 DEF KeysInv, Tidy
<1>5. CASE t \in {"clicker", "timer", "autopot"}
  <2> DEFINE row == Min(Holding(t, vk))
  <2>1. t \in Tabs \ {"keychain"} /\ row \in Holding(t, vk)
    <3>1. t \in Tabs \ {"keychain"} /\ Holding(t, vk) # {}
      BY <1>5, FinderFinds DEF Tabs
    <3>2. Holding(t, vk) \subseteq Nat
      BY <3>1 DEF Holding, KeysInv, VisibleCounts
    <3> QED
      BY <3>1, <3>2, MinIsLeast
  <2>2. row \in 1 .. RowCount[t] /\ row \in 1 .. visible[t]
    BY <2>1, Counts DEF Holding, KeysInv, VisibleCounts
  <2> HIDE DEF row
  <2>3. PICK s \in 1 .. SlotCount[t] : key[<<t, row, s>>] = vk
    BY <2>1 DEF Holding
  <2>4. <<t, row, s>> \in Place
    BY <2>1, <2>2, <2>3, PlaceOf
  <2>5. ASSUME ~hiddenBind, NEW p \in Place, key[p] = vk
        PROVE  p = <<t, row, s>>
    BY <1>2, <2>1, <2>3, <2>4, <2>5 DEF SameSpot
  <2>6. CASE t # "clicker"
    <3>1. k = [p \in Place |-> IF p[1] # t \/ p[2] # row THEN key[p] ELSE NoKey]
      BY <1>5, <2>6 DEF Unset, row
    <3>2. k = [p \in Place |-> IF p[1] = t /\ p[2] = row THEN NoKey ELSE key[p]]
      BY <3>1
    <3>3. k \in KeyMaps
      BY <3>2 DEF KeysInv, KeyMaps
    <3>4. Compact(k)
      BY <3>2 DEF KeysInv, Tidy, Compact
    <3>5. OnceAmong(Place, key) => OnceAmong(Place, k)
      BY <3>2 DEF OnceAmong
    <3>6. \A p \in Place : key[p] = NoKey => k[p] = NoKey
      BY <3>2
    <3>7. ASSUME ~hiddenBind, NEW p \in Place
          PROVE  k[p] # vk
      BY <1>0, <2>5, <3>2, <3>7
    <3> QED
      BY <3>3, <3>4, <3>5, <3>6, <3>7 DEF KeysInv, Tidy
  <2>7. CASE t = "clicker"
    <3> DEFINE n == ClickerKeysPerBind
               slots == {i \in 1 .. n : key[<<"clicker", row, i>>] = vk}
               first == Min(slots)
    <3>1. first \in slots /\ first \in 1 .. n /\ n \in Nat
      <4>1. n \in Nat
        BY ToolTabsAssumption
      <4>2. slots # {} /\ slots \subseteq Nat
        BY <2>3, <2>7, <4>1, ClickerSlots
      <4> QED
        BY <4>1, <4>2, MinIsLeast
    <3>2. ASSUME NEW p \in Place, p[1] = "clicker", p[2] = row
          PROVE  /\ p[3] \in 1 .. n /\ p = <<"clicker", row, p[3]>>
                 /\ k[p] = IF p[3] < first THEN key[p]
                           ELSE IF p[3] < n THEN key[<<"clicker", row, p[3] + 1>>] ELSE NoKey
                 /\ p[3] < n => <<"clicker", row, p[3] + 1>> \in Place
      <4>1. p[3] \in 1 .. n /\ p = <<"clicker", row, p[3]>>
        BY <3>2, PlaceParts, ClickerSlots
      <4>2. k[p] = MovedUp(p, vk)
        BY <2>7, <3>2 DEF Unset, row
      <4>3. p[3] < n => <<"clicker", row, p[3] + 1>> \in Place
        BY <2>2, <2>7, <3>1, <4>1, ClickerSlots, PlaceOf
      <4> QED
        BY <3>2, <4>1, <4>2, <4>3 DEF MovedUp
    <3>3. \A p \in Place : ~(p[1] = "clicker" /\ p[2] = row) => k[p] = key[p]
      BY <2>7 DEF Unset, row
    <3>4. DOMAIN k = Place
      BY <2>7 DEF Unset
    <3> HIDE DEF k, first
    <3>5. k \in KeyMaps
      <4>1. k = [p \in Place |-> k[p]]
        BY <2>7 DEF Unset, k
      <4>2. \A p \in Place : k[p] \in Keys \cup {NoKey}
        BY <3>2, <3>3 DEF KeysInv, KeyMaps
      <4> QED
        BY <4>1, <4>2 DEF KeyMaps
    <3>6. Compact(k)
      <4> SUFFICES ASSUME NEW p \in Place, NEW q \in Place, p[1] = "clicker", q[1] = "clicker",
                          p[2] = q[2], p[3] < q[3], k[q] # NoKey
                   PROVE  k[p] # NoKey
        BY DEF Compact
      <4>1. CASE p[2] # row
        BY <3>3, <4>1 DEF KeysInv, Tidy, Compact
      <4>2. CASE p[2] = row
        <5> DEFINE up(x) == <<"clicker", row, x[3] + 1>>
        <5>1. q[2] = row
          BY <4>2
        <5>2. /\ q[3] \in 1 .. n
              /\ k[q] = IF q[3] < first THEN key[q] ELSE IF q[3] < n THEN key[up(q)] ELSE NoKey
              /\ q[3] < n => up(q) \in Place
          BY <3>2, <5>1, Zenon
        <5>3. /\ p[3] \in 1 .. n
              /\ k[p] = IF p[3] < first THEN key[p] ELSE IF p[3] < n THEN key[up(p)] ELSE NoKey
              /\ p[3] < n => up(p) \in Place
          BY <3>2, <4>2, Zenon
        <5>4. p[3] < n /\ up(p) \in Place
          <6>1. p[3] < n
            BY <3>1, <5>2, <5>3
          <6> QED
            BY <5>3, <6>1
        <5>5. k[p] = IF p[3] < first THEN key[p] ELSE key[up(p)]
          BY <5>3, <5>4
        <5>6. \A x, y \in Place : /\ x[1] = "clicker" /\ y[1] = "clicker" /\ x[2] = row /\ y[2] = row
                                  /\ x[3] < y[3] /\ key[y] # NoKey
                                  => key[x] # NoKey
          BY DEF KeysInv, Tidy, Compact
        <5>7. CASE q[3] < first
          <6>1. key[q] # NoKey
            BY <5>2, <5>7
          <6>2. key[p] # NoKey
            BY <4>2, <5>1, <5>6, <6>1
          <6>3. p[3] < first
            BY <3>1, <5>2, <5>3, <5>7
          <6> QED
            BY <5>5, <6>2, <6>3
        <5>8. CASE ~(q[3] < first)
          <6>1. q[3] < n /\ key[up(q)] # NoKey /\ up(q) \in Place
            BY <5>2, <5>8
          <6>2. p[3] < up(q)[3] /\ up(p)[3] < up(q)[3]
            BY <5>2, <5>3
          <6>3. key[p] # NoKey
            BY <4>2, <5>6, <6>1, <6>2
          <6>4. key[up(p)] # NoKey
            BY <5>4, <5>6, <6>1, <6>2
          <6> QED
            BY <5>5, <6>3, <6>4
        <5> QED
          BY <5>7, <5>8
      <4> QED
        BY <4>1, <4>2
    <3>7. ASSUME ~hiddenBind, NEW p \in Place, k[p] # NoKey
          PROVE  \E q \in Place : /\ key[q] = k[p] /\ q[1] = p[1] /\ q[2] = p[2] /\ q # <<t, row, s>>
                                  /\ IF p[1] = "clicker" /\ p[2] = row
                                     THEN q[3] = IF p[3] < first THEN p[3] ELSE p[3] + 1
                                     ELSE q = p
      <4>1. CASE p[1] = "clicker" /\ p[2] = row
        <5>1. s = first
          <6>1. <<t, row, first>> \in Place /\ key[<<t, row, first>>] = vk
            BY <2>2, <2>7, <3>1, ClickerSlots, PlaceOf
          <6> QED
            BY <2>5, <3>7, <6>1
        <5>2. CASE p[3] < first
          <6>1. k[p] = key[p] /\ p[3] # s /\ p[3] \in 1 .. n
            <7>1. p[3] \in 1 .. n /\ k[p] = IF p[3] < first THEN key[p]
                           ELSE IF p[3] < n THEN key[<<"clicker", row, p[3] + 1>>] ELSE NoKey
              BY <3>2, <4>1, Zenon
            <7> QED
              BY <3>1, <5>1, <5>2, <7>1
          <6> QED
            BY <4>1, <5>2, <6>1
        <5>3. CASE ~(p[3] < first)
          <6>1. p[3] < n /\ <<"clicker", row, p[3] + 1>> \in Place /\ p[3] \in Nat
            BY <3>2, <3>7, <4>1, <5>3
          <6>2. key[<<"clicker", row, p[3] + 1>>] = k[p]
            BY <3>2, <4>1, <5>3, <6>1
          <6>3. p[3] + 1 # s
            BY <3>1, <5>1, <5>3, <6>1
          <6> QED
            BY <4>1, <5>3, <6>1, <6>2, <6>3
        <5> QED
          BY <5>2, <5>3
      <4>2. CASE ~(p[1] = "clicker" /\ p[2] = row)
        BY <2>7, <3>3, <4>2
      <4> QED
        BY <4>1, <4>2
    <3>8. ASSUME ~hiddenBind, NEW p \in Place
          PROVE  k[p] # vk
      BY <1>0, <2>5, <3>7, <3>8
    <3>9. ASSUME ~hiddenBind
          PROVE  OnceAmong(Place, k)
      <4> SUFFICES ASSUME NEW p \in Place, NEW q \in Place, k[p] = k[q], k[p] # NoKey
                   PROVE  SameSpot(p, q)
        BY DEF OnceAmong
      <4>1. PICK x \in Place : /\ key[x] = k[p] /\ x[1] = p[1] /\ x[2] = p[2]
                               /\ IF p[1] = "clicker" /\ p[2] = row
                                  THEN x[3] = IF p[3] < first THEN p[3] ELSE p[3] + 1
                                  ELSE x = p
        BY <3>7, <3>9
      <4>2. PICK y \in Place : /\ key[y] = k[q] /\ y[1] = q[1] /\ y[2] = q[2]
                               /\ IF q[1] = "clicker" /\ q[2] = row
                                  THEN y[3] = IF q[3] < first THEN q[3] ELSE q[3] + 1
                                  ELSE y = q
        BY <3>7, <3>9
      <4>3. SameSpot(x, y)
        BY <3>9, <4>1, <4>2 DEF KeysInv, Tidy, OnceAmong
      <4>4. p[1] = q[1] /\ p[2] = q[2]
        BY <4>1, <4>2, <4>3 DEF SameSpot
      <4>5. CASE p[1] = "clicker" /\ p[2] = row
        <5>1. x = y
          BY <4>1, <4>2, <4>3, <4>5 DEF SameSpot
        <5>2. p[3] \in 1 .. n /\ q[3] \in 1 .. n
          BY <3>2, <4>4, <4>5
        <5>3. p[3] = q[3]
          BY <3>1, <4>1, <4>2, <4>4, <4>5, <5>1, <5>2
        <5>4. p = <<"clicker", row, p[3]>> /\ q = <<"clicker", row, q[3]>>
          BY <3>2, <4>4, <4>5
        <5> QED
          BY <5>3, <5>4 DEF SameSpot
      <4>6. CASE ~(p[1] = "clicker" /\ p[2] = row)
        BY <4>1, <4>2, <4>3, <4>4, <4>6 DEF SameSpot
      <4> QED
        BY <4>5, <4>6
    <3>10. ASSUME ~hiddenBind, NEW p \in Place \ Shown(visible)
           PROVE  k[p] = NoKey
      <4>1. CASE p[1] = "clicker" /\ p[2] = row
        BY <2>2, <2>7, <3>10, <4>1 DEF Shown, KeysInv, VisibleCounts
      <4>2. CASE ~(p[1] = "clicker" /\ p[2] = row)
        BY <3>3, <3>10, <4>2 DEF KeysInv, Tidy
      <4> QED
        BY <4>1, <4>2
    <3> QED
      BY <3>5, <3>6, <3>8, <3>9, <3>10 DEF Tidy, k
  <2> QED
    BY <2>6, <2>7
<1> QED
  BY <1>3, <1>4, <1>5, FinderFinds DEF Tabs

\* The key goes to the place clicked or to the first free slot of its row.
LEMMA PlacedIsTidy ==
  ASSUME NEW k \in KeyMaps, NEW v \in VisibleCounts, NEW h \in BOOLEAN, Tidy(h, k, v),
         NEW vk \in Keys, NEW target \in Place, NEW keep,
         keep = IF target[1] = "keychain" THEN target[2] ELSE 0,
         \A p \in Place : k[p] = vk /\ ~h => p[1] = "keychain" /\ p[2] = keep,
         target[1] = "clicker" => FreeSlots(k, target[2], vk) # {}
  PROVE  LET new == [k EXCEPT ![Slot(k, target, vk)] = vk]
         IN new \in KeyMaps /\ Tidy(h \/ target \notin Shown(v), new, v)
<1> DEFINE place == Slot(k, target, vk)
           new == [k EXCEPT ![place] = vk]
<1>0. vk # NoKey
  BY ToolTabsAssumption
<1>1. target = <<target[1], target[2], target[3]>> /\ target[1] \in Tabs /\ target[2] \in 1 .. RowCount[target[1]]
  BY PlaceParts
<1>2. ASSUME target[1] = "clicker"
      PROVE  /\ place[3] \in FreeSlots(k, target[2], vk)
             /\ place[3] \in 1 .. SlotCount["clicker"]
             /\ \A i \in FreeSlots(k, target[2], vk) : place[3] <= i
             /\ place = <<"clicker", target[2], place[3]>>
  <2>1. FreeSlots(k, target[2], vk) \subseteq 1 .. SlotCount["clicker"]
    BY ClickerSlots DEF FreeSlots
  <2>2. FreeSlots(k, target[2], vk) \subseteq Nat
    BY <2>1, Counts, ClickerSlots
  <2>3. place = <<"clicker", target[2], Min(FreeSlots(k, target[2], vk))>>
    BY <1>2 DEF Slot
  <2> QED
    BY <1>2, <2>1, <2>2, <2>3, MinIsLeast
<1>3. place \in Place /\ place[1] = target[1] /\ place[2] = target[2]
  <2>1. CASE target[1] = "clicker"
    BY <1>1, <1>2, <2>1, PlaceOf
  <2>2. CASE target[1] # "clicker"
    BY <2>2 DEF Slot
  <2> QED
    BY <2>1, <2>2
<1>4. new \in KeyMaps /\ new[place] = vk /\ \A p \in Place : p # place => new[p] = k[p]
  BY <1>3 DEF KeyMaps
<1> HIDE DEF place, new
<1>5. Compact(new)
  <2> SUFFICES ASSUME NEW p \in Place, NEW q \in Place, p[1] = "clicker", q[1] = "clicker",
                      p[2] = q[2], p[3] < q[3], new[q] # NoKey
               PROVE  new[p] # NoKey
    BY DEF Compact
  <2>1. CASE q = place
    <3>1. p[3] \in 1 .. ClickerKeysPerBind /\ p = <<"clicker", target[2], p[3]>> /\ place[3] \in Nat
      BY <1>2, <1>3, <2>1, PlaceParts, ClickerSlots
    <3>2. p[3] \notin FreeSlots(k, target[2], vk)
      BY <1>2, <1>3, <2>1, <3>1, ClickerSlots
    <3>3. k[p] # NoKey
      BY <3>1, <3>2 DEF FreeSlots
    <3> QED
      BY <1>0, <1>4, <3>3
  <2>2. CASE q # place
    BY <1>0, <1>4, <2>2 DEF Tidy, Compact
  <2> QED
    BY <2>1, <2>2
<1>6. ASSUME ~h, target \in Shown(v)
      PROVE  OnceAmong(Place, new) /\ \A p \in Place \ Shown(v) : new[p] = NoKey
  <2>1. \A p \in Place : k[p] = vk => SameSpot(p, place)
    <3>1. ASSUME NEW p \in Place, k[p] = vk
          PROVE  SameSpot(p, place)
      <4>1. p[1] = "keychain" /\ p[2] = keep /\ p[2] \in Nat /\ p[2] # 0
        BY <1>6, <3>1, PlaceParts, Counts
      <4> QED
        BY <1>3, <4>1 DEF SameSpot
    <3> QED
      BY <3>1
  <2>2. OnceAmong(Place, new)
    <3> SUFFICES ASSUME NEW p \in Place, NEW q \in Place, new[p] = new[q], new[p] # NoKey
                 PROVE  SameSpot(p, q)
      BY DEF OnceAmong
    <3>1. CASE p = place
      BY <1>4, <2>1, <3>1 DEF SameSpot
    <3>2. CASE q = place
      BY <1>4, <2>1, <3>2 DEF SameSpot
    <3>3. CASE p # place /\ q # place
      BY <1>4, <1>6, <3>3 DEF Tidy, OnceAmong
    <3> QED
      BY <3>1, <3>2, <3>3
  <2>3. place \in Shown(v)
    BY <1>3, <1>6 DEF Shown
  <2> QED
    BY <1>4, <1>6, <2>2, <2>3 DEF Tidy
<1> QED
  BY <1>4, <1>5, <1>6 DEF Tidy, place, new

\* A key that arrives is taken from where it was and put where it belongs.
LEMMA KeyPressedIsTidy ==
  ASSUME KeysInv, hiddenBind \in BOOLEAN, NEW vk \in Keys, KeyPressed(vk)
  PROVE  key' \in KeyMaps /\ Tidy(hiddenBind', key', visible)
<1> DEFINE keep == IF bind[1] = "keychain" THEN bind[2] ELSE 0
           before == Unset(vk, keep)
           full == bind[1] = "clicker" /\ FreeSlots(before, bind[2], vk) = {}
<1>1. /\ bind \in Place
      /\ key' = IF full THEN before ELSE [before EXCEPT ![Slot(before, bind, vk)] = vk]
      /\ hiddenBind' = (hiddenBind \/ bind \notin Shown(visible))
  BY DEF KeyPressed
<1>2. /\ before \in KeyMaps /\ Tidy(hiddenBind, before, visible)
      /\ \A p \in Place : before[p] = vk /\ ~hiddenBind => p[1] = "keychain" /\ p[2] = keep
  BY UnsetIsTidy
<1> HIDE DEF before
<1>3. CASE full
  BY <1>1, <1>2, <1>3 DEF Tidy
<1>4. CASE ~full
  BY <1>1, <1>2, <1>4, PlacedIsTidy DEF KeysInv
<1> QED
  BY <1>3, <1>4

-----------------------------------------------------------------------------
(* Profiles *)

RawEntries == [name : Names, tabs : RawProfiles]

\* A row is a tab and a number.
LEMMA RowOf ==
  ASSUME NEW t \in Tabs, NEW r \in 1 .. RowCount[t]
  PROVE  <<t, r>> \in Row
<1>1. <<t, r>> \in {t} \X (1 .. RowCount[t])
  OBVIOUS
<1> QED
  BY <1>1 DEF Row

LEMMA RowParts ==
  ASSUME NEW w \in Row
  PROVE  w = <<w[1], w[2]>> /\ w[1] \in Tabs /\ w[2] \in 1 .. RowCount[w[1]]
<1>1. PICK t \in Tabs : w \in {t} \X (1 .. RowCount[t])
  BY DEF Row
<1> QED
  BY <1>1

\* What the program saves is among what a file may hold.
LEMMA EntriesAreRaw == Entries \subseteq RawEntries
<1>1. Profiles \subseteq RawProfiles
  BY DEF Profiles, RawProfiles, VisibleCounts
<1> QED
  BY <1>1 DEF Entries, RawEntries

\* Normalizing repairs the numbers, keeps the keys and does it once for all.
LEMMA NormalizedIsProfile ==
  ASSUME NEW p \in RawProfiles
  PROVE  /\ Normalized(p) \in Profiles /\ Normalized(p).key = p.key
         /\ p.visible \in VisibleCounts => Normalized(p).visible = p.visible
<1> DEFINE v == [t \in Tabs |-> IF p.visible[t] \in 1 .. RowCount[t] THEN p.visible[t] ELSE 1]
           d == [w \in Row |-> IF p.delay[w] = 0 /\ w[1] # "keychain" THEN Default ELSE p.delay[w]]
<1>1. p = [key |-> p.key, visible |-> p.visible, delay |-> p.delay]
      /\ p.key \in KeyMaps /\ p.visible \in [Tabs -> Nat] /\ p.delay \in [Row -> Values]
  BY DEF RawProfiles
<1>2. v \in VisibleCounts
  BY <1>1, Counts DEF VisibleCounts
<1>3. d \in [Row -> Values]
  BY <1>1, ToolTabsAssumption
<1>4. Normalized(p) = [key |-> p.key, visible |-> v, delay |-> d]
  <2>1. Normalized(p) = [p EXCEPT !.visible = v, !.delay = d]
    BY DEF Normalized
  <2> HIDE DEF v, d
  <2> QED
    BY <1>1, <2>1
<1>5. p.visible \in VisibleCounts => v = p.visible
  BY <1>1 DEF VisibleCounts
<1> QED
  BY <1>1, <1>2, <1>3, <1>4, <1>5 DEF Profiles

LEMMA EntryOf ==
  ASSUME NEW n \in Names, NEW p \in Profiles
  PROVE  [name |-> n, tabs |-> p] \in Entries
BY DEF Entries

\* Reading a file in order gives profiles in order.
LEMMA LoadedIsTidy ==
  ASSUME NEW list \in Seq(RawEntries), NEW h, TidyList(h, list)
  PROVE  Load(list) \in Seq(Entries) /\ Len(Load(list)) = Len(list) /\ TidyList(h, Load(list))
<1>1. \A i \in DOMAIN list : list[i] \in RawEntries /\ list[i].tabs \in RawProfiles /\ list[i].name \in Names
  <2>1. \A i \in DOMAIN list : list[i] \in RawEntries
    OBVIOUS
  <2> QED
    BY <2>1 DEF RawEntries
<1>2. \A i \in DOMAIN list : Load(list)[i] = [name |-> list[i].name, tabs |-> Normalized(list[i].tabs)]
  BY DEF Load
<1>3. ASSUME NEW i \in DOMAIN list
      PROVE  Load(list)[i] \in Entries
  <2>1. Normalized(list[i].tabs) \in Profiles /\ list[i].name \in Names
    BY <1>1, NormalizedIsProfile
  <2> QED
    BY <1>2, <2>1, EntryOf
<1>4. DOMAIN Load(list) = 1 .. Len(list) /\ DOMAIN list = 1 .. Len(list) /\ Len(list) \in Nat
  BY DEF Load
<1>5. Load(list) \in Seq(Entries) /\ Len(Load(list)) = Len(list)
  <2>1. Load(list) \in [1 .. Len(list) -> Entries]
    BY <1>2, <1>3, <1>4 DEF Load
  <2> QED
    BY <1>4, <2>1
<1>6. ASSUME NEW i \in DOMAIN Load(list)
      PROVE  Tidy(h, Load(list)[i].tabs.key, Normalized(Load(list)[i].tabs).visible)
  <2> DEFINE p == list[i].tabs
  <2>1. p \in RawProfiles /\ Load(list)[i].tabs = Normalized(p) /\ Tidy(h, p.key, Normalized(p).visible)
    BY <1>1, <1>2, <1>4, <1>6 DEF TidyList
  <2>2. Normalized(p) \in RawProfiles /\ Normalized(p).visible \in VisibleCounts
    BY <2>1, NormalizedIsProfile DEF Profiles, RawProfiles, VisibleCounts
  <2>3. Normalized(Normalized(p)).visible = Normalized(p).visible /\ Normalized(p).key = p.key
    BY <2>1, <2>2, NormalizedIsProfile
  <2> QED
    BY <2>1, <2>3
<1> QED
  BY <1>5, <1>6 DEF TidyList

LEMMA NamesAreNames ==
  ASSUME NEW list \in Seq(Entries)
  PROVE  NamesOf(list) \in Seq(Names) /\ Len(NamesOf(list)) = Len(list)
<1>1. ASSUME NEW i \in 1 .. Len(list)
      PROVE  list[i].name \in Names
  <2>1. list[i] \in Entries
    OBVIOUS
  <2> QED
    BY <2>1 DEF Entries
<1>2. NamesOf(list) \in [1 .. Len(list) -> Names] /\ Len(list) \in Nat
  BY <1>1 DEF NamesOf
<1> QED
  BY <1>2

\* The tabs of a new program are in order.
LEMMA FreshIsTidy ==
  Fresh \in Profiles /\ \A h : Tidy(h, Fresh.key, Fresh.visible)
<1>1. Fresh.key = FreshKeys /\ Fresh.visible = FreshVisible /\ Fresh = [key |-> FreshKeys, delay |-> FreshDelays, visible |-> FreshVisible]
  BY DEF Fresh
<1>2. FreshKeys \in KeyMaps
  BY DEF FreshKeys, KeyMaps
<1>3. FreshVisible \in VisibleCounts
  <2>1. RowCount["autopot"] = 2
    BY DEF RowCount
  <2> QED
    BY <2>1, Counts DEF FreshVisible, VisibleCounts
<1>4. FreshDelays \in [Row -> Values]
  BY ToolTabsAssumption DEF FreshDelays
<1>5. Fresh \in Profiles
  BY <1>1, <1>2, <1>3, <1>4 DEF Profiles
<1>6. Compact(FreshKeys) /\ OnceAmong(Place, FreshKeys) /\ \A p \in Place : FreshKeys[p] = NoKey
  BY DEF FreshKeys, Compact, OnceAmong
<1> QED
  BY <1>1, <1>5, <1>6 DEF Tidy

\* The tabs as they are make a profile.
LEMMA CapturedIsProfile ==
  ASSUME TypeOK
  PROVE  Captured \in Profiles /\ Captured.key = key /\ Captured.visible = visible
<1> DEFINE d == [w \in Row |-> IF w[1] \in {"clicker", "timer"} /\ w[2] > visible[w[1]]
                               THEN Default ELSE ReadValue(w[1], delay[w])]
<1>1. Captured = [key |-> key, visible |-> visible, delay |-> d]
  BY DEF Captured
<1>2. d \in [Row -> Values]
  BY ToolTabsAssumption DEF TypeOK, ReadValue
<1> QED
  BY <1>1, <1>2 DEF TypeOK, Profiles

-----------------------------------------------------------------------------
(* The invariant *)

\* The tabs, the profiles and the file are in order, so is whatever a profile
\* or a new row brings into the tabs, and the combo box shows no more than there is.
OrderInv ==
  /\ TypeOK
  /\ Tidy(hiddenBind, key, visible)
  /\ TidyList(hiddenBind, saved) /\ TidyList(hiddenBind, file.list)
  /\ template = Fresh
  /\ Len(listed) <= Len(saved)

\* What the lemmas about keys need.
LEMMA TypesOfKeys == OrderInv => KeysInv /\ hiddenBind \in BOOLEAN
BY DEF OrderInv, TypeOK, KeysInv

\* A sync leaves only tools running.
LEMMA SyncTypes ==
  ASSUME TypeOK, NEW ts, Sync(ts)
  PROVE  DOMAIN running' \subseteq Tabs /\ stale' \subseteq Tabs /\ startup' = startup
BY DEF Sync, Synced, TypeOK

\* No tool runs in the empty function.
LEMMA NothingRuns ==
  ASSUME NEW f, f = <<>>
  PROVE  DOMAIN f \subseteq Tabs
<1>1. f \in Seq({}) /\ Len(f) = 0
  OBVIOUS
<1>2. DOMAIN f = 1 .. Len(f)
  BY <1>1
<1> QED
  BY <1>1, <1>2

LEMMA InitOrderInv == Init => OrderInv
<1> SUFFICES ASSUME Init PROVE OrderInv
  OBVIOUS
<1>1. file.ok = TRUE /\ file.list \in FirstFiles /\ file.list \in Seq(RawEntries)
  BY FilesAreInOrder DEF Init, RawEntries
<1>2. key = Fresh.key /\ visible = Fresh.visible /\ delay = Fresh.delay
  BY DEF Init, Fresh
<1>3. key \in KeyMaps /\ visible \in VisibleCounts /\ delay \in [Row -> Values]
  BY <1>2, FreshIsTidy DEF Profiles
<1>4. ASSUME NEW i \in DOMAIN file.list
      PROVE  Tidy(FALSE, file.list[i].tabs.key, Normalized(file.list[i].tabs).visible)
  BY <1>1, FilesAreInOrder DEF Tidy, InOrder
<1>5. hiddenBind = FALSE /\ TidyList(hiddenBind, file.list)
  BY <1>4 DEF TidyList, Init
<1>6. saved \in Seq(Entries) /\ TidyList(hiddenBind, saved)
  BY <1>1, <1>5, LoadedIsTidy DEF Init
<1>7. listed \in Seq(Names) /\ Len(listed) = Len(saved) /\ Len(saved) \in Nat
  BY <1>6, NamesAreNames DEF Init
<1>8. /\ bind \in Place \cup {Unbound, Pressed} /\ startup \in Tabs \cup {"no", "starting", "rest"}
      /\ running = <<>> /\ stale \subseteq Tabs /\ ioFailed \in BOOLEAN /\ active = 0
      /\ template = Fresh
  BY DEF Init
<1>9. TypeOK
  <2>1. DOMAIN running \subseteq Tabs
    BY <1>8, NothingRuns
  <2>2. active \in 0 .. Len(saved) /\ hiddenBind \in BOOLEAN /\ template \in Profiles
    <3>1. active \in 0 .. Len(saved)
      BY <1>7, <1>8
    <3>2. hiddenBind \in BOOLEAN /\ template \in Profiles
      BY <1>5, <1>8, FreshIsTidy, Zenon
    <3> QED
      BY <3>1, <3>2
  <2>3. file.ok \in BOOLEAN
    BY <1>1, Zenon
  <2> QED
    BY <1>1, <1>3, <1>6, <1>7, <1>8, <2>1, <2>2, <2>3 DEF TypeOK, RawEntries
<1> QED
  BY <1>2, <1>5, <1>6, <1>7, <1>8, <1>9, FreshIsTidy DEF OrderInv

\* Order is claimed until a hidden row got a key, and no longer.
LEMMA TidyStays ==
  ASSUME NEW h \in BOOLEAN, NEW g \in BOOLEAN, h => g, NEW list, TidyList(h, list)
  PROVE  TidyList(g, list)
BY DEF TidyList, Tidy

\* A step that leaves the profiles alone has only the tabs to keep in order.
LEMMA EditKeepsOrder ==
  ASSUME OrderInv, UNCHANGED shelf,
         key' \in KeyMaps, visible' \in VisibleCounts, delay' \in [Row -> Values],
         hiddenBind' \in BOOLEAN, hiddenBind => hiddenBind', Tidy(hiddenBind', key', visible'),
         bind' \in Place \cup {Unbound, Pressed},
         DOMAIN running' \subseteq Tabs, stale' \subseteq Tabs,
         startup' \in Tabs \cup {"no", "starting", "rest"}
  PROVE  OrderInv'
<1>1. /\ saved' = saved /\ file' = file /\ template' = template /\ listed' = listed
      /\ active' = active /\ ioFailed' = ioFailed
  BY DEF shelf
<1>2. TypeOK'
  BY <1>1 DEF OrderInv, TypeOK
<1>3. TidyList(hiddenBind', saved') /\ TidyList(hiddenBind', file'.list)
  BY <1>1, TidyStays, TypesOfKeys DEF OrderInv
<1> QED
  BY <1>1, <1>2, <1>3 DEF OrderInv

\* A row that is added was empty; the other edits are those of the lemmas above.
LEMMA RowEditsKeepOrder ==
  ASSUME OrderInv, NEW t \in Tabs,
         \/ AddRow(t)
         \/ \E r \in 1 .. RowCount[t], d \in Values : Clear(t, r, d)
         \/ \E r \in 1 .. RowCount[t], d \in Values : Remove(t, r, d)
         \/ \E r \in 1 .. RowCount[t], n \in Values : SetValue(t, r, n)
  PROVE  OrderInv'
<1>0. KeysInv /\ hiddenBind \in BOOLEAN /\ bind \in Place \cup {Unbound, Pressed} /\ TypeOK
      /\ delay \in [Row -> Values] /\ startup \in Tabs \cup {"no", "starting", "rest"}
      /\ DOMAIN running \subseteq Tabs /\ stale \subseteq Tabs
  BY TypesOfKeys DEF OrderInv, TypeOK
<1>1. CASE AddRow(t)
  <2>1. /\ visible[t] < RowCount[t] /\ visible' = [visible EXCEPT ![t] = visible[t] + 1]
        /\ UNCHANGED <<key, delay, bind, hiddenBind, running, startup>> /\ UNCHANGED shelf
        /\ stale' \in {stale, stale \cup {t}}
    BY <1>1 DEF AddRow
  <2>2. visible' \in VisibleCounts
    BY <1>0, <2>1, Counts DEF KeysInv, VisibleCounts
  <2>3. \A p \in Place : p \notin Shown(visible') => p \notin Shown(visible)
    <3>1. ASSUME NEW p \in Place, p[2] <= visible[p[1]]
          PROVE  p[2] <= visible'[p[1]]
      <4>1. p[1] \in Tabs /\ p[2] \in Nat /\ visible[p[1]] \in Nat
        BY <1>0, PlaceParts, Counts DEF KeysInv, VisibleCounts
      <4>2. visible'[p[1]] = IF p[1] = t THEN visible[p[1]] + 1 ELSE visible[p[1]]
        BY <1>0, <2>1, <4>1 DEF KeysInv, VisibleCounts
      <4> QED
        BY <3>1, <4>1, <4>2
    <3> QED
      BY <3>1 DEF Shown
  <2>4. Tidy(hiddenBind, key, visible')
    BY <1>0, <2>3 DEF KeysInv, Tidy
  <2> QED
    BY <1>0, <2>1, <2>2, <2>4, EditKeepsOrder DEF KeysInv
<1>2. ASSUME NEW r \in 1 .. RowCount[t], NEW d \in Values, Clear(t, r, d)
      PROVE  OrderInv'
  <2>1. /\ key' = Emptied(t, r)
        /\ delay' = [delay EXCEPT ![<<t, r>>] = d]
        /\ Sync({t}) /\ UNCHANGED <<visible, bind, hiddenBind>> /\ UNCHANGED shelf
    BY <1>2 DEF Clear, Emptied
  <2>2. key' \in KeyMaps /\ Tidy(hiddenBind, key', visible)
    BY <1>0, <2>1, ClearedIsTidy
  <2>3. delay' \in [Row -> Values]
    BY <1>0, <2>1, RowOf
  <2> QED
    BY <1>0, <2>1, <2>2, <2>3, SyncTypes, EditKeepsOrder DEF KeysInv
<1>3. ASSUME NEW r \in 1 .. RowCount[t], NEW d \in Values, Remove(t, r, d)
      PROVE  OrderInv'
  <2>1. /\ Sync({t}) /\ UNCHANGED <<bind, hiddenBind>> /\ UNCHANGED shelf
        /\ visible[t] > 1 /\ r \in 1 .. visible[t]
        /\ delay' = [w \in Row |-> IF w[1] # t THEN delay[w]
                                   ELSE IF w[2] = visible[t] THEN d
                                   ELSE delay[<<t, Source(t, r, w[2])>>]]
    BY <1>3 DEF Remove
  <2>2. key' \in KeyMaps /\ visible' \in VisibleCounts /\ Tidy(hiddenBind, key', visible')
    BY <1>0, <1>3, RemovedIsTidy
  <2>3. ASSUME NEW w \in Row, w[1] = t, w[2] # visible[t]
        PROVE  <<t, Source(t, r, w[2])>> \in Row
    <3>1. w[2] \in 1 .. RowCount[t] /\ visible[t] \in 1 .. RowCount[t] /\ RowCount[t] \in Nat
      BY <1>0, <2>3, RowParts, Counts DEF KeysInv, VisibleCounts
    <3>2. Source(t, r, w[2]) \in 1 .. RowCount[t]
      BY <2>3, <3>1 DEF Source
    <3> QED
      BY <3>2, RowOf
  <2>4. delay' \in [Row -> Values]
    BY <1>0, <2>1, <2>3
  <2> QED
    BY <1>0, <2>1, <2>2, <2>4, SyncTypes, EditKeepsOrder
<1>4. ASSUME NEW r \in 1 .. RowCount[t], NEW n \in Values, SetValue(t, r, n)
      PROVE  OrderInv'
  <2>1. /\ delay' = [delay EXCEPT ![<<t, r>>] = n]
        /\ Sync({t}) /\ UNCHANGED <<key, visible, bind, hiddenBind>> /\ UNCHANGED shelf
    BY <1>4 DEF SetValue
  <2>2. delay' \in [Row -> Values]
    BY <1>0, <2>1, RowOf
  <2> QED
    BY <1>0, <2>1, <2>2, SyncTypes, EditKeepsOrder DEF KeysInv
<1> QED
  BY <1>1, <1>2, <1>3, <1>4

LEMMA BindKeepsOrder ==
  ASSUME OrderInv,
         \/ \E p \in Place : BindStart(p)
         \/ \E vk \in Keys : KeyPressed(vk)
         \/ BindEnds
  PROVE  OrderInv'
<1>0. KeysInv /\ hiddenBind \in BOOLEAN /\ bind \in Place \cup {Unbound, Pressed} /\ TypeOK
      /\ delay \in [Row -> Values] /\ startup \in Tabs \cup {"no", "starting", "rest"}
      /\ DOMAIN running \subseteq Tabs /\ stale \subseteq Tabs
  BY TypesOfKeys DEF OrderInv, TypeOK
<1>1. ASSUME NEW p \in Place, BindStart(p)
      PROVE  OrderInv'
  <2>1. bind' = p /\ UNCHANGED <<key, delay, visible, hiddenBind, running, startup, stale>> /\ UNCHANGED shelf
    BY <1>1 DEF BindStart, tabs, tools
  <2> QED
    BY <1>0, <2>1, EditKeepsOrder DEF KeysInv
<1>2. ASSUME NEW vk \in Keys, KeyPressed(vk)
      PROVE  OrderInv'
  <2>1. /\ UNCHANGED <<delay, visible>> /\ UNCHANGED shelf
        /\ bind' = Pressed
        /\ hiddenBind' = (hiddenBind \/ bind \notin Shown(visible))
        /\ \E ts : Sync(ts)
    BY <1>2 DEF KeyPressed
  <2>2. key' \in KeyMaps /\ Tidy(hiddenBind', key', visible)
    BY <1>0, <1>2, KeyPressedIsTidy
  <2> QED
    BY <1>0, <2>1, <2>2, SyncTypes, EditKeepsOrder DEF KeysInv
<1>3. CASE BindEnds
  <2>1. /\ bind' = Unbound /\ UNCHANGED <<key, delay, visible, hiddenBind, running, startup, stale>>
        /\ UNCHANGED shelf
    BY <1>3 DEF BindEnds, tabs, tools
  <2> QED
    BY <1>0, <2>1, EditKeepsOrder DEF KeysInv
<1> QED
  BY <1>1, <1>2, <1>3

LEMMA ToolsKeepOrder ==
  ASSUME OrderInv, Start \/ ReadTabs \/ StartTool \/ Stop
  PROVE  OrderInv'
<1>0. KeysInv /\ hiddenBind \in BOOLEAN /\ bind \in Place \cup {Unbound, Pressed}
      /\ delay \in [Row -> Values] /\ startup \in Tabs \cup {"no", "starting", "rest"}
      /\ DOMAIN running \subseteq Tabs /\ stale \subseteq Tabs
  BY TypesOfKeys DEF OrderInv, TypeOK
<1>1. UNCHANGED <<key, delay, visible, bind, hiddenBind>> /\ UNCHANGED shelf
  BY DEF Start, ReadTabs, StartTool, Stop, tabs
<1>2. DOMAIN running' \subseteq Tabs /\ stale' \subseteq Tabs
      /\ startup' \in Tabs \cup {"no", "starting", "rest"}
  <2>1. CASE Start
    BY <1>0, <2>1 DEF Start
  <2>2. CASE ReadTabs
    BY <1>0, <2>2 DEF ReadTabs, Tabs
  <2>3. CASE StartTool
    <3>1. startup \in Tabs /\ startup' = After[startup]
      BY <2>3 DEF StartTool
    <3>2. startup' \in Tabs \cup {"no", "starting", "rest"}
      BY <3>1 DEF After, Tabs
    <3>3. stale' \in {stale, stale \cup {startup}, stale \ {startup}}
          /\ (DOMAIN running' = DOMAIN running \cup {startup} \/ running' = running)
      BY <2>3 DEF StartTool
    <3> QED
      BY <1>0, <3>1, <3>2, <3>3
  <2>4. CASE Stop
    <3>1. running' = <<>> /\ stale' = {} /\ startup' = "no"
      BY <2>4 DEF Stop
    <3> QED
      BY <3>1, NothingRuns
  <2> QED
    BY <2>1, <2>2, <2>3, <2>4
<1> QED
  BY <1>0, <1>1, <1>2, EditKeepsOrder DEF KeysInv

\* A profile that is applied brings its own order.
LEMMA AppliedIsTidy ==
  ASSUME TypeOK, NEW p \in Profiles, Tidy(hiddenBind, p.key, Normalized(p).visible), Apply(p)
  PROVE  /\ key' \in KeyMaps /\ visible' \in VisibleCounts /\ delay' \in [Row -> Values]
         /\ Tidy(hiddenBind, key', visible')
         /\ DOMAIN running' \subseteq Tabs /\ stale' \subseteq Tabs /\ startup' = startup
<1>1. p \in RawProfiles
  BY DEF Profiles, RawProfiles, VisibleCounts
<1>2. Normalized(p) \in Profiles /\ p.key \in KeyMaps
  BY <1>1, NormalizedIsProfile DEF Profiles
<1>3. key' = p.key /\ visible' = Normalized(p).visible /\ delay' = Normalized(p).delay /\ Sync(Tabs)
  BY DEF Apply
<1> QED
  BY <1>2, <1>3, SyncTypes DEF Profiles

\* A profile of the tabs as they are is in order.
LEMMA EntryIsTidy ==
  ASSUME OrderInv, NEW n \in Names
  PROVE  /\ Entry(n) \in Entries
         /\ Tidy(hiddenBind, Entry(n).tabs.key, Normalized(Entry(n).tabs).visible)
<1>1. Captured \in Profiles /\ Captured.key = key /\ Captured.visible = visible
  BY CapturedIsProfile DEF OrderInv
<1>2. Captured \in RawProfiles /\ Captured.visible \in VisibleCounts
  BY <1>1 DEF Profiles, RawProfiles, VisibleCounts
<1>3. Normalized(Captured).visible = visible
  BY <1>1, <1>2, NormalizedIsProfile
<1>4. Entry(n) = [name |-> n, tabs |-> Captured]
  BY DEF Entry
<1> QED
  BY <1>1, <1>3, <1>4, EntryOf DEF OrderInv

\* What a write that failed may have left in the file.
LEMMA FileErrorIsTidy ==
  ASSUME OrderInv, file' \in FileAfterError
  PROVE  /\ file'.ok \in BOOLEAN /\ file'.list \in Seq(RawEntries)
         /\ TidyList(hiddenBind, file'.list)
<1>0. file.ok \in BOOLEAN /\ file.list \in Seq(RawEntries) /\ TidyList(hiddenBind, file.list)
  BY DEF OrderInv, TypeOK, RawEntries
<1>1. CASE file' = file
  BY <1>0, <1>1
<1>2. CASE file' = [ok |-> FALSE, list |-> <<>>]
  <2>1. file'.ok = FALSE /\ file'.list = <<>>
    BY <1>2
  <2>2. file'.list \in Seq(RawEntries) /\ Len(file'.list) = 0
    BY <2>1
  <2>3. TidyList(hiddenBind, file'.list)
    BY <2>2 DEF TidyList
  <2> QED
    BY <2>1, <2>2, <2>3
<1> QED
  BY <1>1, <1>2 DEF FileAfterError

\* A list that was written is in the file.
LEMMA WrittenIsTidy ==
  ASSUME NEW h, NEW list \in Seq(Entries), TidyList(h, list), Written(list)
  PROVE  /\ saved' = list /\ file'.ok \in BOOLEAN /\ file'.list \in Seq(RawEntries)
         /\ TidyList(h, file'.list)
<1>1. file'.ok = TRUE /\ file'.list = list /\ saved' = list
  BY DEF Written
<1>2. list \in Seq(RawEntries)
  BY EntriesAreRaw
<1> QED
  BY <1>1, <1>2

LEMMA SelectKeepsOrder ==
  ASSUME OrderInv, NEW i \in 0 .. Len(listed), Select(i)
  PROVE  OrderInv'
<1> DEFINE p == IF i = 0 THEN template ELSE saved[i].tabs
<1>1. /\ active' = i /\ Apply(p)
      /\ UNCHANGED <<bind, hiddenBind, template, saved, listed, file, ioFailed>>
  BY DEF Select
<1>2. listed \in Seq(Names) /\ saved \in Seq(Entries) /\ Len(listed) <= Len(saved)
  BY DEF OrderInv, TypeOK
<1>3. p \in Profiles /\ Tidy(hiddenBind, p.key, Normalized(p).visible)
  <2>1. CASE i = 0
    <3>1. p = Fresh
      BY <2>1 DEF OrderInv
    <3>2. Fresh \in RawProfiles /\ Fresh.visible \in VisibleCounts
      BY FreshIsTidy DEF Profiles, RawProfiles, VisibleCounts
    <3>3. Normalized(Fresh).visible = Fresh.visible
      BY <3>2, NormalizedIsProfile
    <3> QED
      BY <3>1, <3>3, FreshIsTidy
  <2>2. CASE i # 0
    <3>1. i \in 1 .. Len(saved)
      BY <1>2, <2>2
    <3>2. saved[i] \in Entries
      BY <1>2, <3>1
    <3>3. saved[i].tabs \in Profiles
      BY <3>2 DEF Entries
    <3>4. i \in DOMAIN saved
      BY <1>2, <3>1
    <3> QED
      BY <2>2, <3>3, <3>4 DEF OrderInv, TidyList
  <2> QED
    BY <2>1, <2>2
<1> HIDE DEF p
<1>4. /\ key' \in KeyMaps /\ visible' \in VisibleCounts /\ delay' \in [Row -> Values]
      /\ Tidy(hiddenBind, key', visible')
      /\ DOMAIN running' \subseteq Tabs /\ stale' \subseteq Tabs /\ startup' = startup
  BY <1>1, <1>3, AppliedIsTidy DEF OrderInv
<1>5. active' \in 0 .. Len(saved)
  BY <1>1, <1>2
<1>6. TypeOK'
  BY <1>1, <1>4, <1>5 DEF OrderInv, TypeOK
<1> QED
  BY <1>1, <1>4, <1>6 DEF OrderInv

LEMMA SaveKeepsOrder ==
  ASSUME OrderInv, NEW n \in Names, Save(n)
  PROVE  OrderInv'
<1> DEFINE at == IF active = 0 THEN Len(saved) + 1 ELSE active
           list == IF active = 0 THEN Append(saved, Entry(n)) ELSE [saved EXCEPT ![active] = Entry(n)]
<1>1. /\ \/ Written(list) /\ listed' = NamesOf(list) /\ active' = at /\ ioFailed' = ioFailed
         \/ saved' = list /\ file' \in FileAfterError /\ ioFailed' = TRUE /\ UNCHANGED <<listed, active>>
      /\ UNCHANGED <<key, delay, visible, bind, hiddenBind, running, startup, stale, template>>
  BY DEF Save, tabs, tools
<1>2. /\ saved \in Seq(Entries) /\ listed \in Seq(Names) /\ Len(listed) <= Len(saved)
      /\ active \in 0 .. Len(saved)
  BY DEF OrderInv, TypeOK
<1>3. Entry(n) \in Entries
  BY EntryIsTidy
<1>4. /\ list \in Seq(Entries) /\ Len(list) \in Nat /\ Len(list) >= Len(saved)
      /\ at \in 0 .. Len(list) /\ active \in 0 .. Len(list)
  <2>1. CASE active = 0
    BY <1>2, <1>3, <2>1
  <2>2. CASE active # 0
    BY <1>2, <1>3, <2>2
  <2> QED
    BY <2>1, <2>2
<1>5. \A i \in DOMAIN list : list[i] = Entry(n) \/ (i \in DOMAIN saved /\ list[i] = saved[i])
  <2>1. CASE active = 0
    BY <1>2, <1>3, <2>1
  <2>2. CASE active # 0
    BY <1>2, <1>3, <2>2
  <2> QED
    BY <2>1, <2>2
<1> HIDE DEF list, at
<1>6. TidyList(hiddenBind, list)
  <2>1. ASSUME NEW i \in DOMAIN list
        PROVE  Tidy(hiddenBind, list[i].tabs.key, Normalized(list[i].tabs).visible)
    <3>1. CASE list[i] = Entry(n)
      BY <3>1, EntryIsTidy
    <3>2. CASE i \in DOMAIN saved /\ list[i] = saved[i]
      BY <3>2 DEF OrderInv, TidyList
    <3> QED
      BY <1>5, <3>1, <3>2
  <2> QED
    BY <2>1 DEF TidyList
<1>7. /\ saved' = list /\ file'.ok \in BOOLEAN /\ file'.list \in Seq(RawEntries)
      /\ TidyList(hiddenBind, file'.list)
      /\ listed' \in Seq(Names) /\ Len(listed') <= Len(list)
      /\ active' \in 0 .. Len(list) /\ ioFailed' \in BOOLEAN
  <2>1. CASE Written(list) /\ listed' = NamesOf(list) /\ active' = at /\ ioFailed' = ioFailed
    <3>1. ioFailed' \in BOOLEAN
      BY <2>1 DEF OrderInv, TypeOK
    <3> QED
      BY <1>4, <1>6, <2>1, <3>1, NamesAreNames, WrittenIsTidy
  <2>2. CASE saved' = list /\ file' \in FileAfterError /\ ioFailed' = TRUE /\ UNCHANGED <<listed, active>>
    <3>1. Len(listed) <= Len(list)
      BY <1>2, <1>4
    <3> QED
      BY <1>2, <1>4, <2>2, <3>1, FileErrorIsTidy
  <2> QED
    BY <1>1, <2>1, <2>2
<1>8. TypeOK'
  BY <1>1, <1>4, <1>7 DEF OrderInv, TypeOK, RawEntries
<1> QED
  BY <1>1, <1>6, <1>7, <1>8 DEF OrderInv

\* Dropping a profile leaves the others in order.
LEMMA DroppedIsTidy ==
  ASSUME NEW h, NEW list \in Seq(Entries), TidyList(h, list), NEW i \in 1 .. Len(list)
  PROVE  Dropped(list, i) \in Seq(Entries) /\ TidyList(h, Dropped(list, i))
<1>1. Len(list) \in Nat /\ Len(list) - 1 \in Nat /\ DOMAIN list = 1 .. Len(list)
  OBVIOUS
<1>2. \A j \in 1 .. Len(list) - 1 : \E m \in 1 .. Len(list) : Dropped(list, i)[j] = list[m]
  BY <1>1 DEF Dropped
<1>3. \A m \in 1 .. Len(list) : list[m] \in Entries
  OBVIOUS
<1>4. Dropped(list, i) \in [1 .. Len(list) - 1 -> Entries]
  BY <1>1, <1>3 DEF Dropped
<1>5. Dropped(list, i) \in Seq(Entries) /\ DOMAIN Dropped(list, i) = 1 .. Len(list) - 1
  BY <1>1, <1>4
<1> QED
  BY <1>1, <1>2, <1>5 DEF TidyList

LEMMA FreshProfileIsTidy ==
  ASSUME NEW h
  PROVE  Fresh \in Profiles /\ Tidy(h, Fresh.key, Normalized(Fresh).visible)
<1>1. Fresh \in RawProfiles /\ Fresh.visible \in VisibleCounts
  BY FreshIsTidy DEF Profiles, RawProfiles, VisibleCounts
<1>2. Normalized(Fresh).visible = Fresh.visible
  BY <1>1, NormalizedIsProfile
<1> QED
  BY <1>2, FreshIsTidy

LEMMA RemoveProfileKeepsOrder ==
  ASSUME OrderInv, RemoveProfile
  PROVE  OrderInv'
<1>1. /\ saved \in Seq(Entries) /\ listed \in Seq(Names) /\ Len(listed) <= Len(saved)
      /\ active \in 1 .. Len(saved)
  BY DEF OrderInv, TypeOK, RemoveProfile
<1>2. UNCHANGED <<bind, hiddenBind, template>>
  BY DEF RemoveProfile
<1>3. CASE /\ Written(Dropped(saved, active))
           /\ listed' = NamesOf(saved') /\ active' = 0
           /\ Apply(template) /\ UNCHANGED ioFailed
  <2> DEFINE list == Dropped(saved, active)
  <2>1. list \in Seq(Entries) /\ TidyList(hiddenBind, list)
    BY <1>1, DroppedIsTidy DEF OrderInv
  <2> HIDE DEF list
  <2>2. /\ saved' = list /\ file'.ok \in BOOLEAN /\ file'.list \in Seq(RawEntries)
        /\ TidyList(hiddenBind, file'.list)
    BY <1>3, <2>1, WrittenIsTidy DEF list
  <2>3. listed' \in Seq(Names) /\ Len(listed') = Len(list) /\ Len(list) \in Nat
    BY <1>3, <2>1, <2>2, NamesAreNames
  <2>4. /\ key' \in KeyMaps /\ visible' \in VisibleCounts /\ delay' \in [Row -> Values]
        /\ Tidy(hiddenBind, key', visible')
        /\ DOMAIN running' \subseteq Tabs /\ stale' \subseteq Tabs /\ startup' = startup
    BY <1>3, FreshProfileIsTidy, AppliedIsTidy DEF OrderInv
  <2>5. active' \in 0 .. Len(list)
    BY <1>3, <2>3
  <2>6. TypeOK'
    BY <1>2, <1>3, <2>1, <2>2, <2>3, <2>4, <2>5 DEF OrderInv, TypeOK, RawEntries
  <2> QED
    BY <1>2, <2>1, <2>2, <2>3, <2>4, <2>6 DEF OrderInv
<1>4. CASE /\ RemoveFails
           /\ file' \in FileAfterError
           /\ ioFailed' = (ioFailed \/ file' # file)
  <2>1. UNCHANGED <<saved, listed, active, key, delay, visible, running, startup, stale>>
    BY <1>4 DEF RemoveFails, tabs, tools
  <2>2. /\ file'.ok \in BOOLEAN /\ file'.list \in Seq(RawEntries)
        /\ TidyList(hiddenBind, file'.list)
    BY <1>4, FileErrorIsTidy
  <2>3. ioFailed' \in BOOLEAN
    BY <1>4
  <2>4. TypeOK'
    BY <1>2, <2>1, <2>2, <2>3 DEF OrderInv, TypeOK, RawEntries
  <2> QED
    BY <1>2, <2>1, <2>2, <2>4 DEF OrderInv
<1> QED
  BY <1>3, <1>4 DEF RemoveProfile

LEMMA RestartKeepsOrder ==
  ASSUME OrderInv, Restart
  PROVE  OrderInv'
<1>1. /\ key' = FreshKeys /\ delay' = FreshDelays /\ visible' = FreshVisible
      /\ bind' = Unbound /\ running' = <<>> /\ startup' = "no" /\ stale' = {}
      /\ listed' = NamesOf(saved') /\ active' = 0 /\ template' = Fresh
      /\ UNCHANGED <<file, hiddenBind>>
  BY DEF Restart
<1>2. key' = Fresh.key /\ delay' = Fresh.delay /\ visible' = Fresh.visible
  BY <1>1 DEF Fresh
<1>3. /\ key' \in KeyMaps /\ visible' \in VisibleCounts /\ delay' \in [Row -> Values]
      /\ Tidy(hiddenBind, key', visible') /\ Fresh \in Profiles
  BY <1>2, FreshIsTidy DEF Profiles
<1>4. /\ file.ok \in BOOLEAN /\ file.list \in Seq(RawEntries) /\ TidyList(hiddenBind, file.list)
      /\ hiddenBind \in BOOLEAN
  BY DEF OrderInv, TypeOK, RawEntries
<1>5. saved' \in Seq(Entries) /\ TidyList(hiddenBind, saved') /\ ioFailed' \in BOOLEAN
  <2>1. CASE saved' = Load(file.list) /\ ioFailed' = FALSE
    BY <1>4, <2>1, LoadedIsTidy
  <2>2. CASE saved' = <<>> /\ ioFailed' = TRUE
    <3>1. saved' \in Seq(Entries) /\ Len(saved') = 0
      BY <2>2
    <3> QED
      BY <2>2, <3>1 DEF TidyList
  <2> QED
    BY <2>1, <2>2 DEF Restart
<1>6. listed' \in Seq(Names) /\ Len(listed') = Len(saved') /\ Len(saved') \in Nat
  BY <1>1, <1>5, NamesAreNames
<1>7. DOMAIN running' \subseteq Tabs /\ active' \in 0 .. Len(saved')
  BY <1>1, <1>6, NothingRuns
<1>8. TypeOK'
  BY <1>1, <1>3, <1>4, <1>5, <1>6, <1>7 DEF TypeOK, RawEntries
<1> QED
  BY <1>1, <1>3, <1>4, <1>5, <1>6, <1>8 DEF OrderInv

LEMMA NextOrderInv == OrderInv /\ [Next]_vars => OrderInv'
<1> SUFFICES ASSUME OrderInv, [Next]_vars PROVE OrderInv'
  OBVIOUS
<1>0. /\ delay \in [Row -> Values] /\ Default \in Values /\ 0 \in Values
      /\ RowCount["clicker"] = ClickerSlotCount /\ RowCount["timer"] = TimerKeySlotCount
      /\ RowCount["autopot"] = 2 /\ RowCount["keychain"] = KeyChainCount
      /\ {"clicker", "timer", "autopot", "keychain"} \subseteq Tabs
  BY ToolTabsAssumption DEF OrderInv, TypeOK, RowCount, Tabs
<1>1. CASE \E r \in 1 .. ClickerSlotCount :
             clearClickerKey(r) \/ removeClicker(r) \/ \E n \in Values : SetDelay(r, n)
  <2>1. PICK r \in 1 .. RowCount["clicker"] :
           clearClickerKey(r) \/ removeClicker(r) \/ \E n \in Values : SetDelay(r, n)
    BY <1>0, <1>1
  <2>2. delay[<<"clicker", r>>] \in Values
    BY <1>0, RowOf
  <2>3. \/ \E d \in Values : Clear("clicker", r, d)
        \/ \E d \in Values : Remove("clicker", r, d)
        \/ \E n \in Values : SetValue("clicker", r, n)
    BY <1>0, <2>1, <2>2 DEF clearClickerKey, removeClicker, SetDelay
  <2> QED
    BY <1>0, <2>3, RowEditsKeepOrder
<1>2. CASE \E r \in 1 .. TimerKeySlotCount : clearTimerKey(r) \/ \E n \in Values : SetInterval(r, n)
  <2>1. PICK r \in 1 .. RowCount["timer"] : clearTimerKey(r) \/ \E n \in Values : SetInterval(r, n)
    BY <1>0, <1>2
  <2>2. delay[<<"timer", r>>] \in Values
    BY <1>0, RowOf
  <2>3. (\E d \in Values : Clear("timer", r, d)) \/ \E n \in Values : SetValue("timer", r, n)
    BY <2>1, <2>2 DEF clearTimerKey, SetInterval
  <2> QED
    BY <1>0, <2>3, RowEditsKeepOrder
<1>3. CASE \E r \in 1 .. 2 : onClearPotionKey(r) \/ \E n \in Values : commitThresholdEdit(r, n)
  <2>1. PICK r \in 1 .. RowCount["autopot"] :
           onClearPotionKey(r) \/ \E n \in Values : commitThresholdEdit(r, n)
    BY <1>0, <1>3
  <2>2. delay[<<"autopot", r>>] \in Values
    BY <1>0, RowOf
  <2>3. (\E d \in Values : Clear("autopot", r, d)) \/ \E n \in Values : SetValue("autopot", r, n)
    BY <2>1, <2>2 DEF onClearPotionKey, commitThresholdEdit
  <2> QED
    BY <1>0, <2>3, RowEditsKeepOrder
<1>4. CASE \E r \in 1 .. KeyChainCount :
             clearKeyChainSwitch(r) \/ removeKeyChainSwitch(r) \/ \E n \in Values : SetChainDelay(r, n)
  <2>1. PICK r \in 1 .. RowCount["keychain"] :
           clearKeyChainSwitch(r) \/ removeKeyChainSwitch(r) \/ \E n \in Values : SetChainDelay(r, n)
    BY <1>0, <1>4
  <2>2. \/ \E d \in Values : Clear("keychain", r, d)
        \/ \E d \in Values : Remove("keychain", r, d)
        \/ \E n \in Values : SetValue("keychain", r, n)
    BY <1>0, <2>1 DEF clearKeyChainSwitch, removeKeyChainSwitch, SetChainDelay
  <2> QED
    BY <1>0, <2>2, RowEditsKeepOrder
<1>5. CASE onAddClicker \/ onAddTimer \/ onAddKeyChainSwitch
  BY <1>0, <1>5, RowEditsKeepOrder DEF onAddClicker, onAddTimer, onAddKeyChainSwitch
<1>6. ASSUME NEW p, BindStart(p)
      PROVE  OrderInv'
  <2>1. p \in Place
    BY <1>6 DEF BindStart, Shown
  <2> QED
    BY <1>6, <2>1, BindKeepsOrder
<1>7. CASE \/ \E r \in 1 .. ClickerSlotCount : bindClickerKey(r)
           \/ \E r \in 1 .. TimerKeySlotCount : bindTimerKey(r)
           \/ \E r \in 1 .. 2 : bindAutoPotKey(r)
           \/ \E r \in 1 .. KeyChainCount, s \in 1 .. KeyChainSlotCount : bindKeyChainKey(r, s)
  BY <1>6, <1>7 DEF bindClickerKey, bindTimerKey, bindAutoPotKey, bindKeyChainKey
<1>8. CASE (\E vk \in Keys : KeyPressed(vk)) \/ BindEnds
  BY <1>8, BindKeepsOrder
<1>9. CASE \/ \E i \in 0 .. Len(listed) : Select(i)
           \/ \E n \in Names : Save(n)
           \/ RemoveProfile \/ Restart
  BY <1>9, SelectKeepsOrder, SaveKeepsOrder, RemoveProfileKeepsOrder, RestartKeepsOrder
<1>10. CASE Start \/ ReadTabs \/ StartTool \/ Stop
  BY <1>10, ToolsKeepOrder
<1>11. CASE UNCHANGED vars
  <2>1. UNCHANGED <<key, delay, visible, bind, hiddenBind, running, startup, pending, stale,
                    template, saved, listed, active, file, ioFailed>>
    BY <1>11 DEF vars, tabs, tools, shelf
  <2> QED
    BY <2>1 DEF OrderInv, TypeOK, Tidy, TidyList
<1> QED
  BY <1>1, <1>2, <1>3, <1>4, <1>5, <1>7, <1>8, <1>9, <1>10, <1>11 DEF Next

LEMMA OrderInvariant == Spec => []OrderInv
BY InitOrderInv, NextOrderInv, PTL DEF Spec

-----------------------------------------------------------------------------
(* The tools follow the tabs *)

\* The tools a startup has still to start, and those it has read the tabs for.
Left(s) == CASE s = "no" -> {}
             [] s \in {"starting", "clicker"} -> Tabs
             [] s \in {"rest", "autopot"} -> {"autopot", "timer", "keychain"}
             [] s = "timer" -> {"timer", "keychain"}
             [] s = "keychain" -> {"keychain"}
ReadFor(s) == IF s \in Tabs \ {"clicker"} THEN Left(s) ELSE {}

\* A tool that runs has its settings unless the startup overtook an edit, one
\* that the startup has passed and left alone has nothing to do, and one that
\* it will leave alone has nothing to do by now or was started by an edit.
\* Tools in old may be behind, but a startup never leaves the clicker off.
Following(r, s, p, old, k, d, v) ==
  /\ \A t \in DOMAIN r \ old : r[t] = Config(t, k, d, v)
  /\ s # "no" \/ DOMAIN r # {} =>
       \A t \in Tabs \ (DOMAIN r \cup old \cup Left(s)) : ~Wanted(t, Config(t, k, d, v))
  /\ \A t \in ReadFor(s) \ (DOMAIN r \cup old) :
       ~Wanted(t, p[t]) => ~Wanted(t, Config(t, k, d, v))
  /\ s # "no" \/ DOMAIN r # {} => "clicker" \in DOMAIN r \cup Left(s)

FollowInv == Following(running, startup, pending, stale, key, delay, visible)

\* The settings of a tool are made of the keys and numbers of its shown rows.
LEMMA SameConfig ==
  ASSUME NEW t, NEW k, NEW d, NEW v, NEW l, NEW e, NEW w,
         \A p \in Place : p[1] = t =>
           /\ p \in Shown(v) /\ k[p] # NoKey <=> p \in Shown(w) /\ l[p] # NoKey
           /\ p \in Shown(v) /\ k[p] # NoKey => k[p] = l[p] /\ d[<<t, p[2]>>] = e[<<t, p[2]>>]
  PROVE  Config(t, k, d, v) = Config(t, l, e, w)
<1> DEFINE A == {q \in Shown(v) : q[1] = t /\ k[q] # NoKey}
           B == {q \in Shown(w) : q[1] = t /\ l[q] # NoKey}
<1>1. A = B
  BY DEF Shown
<1>2. \A p \in A : k[p] = l[p] /\ d[<<t, p[2]>>] = e[<<t, p[2]>>]
  BY DEF Shown
<1>3. [p \in A |-> <<k[p], ReadValue(t, d[<<t, p[2]>>])>>]
      = [p \in B |-> <<l[p], ReadValue(t, e[<<t, p[2]>>])>>]
  BY <1>1, <1>2
<1> QED
  BY <1>3 DEF Config

\* A tab that is not touched means the same settings.
LEMMA TabUntouched ==
  ASSUME NEW t,
         \A p \in Place : p[1] = t =>
           /\ key'[p] = key[p] /\ delay'[<<t, p[2]>>] = delay[<<t, p[2]>>]
           /\ p \in Shown(visible') <=> p \in Shown(visible)
  PROVE  Config(t, key', delay', visible') = Config(t, key, delay, visible)
BY SameConfig

\* A handler that syncs every tool it concerns keeps them in step.
LEMMA SyncFollows ==
  ASSUME FollowInv, NEW ts, Sync(ts), DOMAIN running \subseteq Tabs,
         \A t \in Tabs \ ts :
           Config(t, key', delay', visible') = Config(t, key, delay, visible)
  PROVE  FollowInv'
<1> DEFINE new(t) == Config(t, key', delay', visible')
           Runs(t) == IF t \notin ts THEN t \in DOMAIN running
                      ELSE /\ Wanted(t, new(t))
                           /\ t \in DOMAIN running \/ (isStarted /\ t # "clicker")
<1>1. /\ running' = [t \in {u \in Tabs : Runs(u)} |-> IF t \in ts THEN new(t) ELSE running[t]]
      /\ stale' = stale \ ts /\ startup' = startup /\ pending' = pending
  BY DEF Sync, Synced
<1>2. DOMAIN running' = {u \in Tabs : Runs(u)}
      /\ \A t \in DOMAIN running' : running'[t] = IF t \in ts THEN new(t) ELSE running[t]
  BY <1>1
<1>3. Following(running, startup, pending, stale, key, delay, visible)
      /\ \A t \in Tabs \ ts : new(t) = Config(t, key, delay, visible)
  BY DEF FollowInv
<1> HIDE DEF new
<1>4. \A t \in DOMAIN running' \ stale' : running'[t] = new(t)
  BY <1>1, <1>2, <1>3 DEF Following
<1>5. startup' # "no" \/ DOMAIN running' # {} => "clicker" \in DOMAIN running' \cup Left(startup')
  <2>1. startup' # "no" \/ DOMAIN running' # {} => startup # "no" \/ DOMAIN running # {}
    BY <1>1, <1>2 DEF isStarted
  <2>2. "clicker" \in Tabs /\ Wanted("clicker", new("clicker"))
    BY DEF Tabs, Wanted
  <2>3. "clicker" \in DOMAIN running => "clicker" \in DOMAIN running'
    BY <1>2, <2>2
  <2> QED
    BY <1>1, <1>3, <2>1, <2>3 DEF Following
<1>6. ASSUME startup' # "no" \/ DOMAIN running' # {},
             NEW t \in Tabs \ (DOMAIN running' \cup stale' \cup Left(startup'))
      PROVE  ~Wanted(t, new(t))
  <2>1. startup # "no" \/ DOMAIN running # {}
    BY <1>1, <1>2, <1>6 DEF isStarted
  <2>2. CASE t \notin ts
    BY <1>1, <1>2, <1>3, <1>6, <2>1, <2>2 DEF Following
  <2>3. CASE t \in ts
    BY <1>2, <1>5, <1>6, <2>1, <2>3 DEF isStarted
  <2> QED
    BY <2>2, <2>3
<1>7. ASSUME NEW t \in ReadFor(startup') \ (DOMAIN running' \cup stale'), ~Wanted(t, pending'[t])
      PROVE  ~Wanted(t, new(t))
  <2>1. startup # "no" /\ t \in Tabs \ {"clicker"}
    BY <1>1, <1>7 DEF ReadFor, Left, Tabs
  <2>2. CASE t \notin ts
    BY <1>1, <1>2, <1>3, <1>7, <2>1, <2>2 DEF Following
  <2>3. CASE t \in ts
    BY <1>2, <1>7, <2>1, <2>3 DEF isStarted
  <2> QED
    BY <2>2, <2>3
<1> QED
  BY <1>4, <1>5, <1>6, <1>7 DEF FollowInv, Following, new

\* So does one that leaves the tools alone and what they are made of.
LEMMA IdleFollows ==
  ASSUME FollowInv, UNCHANGED tools, DOMAIN running \subseteq Tabs,
         \A t \in Tabs : Config(t, key', delay', visible') = Config(t, key, delay, visible)
  PROVE  FollowInv'
<1>1. UNCHANGED <<running, startup, pending, stale>>
  BY DEF tools
<1>2. ReadFor(startup) \subseteq Tabs
  BY DEF ReadFor, Left, Tabs
<1> QED
  BY <1>1, <1>2 DEF FollowInv, Following

\* The edits of a row: AddRow notes a tool that is behind for a key it shows,
\* the others sync their tab.
LEMMA RowEditsFollow ==
  ASSUME OrderInv, FollowInv, NEW t \in Tabs,
         \/ AddRow(t)
         \/ \E r \in 1 .. RowCount[t], d \in Values : Clear(t, r, d)
         \/ \E r \in 1 .. RowCount[t], d \in Values : Remove(t, r, d)
         \/ \E r \in 1 .. RowCount[t], n \in Values : SetValue(t, r, n)
  PROVE  FollowInv'
<1>0. /\ KeysInv /\ DOMAIN running \subseteq Tabs /\ delay \in [Row -> Values]
      /\ key \in KeyMaps /\ visible \in VisibleCounts
  BY TypesOfKeys DEF OrderInv, TypeOK
<1>1. CASE AddRow(t)
  <2> DEFINE now(u) == Config(u, key, delay, visible)
             then(u) == Config(u, key', delay', visible')
  <2>1. /\ visible' = [visible EXCEPT ![t] = visible[t] + 1]
        /\ stale' = IF isStarted /\ then(t) # now(t) THEN stale \cup {t} ELSE stale
        /\ UNCHANGED <<key, delay, running, startup, pending>>
    BY <1>1 DEF AddRow, Now
  <2>2. ASSUME NEW u \in Tabs \ {t}
        PROVE  then(u) = now(u)
    <3>1. ASSUME NEW p \in Place, p[1] = u
          PROVE  p \in Shown(visible') <=> p \in Shown(visible)
      BY <1>0, <2>1, <2>2, <3>1 DEF Shown, VisibleCounts
    <3> QED
      BY <2>1, <3>1, TabUntouched
  <2>3. CASE isStarted
    <3>1. \A u \in Tabs \ stale' : then(u) = now(u)
      BY <2>1, <2>2, <2>3
    <3>2. stale \subseteq stale' /\ ReadFor(startup) \subseteq Tabs
      BY <2>1 DEF ReadFor, Left, Tabs
    <3> HIDE DEF now, then
    <3>3. /\ \A u \in DOMAIN running \ stale : running[u] = now(u)
          /\ startup # "no" \/ DOMAIN running # {} =>
               \A u \in Tabs \ (DOMAIN running \cup stale \cup Left(startup)) : ~Wanted(u, now(u))
          /\ \A u \in ReadFor(startup) \ (DOMAIN running \cup stale) :
               ~Wanted(u, pending[u]) => ~Wanted(u, now(u))
      BY DEF FollowInv, Following, now
    <3>4. /\ \A u \in DOMAIN running' \ stale' : running'[u] = then(u)
          /\ startup' # "no" \/ DOMAIN running' # {} =>
               \A u \in Tabs \ (DOMAIN running' \cup stale' \cup Left(startup')) : ~Wanted(u, then(u))
          /\ \A u \in ReadFor(startup') \ (DOMAIN running' \cup stale') :
               ~Wanted(u, pending'[u]) => ~Wanted(u, then(u))
      BY <1>0, <2>1, <3>1, <3>2, <3>3
    <3> QED
      BY <2>1, <3>4 DEF FollowInv, Following, then
  <2>4. CASE ~isStarted
    BY <2>1, <2>4 DEF FollowInv, Following, isStarted, ReadFor, Left, Tabs
  <2> QED
    BY <2>3, <2>4
<1>2. ASSUME NEW r \in 1 .. RowCount[t], NEW d \in Values, Clear(t, r, d)
      PROVE  FollowInv'
  <2>1. /\ key' = Emptied(t, r)
        /\ delay' = [delay EXCEPT ![<<t, r>>] = d]
        /\ Sync({t}) /\ UNCHANGED visible
    BY <1>2 DEF Clear, Emptied
  <2>2. ASSUME NEW u \in Tabs \ {t}
        PROVE  Config(u, key', delay', visible') = Config(u, key, delay, visible)
    <3>1. ASSUME NEW p \in Place, p[1] = u
          PROVE  key'[p] = key[p] /\ delay'[<<u, p[2]>>] = delay[<<u, p[2]>>]
      BY <1>0, <2>1, <2>2, <3>1 DEF Emptied
    <3> QED
      BY <2>1, <3>1, TabUntouched
  <2> QED
    BY <1>0, <2>1, <2>2, SyncFollows
<1>3. ASSUME NEW r \in 1 .. RowCount[t], NEW d \in Values, Remove(t, r, d)
      PROVE  FollowInv'
  <2>1. Sync({t})
    BY <1>3 DEF Remove
  <2>2. ASSUME NEW u \in Tabs \ {t}
        PROVE  Config(u, key', delay', visible') = Config(u, key, delay, visible)
    <3>1. ASSUME NEW p \in Place, p[1] = u
          PROVE  /\ key'[p] = key[p] /\ delay'[<<u, p[2]>>] = delay[<<u, p[2]>>]
                 /\ visible'[u] = visible[u]
      <4>1. <<u, p[2]>> \in Row
        BY <3>1, PlaceParts, RowOf
      <4> QED
        BY <1>0, <1>3, <2>2, <3>1, <4>1 DEF Remove, VisibleCounts
    <3>2. \A p \in Place : p[1] = u => (p \in Shown(visible') <=> p \in Shown(visible))
      BY <3>1 DEF Shown
    <3> QED
      BY <3>1, <3>2, TabUntouched
  <2> QED
    BY <1>0, <2>1, <2>2, SyncFollows
<1>4. ASSUME NEW r \in 1 .. RowCount[t], NEW n \in Values, SetValue(t, r, n)
      PROVE  FollowInv'
  <2>1. /\ delay' = [delay EXCEPT ![<<t, r>>] = n]
        /\ Sync({t}) /\ UNCHANGED <<key, visible>>
    BY <1>4 DEF SetValue
  <2>2. ASSUME NEW u \in Tabs \ {t}
        PROVE  Config(u, key', delay', visible') = Config(u, key, delay, visible)
    <3>1. \A p \in Place : p[1] = u => delay'[<<u, p[2]>>] = delay[<<u, p[2]>>]
      BY <1>0, <2>1, <2>2
    <3> QED
      BY <2>1, <3>1, TabUntouched
  <2> QED
    BY <1>0, <2>1, <2>2, SyncFollows
<1> QED
  BY <1>1, <1>2, <1>3, <1>4

\* A key that arrives changes the tab that had it and the tab it was meant for.
LEMMA KeyPressedFollows ==
  ASSUME OrderInv, FollowInv, NEW vk \in Keys, KeyPressed(vk)
  PROVE  FollowInv'
<1> DEFINE keep == IF bind[1] = "keychain" THEN bind[2] ELSE 0
           before == Unset(vk, keep)
           full == bind[1] = "clicker" /\ FreeSlots(before, bind[2], vk) = {}
           place == Slot(before, bind, vk)
           ts == Concerned(vk, keep, full)
<1>0. KeysInv /\ DOMAIN running \subseteq Tabs
  BY TypesOfKeys DEF OrderInv, TypeOK
<1>1. /\ key' = IF full THEN before ELSE [before EXCEPT ![place] = vk]
      /\ UNCHANGED <<delay, visible>> /\ Sync(ts)
  BY DEF KeyPressed
<1>2. before \in KeyMaps
  BY <1>0, UnsetIsTidy
<1>3. \A p \in Place : p[1] # Finder(vk, keep) => before[p] = key[p]
  <2>1. ASSUME NEW p \in Place, p[1] # Finder(vk, keep)
        PROVE  Unset(vk, keep)[p] = key[p]
    BY <2>1 DEF Unset
  <2> QED
    BY <2>1
<1>4. place[1] = bind[1]
  BY DEF Slot
<1>5. ASSUME NEW t \in Tabs \ ts
      PROVE  Config(t, key', delay', visible') = Config(t, key, delay, visible)
  <2>1. t # Finder(vk, keep) /\ (full \/ t # bind[1])
    BY <1>5 DEF Concerned, Tabs
  <2>2. ASSUME NEW p \in Place, p[1] = t
        PROVE  key'[p] = key[p]
    <3>1. before[p] = key[p]
      BY <1>3, <2>1, <2>2
    <3>2. CASE full
      BY <1>1, <3>1, <3>2
    <3>3. CASE ~full
      <4>1. p # place
        BY <1>4, <2>1, <2>2, <3>3
      <4>2. key' = [before EXCEPT ![place] = vk]
        BY <1>1, <3>3
      <4> HIDE DEF before, place
      <4> QED
        BY <1>2, <3>1, <4>1, <4>2 DEF KeyMaps
    <3> QED
      BY <3>2, <3>3
  <2> QED
    BY <1>1, <2>2, TabUntouched
<1> HIDE DEF ts
<1> QED
  BY <1>0, <1>1, <1>5, SyncFollows

\* The empty function is defined nowhere.
LEMMA IsNothing ==
  ASSUME NEW f, f = <<>>
  PROVE  DOMAIN f = {}
<1>1. f \in Seq({}) /\ Len(f) = 0
  OBVIOUS
<1>2. DOMAIN f = 1 .. Len(f)
  BY <1>1
<1> QED
  BY <1>1, <1>2

\* With no tool there is nothing to follow.
LEMMA StoppedFollows ==
  ASSUME running' = <<>>, startup' = "no", stale' = {}
  PROVE  FollowInv'
<1>1. DOMAIN running' = {}
  BY IsNothing
<1> QED
  BY <1>1 DEF FollowInv, Following, ReadFor, Left, Tabs

\* Each step of a startup, and the stop.
LEMMA ToolsFollow ==
  ASSUME OrderInv, FollowInv, Start \/ ReadTabs \/ StartTool \/ Stop
  PROVE  FollowInv'
<1>0. DOMAIN running \subseteq Tabs /\ startup \in Tabs \cup {"no", "starting", "rest"}
  BY DEF OrderInv, TypeOK
<1>1. UNCHANGED <<key, delay, visible>>
  BY DEF Start, ReadTabs, StartTool, Stop, tabs
<1> DEFINE now(t) == Config(t, key, delay, visible)
<1>2. CASE Start
  <2>1. DOMAIN running = {} /\ startup' = "starting" /\ UNCHANGED <<running, stale>>
    BY <1>2 DEF Start, isStarted
  <2> QED
    BY <2>1 DEF FollowInv, Following, ReadFor, Left, Tabs
<1>3. CASE ReadTabs
  <2>0. /\ UNCHANGED <<running, stale>>
        /\ \/ startup = "starting" /\ startup' = "clicker"
           \/ /\ startup = "rest" /\ startup' = "autopot"
              /\ pending' = [t \in Tabs \ {"clicker"} |-> now(t)]
    BY <1>3 DEF ReadTabs, Now
  <2>1. ASSUME Following(running, startup, pending, stale, key, delay, visible)
        PROVE  Following(running', startup', pending', stale', key', delay', visible')
    <3> HIDE DEF now
    <3>1. Left(startup') = Left(startup) /\ startup # "no"
      BY <2>0 DEF Left, Tabs
    <3>2. \A t \in ReadFor(startup') : pending'[t] = now(t)
      BY <2>0 DEF ReadFor, Left, Tabs
    <3> QED
      BY <1>1, <2>0, <2>1, <3>1, <3>2 DEF Following, now
  <2> QED
    BY <1>1, <2>0, <2>1 DEF FollowInv
<1>4. CASE StartTool
  <2>0. /\ startup \in Tabs /\ startup' = After[startup]
        /\ pending' = IF startup \in {"clicker", "keychain"} THEN <<>> ELSE pending
    BY <1>4 DEF StartTool
  <2>1. CASE Wanted(startup, pending[startup])
    <3>1. /\ running' = [u \in DOMAIN running \cup {startup} |->
                           IF u = startup THEN pending[startup] ELSE running[u]]
          /\ stale' = IF pending[startup] = now(startup) THEN stale \ {startup} ELSE stale \cup {startup}
      BY <1>4, <2>1 DEF StartTool, Now
    <3>2. ASSUME Following(running, startup, pending, stale, key, delay, visible)
          PROVE  Following(running', startup', pending', stale', key', delay', visible')
      <4> HIDE DEF now
      <4>1. \A t \in DOMAIN running' \ stale' : running'[t] = now(t)
        BY <3>1, <3>2 DEF Following, now
      <4>2. ASSUME NEW t \in Tabs \ (DOMAIN running' \cup stale' \cup Left(startup'))
            PROVE  ~Wanted(t, now(t))
        <5>1. t \notin DOMAIN running /\ t \notin stale /\ t # startup
          BY <3>1, <4>2
        <5>2. t \notin Left(startup)
          BY <2>0, <4>2, <5>1 DEF After, Left, Tabs
        <5>3. startup # "no"
          BY <2>0 DEF Tabs
        <5> QED
          BY <3>2, <4>2, <5>1, <5>2, <5>3 DEF Following, now
      <4>3. ASSUME NEW t \in ReadFor(startup') \ (DOMAIN running' \cup stale'), ~Wanted(t, pending'[t])
            PROVE  ~Wanted(t, now(t))
        <5>1. t \in ReadFor(startup) /\ pending' = pending /\ t # startup
          BY <2>0, <4>3 DEF After, ReadFor, Left, Tabs
        <5> QED
          BY <3>1, <3>2, <4>3, <5>1 DEF Following, now
      <4>4. "clicker" \in DOMAIN running' \cup Left(startup')
        BY <2>0, <3>1, <3>2 DEF Following, After, Left, Tabs
      <4> QED
        BY <1>1, <4>1, <4>2, <4>3, <4>4 DEF Following, now
    <3> QED
      BY <3>2 DEF FollowInv
  <2>2. CASE ~Wanted(startup, pending[startup])
    <3>1. UNCHANGED <<running, stale>> /\ startup # "clicker"
      BY <1>4, <2>2 DEF StartTool, Wanted
    <3>2. ASSUME Following(running, startup, pending, stale, key, delay, visible)
          PROVE  Following(running', startup', pending', stale', key', delay', visible')
      <4> HIDE DEF now
      <4>1. ASSUME NEW t \in Tabs \ (DOMAIN running' \cup stale' \cup Left(startup'))
            PROVE  ~Wanted(t, now(t))
        <5>1. t \notin DOMAIN running /\ t \notin stale
          BY <3>1, <4>1
        <5>2. CASE t = startup
          <6>1. t \in ReadFor(startup)
            BY <2>0, <3>1, <5>2 DEF ReadFor, Left, Tabs
          <6> QED
            BY <2>2, <3>2, <5>1, <5>2, <6>1 DEF Following, now
        <5>3. CASE t # startup
          <6>1. t \notin Left(startup) /\ startup # "no"
            BY <2>0, <3>1, <4>1, <5>3 DEF After, Left, Tabs
          <6> QED
            BY <3>2, <4>1, <5>1, <6>1 DEF Following, now
        <5> QED
          BY <5>2, <5>3
      <4>2. ASSUME NEW t \in ReadFor(startup') \ (DOMAIN running' \cup stale'), ~Wanted(t, pending'[t])
            PROVE  ~Wanted(t, now(t))
        <5>1. t \in ReadFor(startup) /\ pending' = pending
          BY <2>0, <3>1, <4>2 DEF After, ReadFor, Left, Tabs
        <5> QED
          BY <3>1, <3>2, <4>2, <5>1 DEF Following, now
      <4>3. \A t \in DOMAIN running' \ stale' : running'[t] = now(t)
        BY <3>1, <3>2 DEF Following, now
      <4>4. "clicker" \in DOMAIN running' \cup Left(startup')
        BY <2>0, <3>1, <3>2 DEF Following, After, Left, Tabs
      <4> QED
        BY <1>1, <4>1, <4>2, <4>3, <4>4 DEF Following, now
    <3> QED
      BY <3>2 DEF FollowInv
  <2> QED
    BY <2>1, <2>2
<1>5. CASE Stop
  BY <1>5, StoppedFollows DEF Stop
<1> QED
  BY <1>2, <1>3, <1>4, <1>5

\* A profile that is applied is synced into every tool.
LEMMA ApplyFollows ==
  ASSUME OrderInv, FollowInv, NEW p, Apply(p)
  PROVE  FollowInv'
<1>1. Sync(Tabs) /\ DOMAIN running \subseteq Tabs
  BY DEF Apply, OrderInv, TypeOK
<1> QED
  BY <1>1, SyncFollows

\* Binds that begin or end and writes of the file leave the tools alone.
LEMMA OtherActsFollow ==
  ASSUME OrderInv, FollowInv,
         \/ \E p \in Place : BindStart(p)
         \/ BindEnds
         \/ \E i \in 0 .. Len(listed) : Select(i)
         \/ \E n \in Names : Save(n)
         \/ RemoveProfile \/ Restart \/ UNCHANGED vars
  PROVE  FollowInv'
<1>0. DOMAIN running \subseteq Tabs
  BY DEF OrderInv, TypeOK
<1>1. ASSUME UNCHANGED <<key, delay, visible>>, UNCHANGED tools
      PROVE  FollowInv'
  BY <1>0, <1>1, TabUntouched, IdleFollows
<1>2. CASE (\E p \in Place : BindStart(p)) \/ BindEnds \/ (\E n \in Names : Save(n)) \/ UNCHANGED vars
  BY <1>1, <1>2 DEF BindStart, BindEnds, Save, vars, tabs
<1>3. CASE \E i \in 0 .. Len(listed) : Select(i)
  BY <1>3, ApplyFollows DEF Select
<1>4. CASE RemoveProfile
  <2>1. Apply(template) \/ RemoveFails
    BY <1>4 DEF RemoveProfile
  <2> QED
    BY <1>1, <2>1, ApplyFollows DEF RemoveFails, tabs
<1>5. CASE Restart
  BY <1>5, StoppedFollows DEF Restart
<1> QED
  BY <1>2, <1>3, <1>4, <1>5

-----------------------------------------------------------------------------
(* The profiles, the combo box and the file *)

\* A potion row always holds a threshold, so that what the program saves it
\* reads back as it was.
HasNumbers(d) == \A w \in Row : w[1] # "keychain" => d[w] # 0
Repaired(list) == \A i \in DOMAIN list : HasNumbers(list[i].tabs.delay)

ShelfInv ==
  /\ \A r \in 1 .. 2 : delay[<<"autopot", r>>] # 0
  /\ Repaired(saved)
  /\ ProfilesInStep

\* A profile with its numbers is left as it is.
LEMMA NormalizedOnce ==
  ASSUME NEW p \in Profiles, HasNumbers(p.delay)
  PROVE  Normalized(p) = p
<1>1. p = [key |-> p.key, visible |-> p.visible, delay |-> p.delay]
      /\ p.visible \in VisibleCounts /\ p.delay \in [Row -> Values]
  BY DEF Profiles
<1>2. [t \in Tabs |-> IF p.visible[t] \in 1 .. RowCount[t] THEN p.visible[t] ELSE 1] = p.visible
  BY <1>1 DEF VisibleCounts
<1>3. [w \in Row |-> IF p.delay[w] = 0 /\ w[1] # "keychain" THEN Default ELSE p.delay[w]] = p.delay
  BY <1>1 DEF HasNumbers
<1>4. Normalized(p) = [p EXCEPT !.visible = p.visible, !.delay = p.delay]
  BY <1>2, <1>3 DEF Normalized
<1> QED
  BY <1>1, <1>4

\* Normalizing fills every number but the delay of a chain.
LEMMA NormalizedHasNumbers ==
  ASSUME NEW p \in RawProfiles
  PROVE  HasNumbers(Normalized(p).delay)
<1>1. Normalized(p).delay =
        [w \in Row |-> IF p.delay[w] = 0 /\ w[1] # "keychain" THEN Default ELSE p.delay[w]]
  BY DEF Normalized, RawProfiles
<1> QED
  BY <1>1, ToolTabsAssumption DEF HasNumbers

\* Reading back a list the program wrote gives the list.
LEMMA LoadGivesSaved ==
  ASSUME NEW list \in Seq(Entries), Repaired(list)
  PROVE  Load(list) = list
<1>1. ASSUME NEW i \in DOMAIN list
      PROVE  [name |-> list[i].name, tabs |-> Normalized(list[i].tabs)] = list[i]
  <2>1. list[i] \in Entries
    BY <1>1
  <2>2. list[i] = [name |-> list[i].name, tabs |-> list[i].tabs] /\ list[i].tabs \in Profiles
    BY <2>1 DEF Entries
  <2>3. Normalized(list[i].tabs) = list[i].tabs
    BY <1>1, <2>2, NormalizedOnce DEF Repaired
  <2> QED
    BY <2>2, <2>3
<1>2. list = [i \in DOMAIN list |-> list[i]]
  OBVIOUS
<1> QED
  BY <1>1, <1>2 DEF Load

\* So does reading a file that somebody else wrote, and reading it again.
LEMMA LoadedIsRepaired ==
  ASSUME NEW list \in Seq(RawEntries)
  PROVE  Repaired(Load(list))
<1>1. \A i \in DOMAIN list : list[i] \in RawEntries
  OBVIOUS
<1>2. \A i \in DOMAIN list : list[i].tabs \in RawProfiles
  BY <1>1 DEF RawEntries
<1>3. DOMAIN Load(list) = DOMAIN list
      /\ \A i \in DOMAIN list : Load(list)[i].tabs = Normalized(list[i].tabs)
  BY DEF Load
<1> QED
  BY <1>2, <1>3, NormalizedHasNumbers DEF Repaired

\* So does capturing the tabs.
LEMMA EntryHasNumbers ==
  ASSUME TypeOK, ShelfInv, NEW n
  PROVE  HasNumbers(Entry(n).tabs.delay)
<1>1. Entry(n).tabs.delay = [w \in Row |-> IF w[1] \in {"clicker", "timer"} /\ w[2] > visible[w[1]]
                                           THEN Default ELSE ReadValue(w[1], delay[w])]
  BY DEF Entry, Captured
<1>2. ASSUME NEW w \in Row, w[1] # "keychain"
      PROVE  Entry(n).tabs.delay[w] # 0
  <2>1. Default # 0
    BY ToolTabsAssumption
  <2>2. CASE w[1] \in {"clicker", "timer"}
    BY <1>1, <2>1, <2>2 DEF ReadValue
  <2>3. CASE w[1] = "autopot"
    <3>1. w = <<"autopot", w[2]>> /\ w[2] \in 1 .. 2
      BY <2>3, RowParts DEF RowCount
    <3>2. delay[w] # 0
      BY <3>1 DEF ShelfInv
    <3> QED
      BY <1>1, <2>3, <3>2 DEF ReadValue
  <2> QED
    BY <1>2, <2>2, <2>3, RowParts DEF Tabs
<1> QED
  BY <1>2 DEF HasNumbers

\* A list that is written is in the file and in the combo box.
LEMMA WrittenInStep ==
  ASSUME NEW list \in Seq(Entries), Repaired(list), Written(list), listed' = NamesOf(list)
  PROVE  Repaired(saved') /\ ProfilesInStep'
<1>1. file'.ok = TRUE /\ file'.list = list /\ saved' = list
  BY DEF Written
<1>2. Load(list) = list
  BY LoadGivesSaved
<1> QED
  BY <1>1, <1>2 DEF ProfilesInStep

\* Applying a profile fills the potion rows.
LEMMA AppliedHasThresholds ==
  ASSUME NEW p \in Profiles, Apply(p)
  PROVE  \A r \in 1 .. 2 : delay'[<<"autopot", r>>] # 0
<1>1. p \in RawProfiles
  BY DEF Profiles, RawProfiles, VisibleCounts
<1>2. delay' = Normalized(p).delay /\ HasNumbers(delay')
  BY <1>1, NormalizedHasNumbers DEF Apply
<1>3. \A r \in 1 .. 2 : <<"autopot", r>> \in Row
  BY RowOf DEF RowCount, Tabs
<1> QED
  BY <1>2, <1>3 DEF HasNumbers

LEMMA InitShelfInv == Init => ShelfInv
<1> SUFFICES ASSUME Init PROVE ShelfInv
  OBVIOUS
<1>1. /\ file.ok = TRUE /\ file.list \in Seq(RawEntries)
      /\ saved = Load(file.list) /\ listed = NamesOf(saved) /\ delay = FreshDelays
  BY FilesAreInOrder DEF Init, RawEntries
<1>2. \A r \in 1 .. 2 : <<"autopot", r>> \in Row
  BY RowOf DEF RowCount, Tabs
<1>3. \A r \in 1 .. 2 : delay[<<"autopot", r>>] # 0
  BY <1>1, <1>2, ToolTabsAssumption DEF FreshDelays
<1>4. Repaired(saved)
  BY <1>1, LoadedIsRepaired
<1> QED
  BY <1>1, <1>3, <1>4 DEF ShelfInv, ProfilesInStep

\* An edit of a row that is no potion row, or that leaves its number, or gives
\* it another threshold.
LEMMA EditKeepsShelf ==
  ASSUME ShelfInv, UNCHANGED shelf, \A r \in 1 .. 2 : delay'[<<"autopot", r>>] # 0
  PROVE  ShelfInv'
BY DEF ShelfInv, ProfilesInStep, shelf

LEMMA RowEditsKeepShelf ==
  ASSUME OrderInv, ShelfInv, NEW t \in Tabs,
         \/ AddRow(t)
         \/ \E r \in 1 .. RowCount[t], d \in Values : (t = "autopot" => d # 0) /\ Clear(t, r, d)
         \/ \E r \in 1 .. RowCount[t], d \in Values : t # "autopot" /\ Remove(t, r, d)
         \/ \E r \in 1 .. RowCount[t], n \in Values : (t = "autopot" => n # 0) /\ SetValue(t, r, n)
  PROVE  ShelfInv'
<1>0. /\ delay \in [Row -> Values]
      /\ \A i \in 1 .. 2 : <<"autopot", i>> \in Row /\ delay[<<"autopot", i>>] # 0
  BY RowOf DEF OrderInv, TypeOK, RowCount, Tabs, ShelfInv
<1>1. CASE AddRow(t)
  BY <1>0, <1>1, EditKeepsShelf DEF AddRow
<1>2. ASSUME NEW r, NEW d \in Values, t = "autopot" => d # 0, UNCHANGED shelf,
             delay' = [delay EXCEPT ![<<t, r>>] = d]
      PROVE  ShelfInv'
  <2>1. \A i \in 1 .. 2 : delay'[<<"autopot", i>>] # 0
    BY <1>0, <1>2
  <2> QED
    BY <1>2, <2>1, EditKeepsShelf
<1>3. ASSUME NEW r \in 1 .. RowCount[t], NEW d \in Values, t # "autopot", Remove(t, r, d)
      PROVE  ShelfInv'
  <2>1. UNCHANGED shelf /\ \A w \in Row : w[1] # t => delay'[w] = delay[w]
    BY <1>3 DEF Remove
  <2> QED
    BY <1>0, <1>3, <2>1, EditKeepsShelf
<1> QED
  BY <1>1, <1>2, <1>3 DEF Clear, SetValue

LEMMA SaveKeepsShelf ==
  ASSUME OrderInv, ShelfInv, NEW n \in Names, Save(n)
  PROVE  ShelfInv'
<1> DEFINE list == IF active = 0 THEN Append(saved, Entry(n)) ELSE [saved EXCEPT ![active] = Entry(n)]
<1>1. /\ \/ Written(list) /\ listed' = NamesOf(list)
         \/ saved' = list /\ ioFailed' = TRUE
      /\ delay' = delay
  BY DEF Save, tabs
<1>2. saved \in Seq(Entries) /\ active \in 0 .. Len(saved) /\ Entry(n) \in Entries
  BY EntryIsTidy DEF OrderInv, TypeOK
<1>3. /\ list \in Seq(Entries)
      /\ \A i \in DOMAIN list : list[i] = Entry(n) \/ (i \in DOMAIN saved /\ list[i] = saved[i])
  <2>1. CASE active = 0
    BY <1>2, <2>1
  <2>2. CASE active # 0
    BY <1>2, <2>2
  <2> QED
    BY <2>1, <2>2
<1> HIDE DEF list
<1>4. Repaired(list)
  <2>1. HasNumbers(Entry(n).tabs.delay)
    BY EntryHasNumbers DEF OrderInv
  <2>2. \A i \in DOMAIN saved : HasNumbers(saved[i].tabs.delay)
    BY DEF ShelfInv, Repaired
  <2> QED
    BY <1>3, <2>1, <2>2 DEF Repaired
<1>5. CASE Written(list) /\ listed' = NamesOf(list)
  BY <1>1, <1>3, <1>4, <1>5, WrittenInStep DEF ShelfInv
<1>6. CASE saved' = list /\ ioFailed' = TRUE
  BY <1>1, <1>4, <1>6 DEF ShelfInv, ProfilesInStep
<1> QED
  BY <1>1, <1>5, <1>6

LEMMA RemoveProfileKeepsShelf ==
  ASSUME OrderInv, ShelfInv, RemoveProfile
  PROVE  ShelfInv'
<1>1. saved \in Seq(Entries) /\ active \in 1 .. Len(saved)
  BY DEF OrderInv, TypeOK, RemoveProfile
<1>2. CASE Written(Dropped(saved, active)) /\ listed' = NamesOf(saved') /\ Apply(template)
  <2> DEFINE list == Dropped(saved, active)
  <2>1. list \in Seq(Entries)
    BY <1>1, DroppedIsTidy DEF OrderInv
  <2>2. Repaired(list)
    <3>1. DOMAIN list = 1 .. Len(saved) - 1
      BY DEF Dropped
    <3>2. \A j \in DOMAIN list : \E m \in 1 .. Len(saved) : list[j] = saved[m]
      BY <1>1, <3>1 DEF Dropped
    <3>3. \A m \in 1 .. Len(saved) : HasNumbers(saved[m].tabs.delay)
      BY <1>1 DEF ShelfInv, Repaired
    <3> QED
      BY <3>2, <3>3 DEF Repaired
  <2> HIDE DEF list
  <2>3. Written(list) /\ listed' = NamesOf(list)
    BY <1>2 DEF list, Written
  <2>4. \A r \in 1 .. 2 : delay'[<<"autopot", r>>] # 0
    BY <1>2, FreshIsTidy, AppliedHasThresholds DEF OrderInv
  <2> QED
    BY <2>1, <2>2, <2>3, <2>4, WrittenInStep DEF ShelfInv
<1>3. CASE /\ RemoveFails
           /\ ioFailed' = (ioFailed \/ file' # file)
  <2>1. UNCHANGED <<saved, listed, delay>>
    BY <1>3 DEF RemoveFails, tabs
  <2>2. CASE file' = file
    BY <1>3, <2>1, <2>2 DEF ShelfInv, ProfilesInStep
  <2>3. CASE file' # file
    BY <1>3, <2>1, <2>3 DEF ShelfInv, ProfilesInStep
  <2> QED
    BY <2>2, <2>3
<1> QED
  BY <1>2, <1>3 DEF RemoveProfile

LEMMA OtherActsKeepShelf ==
  ASSUME OrderInv, ShelfInv,
         \/ \E p \in Place : BindStart(p)
         \/ \E vk \in Keys : KeyPressed(vk)
         \/ BindEnds
         \/ \E i \in 0 .. Len(listed) : Select(i)
         \/ Start \/ ReadTabs \/ StartTool \/ Stop
         \/ Restart \/ UNCHANGED vars
  PROVE  ShelfInv'
<1>1. ASSUME UNCHANGED shelf, UNCHANGED delay
      PROVE  ShelfInv'
  BY <1>1 DEF ShelfInv, ProfilesInStep, shelf
<1>2. CASE \/ \E p \in Place : BindStart(p)
           \/ \E vk \in Keys : KeyPressed(vk)
           \/ BindEnds \/ Start \/ ReadTabs \/ StartTool \/ Stop \/ UNCHANGED vars
  <2>1. UNCHANGED shelf /\ UNCHANGED delay
    BY <1>2 DEF BindStart, KeyPressed, BindEnds, Start, ReadTabs, StartTool, Stop, vars, tabs
  <2> QED
    BY <1>1, <2>1
<1>3. ASSUME NEW i \in 0 .. Len(listed), Select(i)
      PROVE  ShelfInv'
  <2> DEFINE p == IF i = 0 THEN template ELSE saved[i].tabs
  <2>1. Apply(p) /\ UNCHANGED <<saved, listed, file, ioFailed>>
    BY <1>3 DEF Select
  <2>2. p \in Profiles
    <3>1. listed \in Seq(Names) /\ saved \in Seq(Entries) /\ Len(listed) <= Len(saved)
          /\ template \in Profiles
      BY DEF OrderInv, TypeOK
    <3>2. i # 0 => i \in 1 .. Len(saved)
      BY <3>1
    <3>3. i # 0 => saved[i] \in Entries
      BY <3>1, <3>2
    <3> QED
      BY <3>1, <3>3 DEF Entries
  <2> HIDE DEF p
  <2>3. \A r \in 1 .. 2 : delay'[<<"autopot", r>>] # 0
    BY <2>1, <2>2, AppliedHasThresholds
  <2> QED
    BY <2>1, <2>3 DEF ShelfInv, ProfilesInStep
<1>4. CASE Restart
  <2>1. /\ delay' = FreshDelays /\ listed' = NamesOf(saved') /\ file' = file
        /\ \/ file.ok /\ saved' = Load(file.list) /\ ioFailed' = FALSE
           \/ saved' = <<>> /\ ioFailed' = TRUE
    BY <1>4 DEF Restart
  <2>2. \A r \in 1 .. 2 : <<"autopot", r>> \in Row
    BY RowOf DEF RowCount, Tabs
  <2>3. \A r \in 1 .. 2 : delay'[<<"autopot", r>>] # 0
    BY <2>1, <2>2, ToolTabsAssumption DEF FreshDelays
  <2>4. Repaired(saved')
    <3>1. file.list \in Seq(RawEntries)
      BY DEF OrderInv, TypeOK, RawEntries
    <3>2. CASE saved' = Load(file.list)
      BY <3>1, <3>2, LoadedIsRepaired
    <3>3. CASE saved' = <<>>
      BY <3>3, IsNothing DEF Repaired
    <3> QED
      BY <2>1, <3>2, <3>3
  <2> QED
    BY <2>1, <2>3, <2>4 DEF ShelfInv, ProfilesInStep
<1> QED
  BY <1>2, <1>3, <1>4

-----------------------------------------------------------------------------
(* Every step *)

LEMMA NextFollows == OrderInv /\ FollowInv /\ ShelfInv /\ [Next]_vars => FollowInv' /\ ShelfInv'
<1> SUFFICES ASSUME OrderInv, FollowInv, ShelfInv, [Next]_vars PROVE FollowInv' /\ ShelfInv'
  OBVIOUS
<1>0. /\ delay \in [Row -> Values] /\ Default \in Values /\ 0 \in Values
      /\ RowCount["clicker"] = ClickerSlotCount /\ RowCount["timer"] = TimerKeySlotCount
      /\ RowCount["autopot"] = 2 /\ RowCount["keychain"] = KeyChainCount
      /\ {"clicker", "timer", "autopot", "keychain"} \subseteq Tabs
  BY ToolTabsAssumption DEF OrderInv, TypeOK, RowCount, Tabs
<1>1. CASE \E r \in 1 .. ClickerSlotCount :
             clearClickerKey(r) \/ removeClicker(r) \/ \E n \in Values : SetDelay(r, n)
  <2>1. PICK r \in 1 .. RowCount["clicker"] :
           clearClickerKey(r) \/ removeClicker(r) \/ \E n \in Values : SetDelay(r, n)
    BY <1>0, <1>1
  <2>2. delay[<<"clicker", r>>] \in Values
    BY <1>0, RowOf
  <2>3. \/ \E d \in Values : Clear("clicker", r, d)
        \/ \E d \in Values : Remove("clicker", r, d)
        \/ \E n \in Values : SetValue("clicker", r, n)
    BY <1>0, <2>1, <2>2 DEF clearClickerKey, removeClicker, SetDelay
  <2> QED
    BY <1>0, <2>3, RowEditsFollow, RowEditsKeepShelf
<1>2. CASE \E r \in 1 .. TimerKeySlotCount : clearTimerKey(r) \/ \E n \in Values : SetInterval(r, n)
  <2>1. PICK r \in 1 .. RowCount["timer"] : clearTimerKey(r) \/ \E n \in Values : SetInterval(r, n)
    BY <1>0, <1>2
  <2>2. delay[<<"timer", r>>] \in Values
    BY <1>0, RowOf
  <2>3. (\E d \in Values : Clear("timer", r, d)) \/ \E n \in Values : SetValue("timer", r, n)
    BY <2>1, <2>2 DEF clearTimerKey, SetInterval
  <2> QED
    BY <1>0, <2>3, RowEditsFollow, RowEditsKeepShelf
<1>3. CASE \E r \in 1 .. 2 : onClearPotionKey(r) \/ \E n \in Values : commitThresholdEdit(r, n)
  <2>1. PICK r \in 1 .. RowCount["autopot"] :
           onClearPotionKey(r) \/ \E n \in Values : commitThresholdEdit(r, n)
    BY <1>0, <1>3
  <2>2. delay[<<"autopot", r>>] \in Values /\ delay[<<"autopot", r>>] # 0
    BY <1>0, RowOf DEF ShelfInv
  <2>3. \/ \E d \in Values : d # 0 /\ Clear("autopot", r, d)
        \/ \E n \in Values : n # 0 /\ SetValue("autopot", r, n)
    BY <2>1, <2>2 DEF onClearPotionKey, commitThresholdEdit
  <2> QED
    BY <1>0, <2>3, RowEditsFollow, RowEditsKeepShelf
<1>4. CASE \E r \in 1 .. KeyChainCount :
             clearKeyChainSwitch(r) \/ removeKeyChainSwitch(r) \/ \E n \in Values : SetChainDelay(r, n)
  <2>1. PICK r \in 1 .. RowCount["keychain"] :
           clearKeyChainSwitch(r) \/ removeKeyChainSwitch(r) \/ \E n \in Values : SetChainDelay(r, n)
    BY <1>0, <1>4
  <2>2. \/ \E d \in Values : Clear("keychain", r, d)
        \/ \E d \in Values : Remove("keychain", r, d)
        \/ \E n \in Values : SetValue("keychain", r, n)
    BY <1>0, <2>1 DEF clearKeyChainSwitch, removeKeyChainSwitch, SetChainDelay
  <2> QED
    BY <1>0, <2>2, RowEditsFollow, RowEditsKeepShelf
<1>5. CASE onAddClicker \/ onAddTimer \/ onAddKeyChainSwitch
  BY <1>0, <1>5, RowEditsFollow, RowEditsKeepShelf DEF onAddClicker, onAddTimer, onAddKeyChainSwitch
<1>6. ASSUME NEW p, BindStart(p)
      PROVE  FollowInv' /\ ShelfInv'
  <2>1. p \in Place
    BY <1>6 DEF BindStart, Shown
  <2> QED
    BY <1>6, <2>1, OtherActsFollow, OtherActsKeepShelf
<1>7. CASE \/ \E r \in 1 .. ClickerSlotCount : bindClickerKey(r)
           \/ \E r \in 1 .. TimerKeySlotCount : bindTimerKey(r)
           \/ \E r \in 1 .. 2 : bindAutoPotKey(r)
           \/ \E r \in 1 .. KeyChainCount, s \in 1 .. KeyChainSlotCount : bindKeyChainKey(r, s)
  BY <1>6, <1>7 DEF bindClickerKey, bindTimerKey, bindAutoPotKey, bindKeyChainKey
<1>8. CASE (\E vk \in Keys : KeyPressed(vk)) \/ BindEnds
  BY <1>8, KeyPressedFollows, OtherActsFollow, OtherActsKeepShelf
<1>9. CASE \/ \E i \in 0 .. Len(listed) : Select(i)
           \/ \E n \in Names : Save(n)
           \/ RemoveProfile \/ Restart \/ UNCHANGED vars
  BY <1>9, OtherActsFollow, OtherActsKeepShelf, SaveKeepsShelf, RemoveProfileKeepsShelf
<1>10. CASE Start \/ ReadTabs \/ StartTool \/ Stop
  BY <1>10, ToolsFollow, OtherActsKeepShelf
<1> QED
  BY <1>1, <1>2, <1>3, <1>4, <1>5, <1>7, <1>8, <1>9, <1>10 DEF Next

LEMMA InitFollowInv == Init => FollowInv
<1> SUFFICES ASSUME Init PROVE FollowInv
  OBVIOUS
<1>1. DOMAIN running = {} /\ startup = "no" /\ stale = {}
  BY IsNothing DEF Init
<1> QED
  BY <1>1 DEF FollowInv, Following, ReadFor, Left, Tabs

LEMMA TabsInvariant == Spec => [](OrderInv /\ FollowInv /\ ShelfInv)
<1>1. Init => OrderInv /\ FollowInv /\ ShelfInv
  BY InitOrderInv, InitFollowInv, InitShelfInv
<1>2. OrderInv /\ FollowInv /\ ShelfInv /\ [Next]_vars => OrderInv' /\ FollowInv' /\ ShelfInv'
  BY NextOrderInv, NextFollows
<1> QED
  BY <1>1, <1>2, PTL DEF Spec

-----------------------------------------------------------------------------
(* Theorems *)

\* The variables keep their types, whatever is done in the tabs.
THEOREM TabsTypeCorrect == Spec => []TypeOK
<1>1. OrderInv => TypeOK
  BY DEF OrderInv
<1> QED
  BY <1>1, OrderInvariant, PTL

\* A key is bound in one place, through binds, removed rows, profiles and
\* restarts, until a row disappears under a bind (main.go:716-759).
THEOREM KeysAreBoundOnce == Spec => []BoundOnce
<1>1. OrderInv => BoundOnce
  <2>1. Shown(visible) \subseteq Place
    BY DEF Shown
  <2> QED
    BY <2>1 DEF OrderInv, Tidy, BoundOnce, BoundOnceAlways, OnceAmong
<1> QED
  BY <1>1, OrderInvariant, PTL

\* A clicker row has no gap before a key (clicker_tab.go:69-95).
THEOREM ClickerRowsStayCompact == Spec => []ClickerRowsCompact
<1>1. OrderInv => ClickerRowsCompact
  BY DEF OrderInv, Tidy, ClickerRowsCompact
<1> QED
  BY <1>1, OrderInvariant, PTL

\* Every handler that changes what a tab asks for syncs the tool (main.go:783-
\* 798): a running tool has the settings its tab shows and one left off has
\* nothing to do, but for tools in stale: the startup began them with settings
\* read before an edit, or onAdd... showed a key that had landed unseen
\* (clicker_tab.go:262-271), and their tab has not been synced since.
THEOREM RunnersStayInStep == Spec => []RunnersFollowTabs
<1>1. FollowInv => RunnersFollowTabs
  <2> SUFFICES ASSUME FollowInv PROVE RunnersFollowTabs
    BY DEF RunnersFollowTabs
  <2>1. Following(running, startup, pending, stale, key, delay, visible)
    BY DEF FollowInv
  <2>2. \A t \in DOMAIN running \ stale : running[t] = Now(t)
    BY <2>1 DEF Following, Now
  <2>3. ASSUME startup = "no", isStarted, NEW t \in Tabs \ (DOMAIN running \cup stale)
        PROVE  ~Wanted(t, Now(t))
    <3>1. Left(startup) = {}
      BY <2>3 DEF Left, Tabs
    <3> QED
      BY <2>1, <2>3, <3>1 DEF Following, Now, isStarted
  <2> QED
    BY <2>2, <2>3 DEF RunnersFollowTabs
<1> QED
  BY <1>1, TabsInvariant, PTL

\* A removal that cannot be written takes nothing away, and what was saved
\* comes back as it was (tool_profiles.go:104-142, 217-282).
THEOREM ProfilesStayInStep == Spec => []ProfilesInStep
<1>1. ShelfInv => ProfilesInStep
  BY DEF ShelfInv
<1> QED
  BY <1>1, TabsInvariant, PTL
=============================================================================
