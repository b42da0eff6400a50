---------------------- MODULE FleetNotificationProofs ----------------------
(***************************************************************************)
(* The safety properties of the fleet notification controller, for every   *)
(* number of notifications and clusters, every resendWait and every limit. *)
(*                                                                         *)
(* First what the methods of the record and the JSON patch do to it: the   *)
(* result is a record again, a hosted cluster has at most one item under a *)
(* notification if it had before, and an item once stale stays stale.      *)
(***************************************************************************)
EXTENDS FleetNotificationController, SequenceTheorems, WellFoundedInduction, TLAPS

\* No hosted cluster has two of the items.
Unique(items) ==
    \A i, j \in DOMAIN items :
        items[i].hostedClusterID = items[j].hostedClusterID => i = j

UniqueRecord(fnr) ==
    \A n \in DOMAIN fnr.records : Unique(fnr.records[n].items)

-----------------------------------------------------------------------------
(* Positions and sequences.                                                *)

\* The search for the first position finds one.
LEMMA MinIn ==
    ASSUME NEW S, S \subseteq Nat, S # {}
    PROVE  Min(S) \in S /\ \A y \in S : Min(S) <= y
<1>1. \E x \in S : \A y \in S : ~(<<y, x>> \in OpToRel(<, Nat))
  BY NatLessThanWellFounded, WFMin, Zenon
<1>2. \A x, y \in Nat : y < x => <<y, x>> \in OpToRel(<, Nat)
  BY Zenon DEF OpToRel
<1>3. \A x, y \in S : x \in Nat /\ y \in Nat
  BY Zenon
<1>4. \E x \in S : \A y \in S : ~(y < x)
  BY <1>1, <1>2, <1>3, Zenon
<1>5. \E x \in S : \A y \in S : x =< y
  BY <1>3, <1>4
<1> QED BY <1>5, ZenonT(30) DEF Min

\* RemoveAt closes the gap.
LEMMA RemoveAtFacts ==
    ASSUME NEW S, NEW s \in Seq(S), NEW i \in DOMAIN s
    PROVE  /\ RemoveAt(s, i) \in Seq(S)
           /\ Len(RemoveAt(s, i)) = Len(s) - 1
           /\ \A j \in 1..(Len(s) - 1) :
                  RemoveAt(s, i)[j] = IF j < i THEN s[j] ELSE s[j + 1]
<1> DEFINE a == SubSeq(s, 1, i - 1)
           b == SubSeq(s, i + 1, Len(s))
<1>1. i \in 1..Len(s) /\ Len(s) \in Nat
  BY LenProperties, Zenon
<1>2. /\ a \in Seq(S) /\ Len(a) = i - 1
      /\ \A j \in 1..(i - 1) : a[j] = s[j]
  BY <1>1, SubSeqProperties, ElementOfSeq
<1>3. /\ b \in Seq(S) /\ Len(b) = Len(s) - i
      /\ \A j \in 1..(Len(s) - i) : b[j] = s[i + j]
  <2>1. \A j \in (i + 1)..Len(s) : s[j] \in S
    BY <1>1, ElementOfSeq
  <2>2. /\ b \in Seq(S)
        /\ Len(b) = IF i + 1 <= Len(s) THEN Len(s) - (i + 1) + 1 ELSE 0
        /\ \A j \in 1..(Len(s) - (i + 1) + 1) : b[j] = s[(i + 1) + j - 1]
    BY <1>1, <2>1, SubSeqProperties, SMTT(30)
  <2> HIDE DEF b
  <2>3. \A j \in 1..(Len(s) - i) : (i + 1) + j - 1 = i + j
    BY <1>1
  <2> QED BY <1>1, <2>2, <2>3, SMTT(30)
<1> HIDE DEF a, b
<1>4. /\ a \o b \in Seq(S) /\ Len(a \o b) = Len(a) + Len(b)
      /\ \A j \in 1..(Len(a) + Len(b)) :
             (a \o b)[j] = IF j <= Len(a) THEN a[j] ELSE b[j - Len(a)]
  BY <1>2, <1>3, ConcatProperties, ZenonT(30)
<1>5. RemoveAt(s, i) = a \o b
  BY Zenon DEF RemoveAt, a, b
<1>6. Len(a) = i - 1 /\ Len(a) + Len(b) = Len(s) - 1
  BY <1>1, <1>2, <1>3
<1>7. ASSUME NEW j \in 1..(Len(s) - 1)
      PROVE  RemoveAt(s, i)[j] = IF j < i THEN s[j] ELSE s[j + 1]
  <2>1. j \in 1..(Len(a) + Len(b))
    BY <1>6, Zenon
  <2>2. RemoveAt(s, i)[j] = IF j <= Len(a) THEN a[j] ELSE b[j - Len(a)]
    BY <1>4, <1>5, <2>1, Zenon
  <2>3. CASE j < i
    BY <1>1, <1>2, <1>6, <2>2, <2>3, SMTT(30)
  <2>4. CASE ~(j < i)
    <3>1. RemoveAt(s, i)[j] = b[j - (i - 1)]
      BY <1>1, <1>6, <2>2, <2>4
    <3>2. j - (i - 1) \in 1..(Len(s) - i) /\ i + (j - (i - 1)) = j + 1
      BY <1>1, <2>4
    <3> QED BY <1>3, <2>4, <3>1, <3>2, Zenon
  <2> QED BY <2>3, <2>4, Zenon
<1>8. RemoveAt(s, i) \in Seq(S) /\ Len(RemoveAt(s, i)) = Len(s) - 1
  BY <1>4, <1>5, <1>6, Zenon
<1> QED BY <1>7, <1>8, Zenon

-----------------------------------------------------------------------------
(* The methods of the record.                                              *)

\* new is fnr with other items in one of its records.
ItemsReplaced(fnr, new, n, items) ==
    /\ new \in FleetRecords
    /\ new.managementCluster = fnr.managementCluster
    /\ DOMAIN new.records = DOMAIN fnr.records
    /\ \A k \in DOMAIN fnr.records :
           /\ new.records[k].notificationName = fnr.records[k].notificationName
           /\ new.records[k].resendWait = fnr.records[k].resendWait
           /\ new.records[k].items = IF k = n THEN items ELSE fnr.records[k].items

LEMMA RecordFacts ==
    ASSUME NEW fnr \in FleetRecords
    PROVE  /\ fnr.records \in Seq(RecordsByName)
           /\ DOMAIN fnr.records \subseteq Nat
           /\ \A n \in DOMAIN fnr.records :
                  /\ fnr.records[n] \in RecordsByName
                  /\ fnr.records[n].items \in Seq(Items)
                  /\ DOMAIN fnr.records[n].items \subseteq Nat
                  /\ DOMAIN fnr.records[n].items = 1..Len(fnr.records[n].items)
                  /\ \A j \in DOMAIN fnr.records[n].items :
                         fnr.records[n].items[j] \in Items
<1>1. fnr.records \in Seq(RecordsByName)
  BY Zenon DEF FleetRecords
<1>2. DOMAIN fnr.records = 1..Len(fnr.records)
  BY <1>1, LenProperties, Zenon
<1>3. ASSUME NEW n \in DOMAIN fnr.records
      PROVE  fnr.records[n] \in RecordsByName /\ fnr.records[n].items \in Seq(Items)
  <2>1. fnr.records[n] \in RecordsByName
    BY <1>1, <1>2, ElementOfSeq, Zenon
  <2> QED BY <2>1, Zenon DEF RecordsByName
<1>4. ASSUME NEW n \in DOMAIN fnr.records
      PROVE  /\ DOMAIN fnr.records[n].items = 1..Len(fnr.records[n].items)
             /\ \A j \in DOMAIN fnr.records[n].items : fnr.records[n].items[j] \in Items
  <2>1. fnr.records[n].items \in Seq(Items)
    BY <1>3, Zenon
  <2> QED BY <2>1, LenProperties, ElementOfSeq, Zenon
<1> QED BY <1>1, <1>2, <1>3, <1>4

LEMMA SetItems ==
    ASSUME NEW fnr \in FleetRecords, NEW n \in DOMAIN fnr.records,
           NEW items \in Seq(Items)
    PROVE  ItemsReplaced(fnr, [fnr EXCEPT !.records[n].items = items], n, items)
<1> DEFINE rn == [fnr.records[n] EXCEPT !.items = items]
           rs == [fnr.records EXCEPT ![n] = rn]
           new == [fnr EXCEPT !.records = rs]
<1>1. new = [fnr EXCEPT !.records[n].items = items]
  BY Zenon
<1>2. /\ fnr.records \in Seq(RecordsByName)
      /\ n \in 1..Len(fnr.records)
      /\ fnr.records[n] \in RecordsByName
  BY RecordFacts, LenProperties, Zenon
<1>3. /\ rn \in RecordsByName
      /\ rn.items = items
      /\ rn.notificationName = fnr.records[n].notificationName
      /\ rn.resendWait = fnr.records[n].resendWait
  BY <1>2, ZenonT(30) DEF RecordsByName
<1> HIDE DEF rn
<1>4. /\ rs \in Seq(RecordsByName) /\ DOMAIN rs = DOMAIN fnr.records
      /\ \A k \in DOMAIN fnr.records : rs[k] = IF k = n THEN rn ELSE fnr.records[k]
  BY <1>2, <1>3, ExceptSeq, LenProperties, Zenon
<1> HIDE DEF rs
<1>5. /\ new \in FleetRecords /\ new.records = rs
      /\ new.managementCluster = fnr.managementCluster
  BY <1>4, Zenon DEF FleetRecords
<1> HIDE DEF new
<1>6. ItemsReplaced(fnr, new, n, items)
  BY <1>3, <1>4, <1>5, Zenon DEF ItemsReplaced
<1> QED BY <1>1, <1>6, Zenon

\* Uniqueness is a matter of the replaced items.
LEMMA ReplacedUnique ==
    ASSUME NEW fnr \in FleetRecords, UniqueRecord(fnr), NEW new,
           NEW n \in DOMAIN fnr.records, NEW items,
           ItemsReplaced(fnr, new, n, items), Unique(items)
    PROVE  UniqueRecord(new)
BY Zenon DEF ItemsReplaced, UniqueRecord

\* rest are the items of old except for those at the positions in gone.
Remain(old, rest, gone) ==
    /\ \A j \in DOMAIN old \ gone : \E l \in DOMAIN rest : rest[l] = old[j]
    /\ \A l \in DOMAIN rest : \E j \in DOMAIN old \ gone : rest[l] = old[j]

\* Taking an item away keeps the others, and one per cluster.
LEMMA RemovedUnique ==
    ASSUME NEW items \in Seq(Items), NEW i \in DOMAIN items
    PROVE  /\ RemoveAt(items, i) \in Seq(Items)
           /\ Unique(items) => Unique(RemoveAt(items, i))
           /\ Remain(items, RemoveAt(items, i), {i})
<1> DEFINE r == RemoveAt(items, i)
<1>1. /\ r \in Seq(Items) /\ Len(r) = Len(items) - 1
      /\ \A j \in 1..(Len(items) - 1) :
             r[j] = IF j < i THEN items[j] ELSE items[j + 1]
  BY RemoveAtFacts, Zenon
<1>2. /\ DOMAIN items = 1..Len(items) /\ Len(items) \in Nat
      /\ DOMAIN r = 1..(Len(items) - 1)
  BY <1>1, LenProperties, Zenon
<1> HIDE DEF r
<1>3. ASSUME Unique(items), NEW j \in DOMAIN r, NEW k \in DOMAIN r,
             r[j].hostedClusterID = r[k].hostedClusterID
      PROVE  j = k
  <2> DEFINE at(x) == IF x < i THEN x ELSE x + 1
  <2>1. /\ at(j) \in DOMAIN items /\ r[j] = items[at(j)]
        /\ at(k) \in DOMAIN items /\ r[k] = items[at(k)]
    BY <1>1, <1>2, SMTT(30)
  <2>2. at(j) = at(k)
    BY <1>3, <2>1, Zenon DEF Unique
  <2> QED BY <1>2, <2>2
<1>4. ASSUME NEW j \in DOMAIN items \ {i}
      PROVE  \E k \in DOMAIN r : r[k] = items[j]
  <2>1. CASE j < i
    BY <1>1, <1>2, <2>1
  <2>2. CASE j > i
    <3>1. j - 1 \in DOMAIN r /\ ~(j - 1 < i) /\ (j - 1) + 1 = j
      BY <1>2, <2>2
    <3> QED BY <1>1, <1>2, <3>1, Zenon
  <2> QED BY <1>2, <2>1, <2>2
<1>5. ASSUME NEW k \in DOMAIN r
      PROVE  \E j \in DOMAIN items \ {i} : r[k] = items[j]
  <2>1. CASE k < i
    BY <1>1, <1>2, <2>1, SMTT(30)
  <2>2. CASE ~(k < i)
    <3>1. k + 1 \in DOMAIN items \ {i} /\ k \in 1..(Len(items) - 1)
      BY <1>2, <2>2
    <3> QED BY <1>1, <2>2, <3>1, Zenon
  <2> QED BY <2>1, <2>2, Zenon
<1> QED BY <1>1, <1>3, <1>4, <1>5, ZenonT(30) DEF Unique, Remain, r

\* A record that may be stored.
Good(fnr) == fnr \in FleetRecords /\ UniqueRecord(fnr)

\* items are those of old without the positions in gone, and with came.
Changed(old, items, gone, came) ==
    /\ \A l \in DOMAIN items :
           items[l] \in came \/ \E j \in DOMAIN old \ gone : items[l] = old[j]
    /\ \A j \in DOMAIN old \ gone : \E l \in DOMAIN items : items[l] = old[j]
    /\ \A x \in came : \E l \in DOMAIN items : items[l] = x

\* new is fnr, except that one of its records has lost and got some items.
Replaces(fnr, new, n, gone, came) ==
    /\ n \in DOMAIN fnr.records /\ gone \subseteq DOMAIN fnr.records[n].items
    /\ \E items : /\ ItemsReplaced(fnr, new, n, items) /\ Unique(items)
                  /\ Changed(fnr.records[n].items, items, gone, came)

LEMMA ReplacesGood ==
    ASSUME NEW fnr, Good(fnr), NEW new, NEW n, NEW gone, NEW came,
           Replaces(fnr, new, n, gone, came)
    PROVE  Good(new)
<1>1. PICK items : ItemsReplaced(fnr, new, n, items) /\ Unique(items)
  BY Zenon DEF Replaces
<1>2. n \in DOMAIN fnr.records /\ fnr \in FleetRecords /\ UniqueRecord(fnr)
  BY Zenon DEF Replaces, Good
<1>3. UniqueRecord(new)
  BY <1>1, <1>2, ReplacedUnique, Zenon
<1> QED BY <1>1, <1>3, Zenon DEF Good, ItemsReplaced

LEMMA SlotFacts ==
    ASSUME NEW fnr \in FleetRecords, NEW name, NEW cluster
    PROVE  /\ RecordSlots(fnr, name) # {} =>
                  Min(RecordSlots(fnr, name)) \in RecordSlots(fnr, name)
           /\ HoldingSlots(fnr, name, cluster) # {} =>
                  Min(HoldingSlots(fnr, name, cluster)) \in HoldingSlots(fnr, name, cluster)
           /\ \A n \in DOMAIN fnr.records :
                  ItemSlots(fnr.records[n], cluster) # {} =>
                      Min(ItemSlots(fnr.records[n], cluster))
                          \in ItemSlots(fnr.records[n], cluster)
<1>1. RecordSlots(fnr, name) \subseteq Nat /\ HoldingSlots(fnr, name, cluster) \subseteq Nat
  BY RecordFacts, Zenon DEF RecordSlots, HoldingSlots
<1>2. ASSUME NEW n \in DOMAIN fnr.records
      PROVE  ItemSlots(fnr.records[n], cluster) \subseteq Nat
  BY RecordFacts, Zenon DEF ItemSlots
<1> QED BY <1>1, <1>2, MinIn, Zenon

\* The first record that holds an item of the cluster, and the item there.
LEMMA HolderFacts ==
    ASSUME NEW fnr \in FleetRecords, NEW name, NEW cluster,
           HoldingSlots(fnr, name, cluster) # {}
    PROVE  LET n == Min(HoldingSlots(fnr, name, cluster))
               j == Min(ItemSlots(fnr.records[n], cluster))
           IN  /\ n \in DOMAIN fnr.records /\ j \in DOMAIN fnr.records[n].items
               /\ n \in RecordSlots(fnr, name) /\ j \in ItemSlots(fnr.records[n], cluster)
<1>1. PICK n : n = Min(HoldingSlots(fnr, name, cluster))
  BY Zenon
<1>2. n \in HoldingSlots(fnr, name, cluster)
  BY <1>1, SlotFacts, Zenon
<1>3. /\ n \in DOMAIN fnr.records /\ ItemSlots(fnr.records[n], cluster) # {}
      /\ n \in RecordSlots(fnr, name)
  BY <1>2, Zenon DEF HoldingSlots, RecordSlots
<1>4. PICK j : j = Min(ItemSlots(fnr.records[n], cluster))
  BY Zenon
<1>5. j \in ItemSlots(fnr.records[n], cluster)
  BY <1>3, <1>4, SlotFacts, Zenon
<1>6. j \in DOMAIN fnr.records[n].items
  BY <1>5, Zenon DEF ItemSlots
<1> QED BY <1>1, <1>3, <1>4, <1>5, <1>6, Zenon

\* The item that AddNotificationRecordItem makes.
NewItem(cluster) ==
    [hostedClusterID |-> cluster, firing |-> 0, resolved |-> 0,
     lastTransitionTime |-> Nil]

\* AddNotificationRecordItem gives a cluster an item only if it has none.
LEMMA AddReplaces ==
    ASSUME NEW fnr, Good(fnr), NEW name \in Notifications, NEW cluster \in Clusters,
           AddNotificationRecordItem(fnr, cluster, name) # Nil
    PROVE  \E n \in RecordSlots(fnr, name) :
               /\ ItemSlots(fnr.records[n], cluster) = {}
               /\ Replaces(fnr, AddNotificationRecordItem(fnr, cluster, name), n,
                           {}, {NewItem(cluster)})
<1> DEFINE n == Min(RecordSlots(fnr, name))
           old == fnr.records[n].items
           item == NewItem(cluster)
           items == Append(old, item)
           new == [fnr EXCEPT !.records[n].items = items]
<1>1. /\ fnr \in FleetRecords /\ UniqueRecord(fnr)
      /\ RecordSlots(fnr, name) # {} /\ ItemSlots(fnr.records[n], cluster) = {}
      /\ AddNotificationRecordItem(fnr, cluster, name) = new
  BY Zenon DEF Good, AddNotificationRecordItem, NewItem
<1>2. n \in RecordSlots(fnr, name) /\ n \in DOMAIN fnr.records
  BY <1>1, SlotFacts, ZenonT(30) DEF RecordSlots
<1>3. old \in Seq(Items) /\ item \in Items /\ Unique(old)
  BY <1>1, <1>2, RecordFacts, ZenonT(30) DEF Items, UniqueRecord, NewItem
<1>4. \A j \in DOMAIN old : old[j].hostedClusterID # cluster
  BY <1>1, Zenon DEF ItemSlots
<1>5. item.hostedClusterID = cluster
  BY Zenon DEF NewItem
<1> HIDE DEF n, old, item
<1>6. /\ items \in Seq(Items)
      /\ DOMAIN items = 1..(Len(old) + 1) /\ DOMAIN old = 1..Len(old) /\ Len(old) \in Nat
      /\ items[Len(old) + 1] = item
      /\ \A j \in DOMAIN old : items[j] = old[j]
  BY <1>3, AppendProperties, LenProperties
<1> HIDE DEF items
<1>7. Unique(items)
  BY <1>3, <1>4, <1>5, <1>6, SMTT(30) DEF Unique
<1>8. ItemsReplaced(fnr, new, n, items)
  BY <1>1, <1>2, <1>6, SetItems, Zenon
<1>9. Changed(old, items, {}, {item})
  BY <1>6, SMTT(30) DEF Changed
<1> HIDE DEF new
<1>10. Replaces(fnr, new, n, {}, {item})
  BY <1>2, <1>7, <1>8, <1>9, Zenon DEF Replaces, old
<1> QED BY <1>1, <1>2, <1>10, Zenon DEF item

LEMMA AddGood ==
    ASSUME NEW fnr, Good(fnr), NEW name \in Notifications, NEW cluster \in Clusters,
           AddNotificationRecordItem(fnr, cluster, name) # Nil
    PROVE  Good(AddNotificationRecordItem(fnr, cluster, name))
BY AddReplaces, ReplacesGood, Zenon

LEMMA CountedItem ==
    ASSUME NEW item \in Items, NEW statusFiring \in BOOLEAN, NEW t \in Nat
    PROVE  /\ Counted(item, statusFiring, t) \in Items
           /\ Counted(item, statusFiring, t).hostedClusterID = item.hostedClusterID
<1>1. CASE statusFiring
  BY <1>1 DEF Counted, Items
<1>2. CASE ~statusFiring
  BY <1>2 DEF Counted, Items
<1> QED BY <1>1, <1>2, Zenon

\* UpdateNotificationRecordItem leaves clusters where they are.
LEMMA UpdateReplaces ==
    ASSUME NEW fnr, Good(fnr), NEW name, NEW cluster, NEW statusFiring \in BOOLEAN,
           NEW t \in Nat,
           UpdateNotificationRecordItem(fnr, name, cluster, statusFiring, t) # Nil
    PROVE  \E n \in RecordSlots(fnr, name) : \E j \in ItemSlots(fnr.records[n], cluster) :
               Replaces(fnr, UpdateNotificationRecordItem(fnr, name, cluster, statusFiring, t),
                        n, {j}, {Counted(fnr.records[n].items[j], statusFiring, t)})
<1> DEFINE n == Min(HoldingSlots(fnr, name, cluster))
           old == fnr.records[n].items
           j == Min(ItemSlots(fnr.records[n], cluster))
           item == Counted(old[j], statusFiring, t)
           items == [old EXCEPT ![j] = item]
           new == [fnr EXCEPT !.records[n].items = items]
<1>1. /\ fnr \in FleetRecords /\ UniqueRecord(fnr)
      /\ HoldingSlots(fnr, name, cluster) # {}
  BY Zenon DEF Good, UpdateNotificationRecordItem
<1>2. UpdateNotificationRecordItem(fnr, name, cluster, statusFiring, t) = new
  BY Zenon, <1>1 DEF UpdateNotificationRecordItem
<1>3. n \in DOMAIN fnr.records /\ j \in DOMAIN old
  BY <1>1, HolderFacts, Zenon
<1>4. n \in RecordSlots(fnr, name) /\ j \in ItemSlots(fnr.records[n], cluster)
  BY <1>1, HolderFacts, Zenon
<1>5. old \in Seq(Items) /\ old[j] \in Items /\ Unique(old)
  BY <1>1, <1>3, RecordFacts, Zenon DEF UniqueRecord
<1>6. item \in Items /\ item.hostedClusterID = old[j].hostedClusterID
  BY Zenon, <1>5, CountedItem
<1> HIDE DEF n, j, old, item
<1>7. /\ items \in Seq(Items) /\ DOMAIN items = DOMAIN old
      /\ \A k \in DOMAIN old : items[k] = IF k = j THEN item ELSE old[k]
  BY <1>3, <1>5, <1>6, ExceptSeq, LenProperties
<1> HIDE DEF items
<1>8. Unique(items)
  BY <1>5, <1>6, <1>7, ZenonT(30) DEF Unique
<1>9. ItemsReplaced(fnr, new, n, items)
  BY <1>1, <1>3, <1>7, SetItems, Zenon
<1>10. Changed(old, items, {j}, {item})
  BY <1>3, <1>7, ZenonT(30) DEF Changed
<1> HIDE DEF new
<1>11. Replaces(fnr, new, n, {j}, {item})
  BY <1>3, <1>8, <1>9, <1>10, Zenon DEF Replaces, old
<1> QED BY <1>2, <1>4, <1>11, Zenon DEF item, old

LEMMA UpdateGood ==
    ASSUME NEW fnr, Good(fnr), NEW name, NEW cluster, NEW statusFiring \in BOOLEAN,
           NEW t \in Nat,
           UpdateNotificationRecordItem(fnr, name, cluster, statusFiring, t) # Nil
    PROVE  Good(UpdateNotificationRecordItem(fnr, name, cluster, statusFiring, t))
BY UpdateReplaces, ReplacesGood, Zenon

\* The JSON patch takes one item away and leaves everything else.
LEMMA RemoveSlotGood ==
    ASSUME NEW fnr, Good(fnr), NEW slot, InRange(fnr, slot)
    PROVE  /\ Good(RemoveSlot(fnr, slot))
           /\ ItemsReplaced(fnr, RemoveSlot(fnr, slot), slot[1],
                            RemoveAt(fnr.records[slot[1]].items, slot[2]))
           /\ Replaces(fnr, RemoveSlot(fnr, slot), slot[1], {slot[2]}, {})
<1> DEFINE n == slot[1]
           j == slot[2]
           old == fnr.records[n].items
           items == RemoveAt(old, j)
           new == [fnr EXCEPT !.records[n].items = items]
<1>1. /\ fnr \in FleetRecords /\ UniqueRecord(fnr)
      /\ n \in DOMAIN fnr.records /\ j \in DOMAIN old
      /\ RemoveSlot(fnr, slot) = new
  BY Zenon DEF Good, InRange, RemoveSlot
<1>2. old \in Seq(Items) /\ Unique(old)
  BY <1>1, RecordFacts, Zenon DEF UniqueRecord
<1>3. items \in Seq(Items) /\ Unique(items) /\ Remain(old, items, {j})
  BY <1>1, <1>2, RemovedUnique, ZenonT(30)
<1> HIDE DEF n, j, old, items
<1>4. ItemsReplaced(fnr, new, n, items)
  BY <1>1, <1>3, SetItems, Zenon
<1>5. Changed(old, items, {j}, {})
  BY <1>3, Zenon DEF Changed, Remain
<1> HIDE DEF new
<1>6. Replaces(fnr, new, n, {j}, {})
  BY <1>1, <1>3, <1>4, <1>5, Zenon DEF Replaces, old
<1>7. Good(new)
  BY <1>6, ReplacesGood, Zenon
<1> QED BY <1>1, <1>4, <1>6, <1>7, Zenon DEF n, j, old, items

LEMMA RemoveSlotKeeps ==
    ASSUME NEW fnr, Good(fnr), NEW slot, InRange(fnr, slot)
    PROVE  /\ RemoveSlot(fnr, slot) \in FleetRecords
           /\ UniqueRecord(RemoveSlot(fnr, slot))
<1>1. Good(RemoveSlot(fnr, slot))
  BY RemoveSlotGood, Zenon
<1> QED BY <1>1, Zenon DEF Good

LEMMA RemoveSlotItems ==
    ASSUME NEW fnr, Good(fnr), NEW slot, InRange(fnr, slot), NEW n \in DOMAIN fnr.records
    PROVE  RemoveSlot(fnr, slot).records[n].items =
               IF n = slot[1] THEN RemoveAt(fnr.records[slot[1]].items, slot[2])
                              ELSE fnr.records[n].items
<1>1. PICK new, items : /\ new = RemoveSlot(fnr, slot)
                        /\ items = RemoveAt(fnr.records[slot[1]].items, slot[2])
  BY Zenon
<1>2. ItemsReplaced(fnr, new, slot[1], items)
  BY <1>1, RemoveSlotGood, Zenon
<1>3. new.records[n].items = IF n = slot[1] THEN items ELSE fnr.records[n].items
  BY <1>2, Zenon DEF ItemsReplaced
<1> QED BY <1>1, <1>3, Zenon

\* RemoveNotificationRecordItem removes at the position that it finds.
LEMMA RemoveFinds ==
    ASSUME NEW fnr, Good(fnr), NEW name, NEW cluster,
           RemoveNotificationRecordItem(fnr, name, cluster) # Nil
    PROVE  \E slot : /\ InRange(fnr, slot)
                     /\ RemoveNotificationRecordItem(fnr, name, cluster)
                            = RemoveSlot(fnr, slot)
<1> DEFINE n == Min(HoldingSlots(fnr, name, cluster))
           j == Min(ItemSlots(fnr.records[n], cluster))
<1>1. fnr \in FleetRecords /\ HoldingSlots(fnr, name, cluster) # {}
  BY Zenon DEF Good, RemoveNotificationRecordItem
<1>2. RemoveNotificationRecordItem(fnr, name, cluster) = RemoveSlot(fnr, <<n, j>>)
  BY SMTT(20), <1>1 DEF RemoveNotificationRecordItem, RemoveSlot
<1>3. n \in DOMAIN fnr.records
  BY <1>1, HolderFacts, Zenon
<1>4. j \in DOMAIN fnr.records[n].items
  BY <1>1, HolderFacts, Zenon
<1>5. InRange(fnr, <<n, j>>)
  BY <1>3, <1>4, Zenon DEF InRange
<1> QED BY <1>2, <1>5, Zenon

LEMMA RemoveGood ==
    ASSUME NEW fnr, Good(fnr), NEW name, NEW cluster,
           RemoveNotificationRecordItem(fnr, name, cluster) # Nil
    PROVE  Good(RemoveNotificationRecordItem(fnr, name, cluster))
BY RemoveFinds, RemoveSlotGood, Zenon

-----------------------------------------------------------------------------
(* Staleness.                                                              *)

LEMMA ModSmall ==
    ASSUME NEW a \in Nat, NEW b \in Nat, a < b
    PROVE  a % b = a
OBVIOUS

LEMMA DurationFacts ==
    ASSUME NEW x \in Int
    PROVE  /\ Int32(x) \in Int /\ Hours(x) \in Int
           /\ x \in (-DurationHalf)..(DurationHalf - 1) => Int32(x) = x /\ Hours(x) = x
<1>1. Int32Half \in Nat \ {0} /\ DurationHalf \in Nat \ {0} /\ DurationHalf <= Int32Half
  BY WidthsAssumption
<1>2. Int32(x) \in Int /\ Hours(x) \in Int
  BY <1>1 DEF Int32, Hours
<1>3. ASSUME x \in (-DurationHalf)..(DurationHalf - 1)
      PROVE  Int32(x) = x /\ Hours(x) = x
  <2>1. (x + DurationHalf) % (2 * DurationHalf) = x + DurationHalf
    <3>1. /\ x + DurationHalf \in Nat /\ 2 * DurationHalf \in Nat
          /\ x + DurationHalf < 2 * DurationHalf
      BY <1>1, <1>3
    <3> QED BY <3>1, ModSmall, Zenon
  <2>2. (x + Int32Half) % (2 * Int32Half) = x + Int32Half
    <3>1. /\ x + Int32Half \in Nat /\ 2 * Int32Half \in Nat
          /\ x + Int32Half < 2 * Int32Half
      BY <1>1, <1>3
    <3> QED BY <3>1, ModSmall, Zenon
  <2> QED BY <1>1, <2>1, <2>2 DEF Int32, Hours
<1> QED BY <1>2, <1>3, Zenon

LEMMA ItemTypes ==
    ASSUME NEW rn \in RecordsByName, NEW item \in Items
    PROVE  /\ rn.resendWait \in Int /\ rn.resendWait + StaleTimeout \in Int
           /\ item.lastTransitionTime # Nil => item.lastTransitionTime \in Nat
<1>1. rn.resendWait \in ResendWaits
  BY Zenon DEF RecordsByName
<1>2. item.lastTransitionTime \in Nat \cup {Nil}
  BY Zenon DEF Items
<1>3. rn.resendWait \in Int /\ StaleTimeout \in Int
  <2>1. /\ Int32Half \in Nat /\ StaleTimeout \in Nat
        /\ rn.resendWait \in (-Int32Half)..(Int32Half - 1)
    BY <1>1, WaitsAssumption, WidthsAssumption, ZenonT(30) DEF Int32s
  <2> QED BY <2>1
<1> QED BY <1>2, <1>3

\* What is stale stays stale.
LEMMA StaleStays ==
    ASSUME NEW fnr \in FleetRecords, NEW t \in Nat
    PROVE  StaleSlots(fnr, t) \subseteq StaleSlots(fnr, t + 1)
<1>1. ASSUME NEW rn \in RecordsByName, NEW item \in Items, stale(rn, item, t)
      PROVE  stale(rn, item, t + 1)
  <2>1. CASE item.lastTransitionTime = Nil
    BY <2>1, Zenon DEF stale
  <2>2. CASE item.lastTransitionTime # Nil
    <3>1. item.lastTransitionTime \in Nat /\ rn.resendWait + StaleTimeout \in Int
      BY <2>2, ItemTypes, Zenon
    <3>2. Hours(Int32(rn.resendWait + StaleTimeout)) \in Int
      BY <3>1, DurationFacts, Zenon
    <3> QED BY <1>1, <2>2, <3>1, <3>2 DEF stale
  <2> QED BY <2>1, <2>2, Zenon
<1> QED BY <1>1, RecordFacts DEF StaleSlots

\* The nested loops stop at a stale item.
LEMMA FirstSlotStale ==
    ASSUME NEW fnr \in FleetRecords, NEW t, StaleSlots(fnr, t) # {}
    PROVE  FirstSlot(StaleSlots(fnr, t)) \in StaleSlots(fnr, t)
<1> DEFINE S == StaleSlots(fnr, t)
           N == {s[1] : s \in S}
           n == Min(N)
           I == {s[2] : s \in {u \in S : u[1] = n}}
<1>1. \A s \in S : s = <<s[1], s[2]>> /\ s[1] \in Nat /\ s[2] \in Nat
  BY RecordFacts, SMTT(30) DEF StaleSlots
<1> HIDE DEF S
<1>2. N \subseteq Nat /\ N # {}
  BY <1>1, Zenon DEF S
<1>3. n \in N
  BY <1>2, MinIn, ZenonT(30)
<1>4. I \subseteq Nat /\ I # {}
  <2> HIDE DEF n
  <2> QED BY <1>1, <1>3, Zenon
<1>5. Min(I) \in I
  <2> HIDE DEF I
  <2> QED BY <1>4, MinIn, ZenonT(30)
<1>6. <<n, Min(I)>> \in S
  <2> DEFINE i == Min(I)
  <2>1. PICK s \in S : s[1] = n /\ s[2] = i
    BY <1>5, ZenonT(30)
  <2> HIDE DEF i, n
  <2> QED BY <1>1, <2>1, Zenon DEF i
<1>7. FirstSlot(S) = <<n, Min(I)>>
  BY ZenonT(30) DEF FirstSlot
<1> QED BY <1>6, <1>7, ZenonT(30) DEF S

LEMMA StaleInRange ==
    ASSUME NEW fnr \in FleetRecords, NEW t, NEW slot \in StaleSlots(fnr, t)
    PROVE  /\ InRange(fnr, slot) /\ slot \in Nat \X Nat
           /\ stale(fnr.records[slot[1]], fnr.records[slot[1]].items[slot[2]], t)
BY RecordFacts DEF StaleSlots, InRange

-----------------------------------------------------------------------------
(* The removal of a stale item by its position.                            *)

\* Of the items of a record only the one at that position goes.
LEMMA ItemsLeft ==
    ASSUME NEW fnr, Good(fnr), NEW slot, InRange(fnr, slot), NEW n \in DOMAIN fnr.records
    PROVE  Remain(fnr.records[n].items, RemoveSlot(fnr, slot).records[n].items,
                  IF n = slot[1] THEN {slot[2]} ELSE {})
<1>1. RemoveSlot(fnr, slot).records[n].items =
          IF n = slot[1] THEN RemoveAt(fnr.records[slot[1]].items, slot[2])
                         ELSE fnr.records[n].items
  BY RemoveSlotItems, Zenon
<1>2. CASE n # slot[1]
  BY <1>1, <1>2, Zenon DEF Remain
<1>3. CASE n = slot[1]
  <2>1. slot[2] \in DOMAIN fnr.records[n].items /\ fnr.records[n].items \in Seq(Items)
    BY <1>3, RecordFacts, Zenon DEF InRange, Good
  <2>2. Remain(fnr.records[n].items, RemoveAt(fnr.records[n].items, slot[2]), {slot[2]})
    BY Zenon, <2>1, RemovedUnique
  <2> QED BY <1>1, <1>3, <2>2, Zenon
<1> QED BY <1>2, <1>3, Zenon

\* An item that is not stale stays.
LEMMA RecentStays ==
    ASSUME NEW fnr, Good(fnr), NEW t, NEW slot \in StaleSlots(fnr, t),
           NEW n \in DOMAIN fnr.records, NEW j \in DOMAIN fnr.records[n].items,
           ~stale(fnr.records[n], fnr.records[n].items[j], t)
    PROVE  fnr.records[n].items[j] \in Range(RemoveSlot(fnr, slot).records[n].items)
<1>1. InRange(fnr, slot) /\ ~(n = slot[1] /\ j = slot[2])
  BY StaleInRange, Zenon DEF Good
<1>2. PICK rest : rest = RemoveSlot(fnr, slot).records[n].items
  BY Zenon
<1>3. Remain(fnr.records[n].items, rest, IF n = slot[1] THEN {slot[2]} ELSE {})
  BY <1>1, <1>2, ItemsLeft, ZenonT(30)
<1>4. \E l \in DOMAIN rest : rest[l] = fnr.records[n].items[j]
  BY <1>1, <1>3, Zenon DEF Remain
<1> QED BY <1>2, <1>4, Zenon DEF Range

\* An item that is stale no longer holds its notification back, unless the
\* arithmetic on resendWait overflows.
LEMMA StaleMaySend ==
    ASSUME NEW rn \in RecordsByName, NEW item \in Items, NEW t \in Nat,
           Fits(rn.resendWait), stale(rn, item, t), item.lastTransitionTime # Nil
    PROVE  t > item.lastTransitionTime + Hours(rn.resendWait)
<1> DEFINE w == rn.resendWait
<1>1. w \in Int /\ w + StaleTimeout \in Int /\ item.lastTransitionTime \in Nat
  BY ItemTypes, Zenon
<1>2. /\ w \in (-DurationHalf)..(DurationHalf - 1)
      /\ w + StaleTimeout \in (-DurationHalf)..(DurationHalf - 1)
  BY Zenon DEF Fits
<1>3. /\ Hours(w) = w
      /\ Int32(w + StaleTimeout) = w + StaleTimeout
      /\ Hours(w + StaleTimeout) = w + StaleTimeout
  BY <1>1, <1>2, DurationFacts, SMTT(30)
<1>4. t > item.lastTransitionTime + (w + StaleTimeout) /\ StaleTimeout \in Nat
  BY <1>3, WaitsAssumption, WidthsAssumption, Zenon DEF stale
<1> QED BY <1>1, <1>3, <1>4

\* Whatever FiringCanBeSent allows afterwards it allowed before.
LEMMA WindowStays ==
    ASSUME NEW fnr, Good(fnr), NEW t \in Nat, NEW slot \in StaleSlots(fnr, t),
           NEW new, new = RemoveSlot(fnr, slot), NEW mc, NEW name, NEW c,
           LET rn == GetNotificationRecordByName(fnr, mc, name)
           IN  rn # Nil => Fits(rn.resendWait),
           FiringCanBeSent(new, mc, name, c, t)
    PROVE  FiringCanBeSent(fnr, mc, name, c, t)
<1>1. /\ InRange(fnr, slot) /\ fnr \in FleetRecords /\ UniqueRecord(fnr)
      /\ stale(fnr.records[slot[1]], fnr.records[slot[1]].items[slot[2]], t)
  BY StaleInRange, Zenon DEF Good
<1>2. ItemsReplaced(fnr, new, slot[1], RemoveAt(fnr.records[slot[1]].items, slot[2]))
  BY <1>1, RemoveSlotGood, Zenon
<1>3. /\ new \in FleetRecords /\ new.managementCluster = fnr.managementCluster
      /\ RecordSlots(new, name) = RecordSlots(fnr, name)
  BY <1>2 DEF ItemsReplaced, RecordSlots
<1>4. mc = fnr.managementCluster /\ RecordSlots(fnr, name) # {}
  BY <1>3, Zenon DEF FiringCanBeSent, GetNotificationRecordByName
<1>5. PICK n : n = Min(RecordSlots(fnr, name))
  BY Zenon
<1>6. n \in DOMAIN fnr.records
  BY <1>1, <1>4, <1>5, SlotFacts, ZenonT(30) DEF RecordSlots
<1>7. PICK rn : rn = fnr.records[n]
  BY Zenon
<1>8. PICK rest : rest = new.records[n]
  BY ZenonT(30)
<1>9. /\ rn \in RecordsByName /\ rn # Nil /\ rest # Nil
      /\ rest.resendWait = rn.resendWait
  BY <1>1, <1>2, <1>3, <1>6, <1>7, <1>8, RecordFacts, NilAssumption, SMTT(30) DEF ItemsReplaced
<1>10. /\ GetNotificationRecordByName(fnr, mc, name) = rn
       /\ GetNotificationRecordByName(new, mc, name) = rest
  BY <1>3, <1>4, <1>5, <1>7, <1>8, ZenonT(30) DEF GetNotificationRecordByName
<1>11. Fits(rn.resendWait)
  BY <1>9, <1>10, Zenon
<1>12. CASE ItemSlots(rn, c) = {}
  BY <1>9, <1>10, <1>12, Zenon
     DEF FiringCanBeSent, HasNotificationRecordItem, GetNotificationRecordItem
<1>13. CASE ItemSlots(rn, c) # {}
  <2>1. PICK j : j = Min(ItemSlots(rn, c))
    BY Zenon
  <2>2. /\ j \in DOMAIN rn.items /\ rn.items[j] \in Items
        /\ rn.items[j].hostedClusterID = c /\ Unique(rn.items)
    <3>1. j \in ItemSlots(rn, c)
      BY <1>1, <1>6, <1>7, <1>13, <2>1, SlotFacts, SMTT(30)
    <3>2. j \in DOMAIN rn.items /\ rn.items[j].hostedClusterID = c
      BY <3>1, Zenon DEF ItemSlots
    <3> QED BY ZenonT(30), <1>1, <1>6, <1>7, <3>2, RecordFacts DEF UniqueRecord
  <2>3. GetNotificationRecordItem(fnr, mc, name, c) = rn.items[j]
    BY <1>9, <1>10, <1>13, <2>1, SMTT(30) DEF GetNotificationRecordItem
  <2> SUFFICES ASSUME rn.items[j].lastTransitionTime # Nil
               PROVE  t > rn.items[j].lastTransitionTime + Hours(rn.resendWait)
    BY Zenon, <1>9, <1>10, <2>3 DEF FiringCanBeSent
  <2>4. CASE n = slot[1] /\ j = slot[2]
    BY <1>1, <1>7, <1>9, <1>11, <2>2, <2>4, StaleMaySend, ZenonT(30)
  <2>5. CASE ~(n = slot[1] /\ j = slot[2])
    <3>1. /\ \E l \in DOMAIN rest.items : rest.items[l] = rn.items[j]
          /\ \A l \in DOMAIN rest.items :
                 \E h \in DOMAIN rn.items : rest.items[l] = rn.items[h]
      <4>1. Remain(rn.items, rest.items, IF n = slot[1] THEN {slot[2]} ELSE {})
        BY <1>1, <1>6, <1>7, <1>8, ItemsLeft, ZenonT(30)
      <4> QED BY <2>2, <2>5, <4>1, Zenon DEF Remain
    <3>2. PICK k : k = Min(ItemSlots(rest, c))
      BY Zenon
    <3>3. ItemSlots(rest, c) # {} /\ n \in DOMAIN new.records
      BY <1>2, <1>6, <2>2, <3>1, ZenonT(30) DEF ItemSlots, ItemsReplaced
    <3>4. k \in ItemSlots(rest, c)
      BY <1>3, <1>8, <3>2, <3>3, SlotFacts, SMTT(30)
    <3>5. k \in DOMAIN rest.items /\ rest.items[k].hostedClusterID = c
      BY <3>4, Zenon DEF ItemSlots
    <3>6. rest.items[k] = rn.items[j]
      BY <2>2, <3>1, <3>5, Zenon DEF Unique
    <3>7. rn.items[j] # Nil
      BY <2>2, NilAssumption, SMTT(30)
    <3>8. GetNotificationRecordItem(new, mc, name, c) = rn.items[j]
      BY <1>9, <1>10, <3>2, <3>3, <3>6, Zenon DEF GetNotificationRecordItem
    <3> QED BY <1>9, <1>10, <3>7, <3>8, SMTT(30) DEF FiringCanBeSent, HasNotificationRecordItem
  <2> QED BY <2>4, <2>5, Zenon
<1> QED BY <1>12, <1>13, Zenon

-----------------------------------------------------------------------------
(* The inductive invariant.  TypeOK needs no help; one item per cluster is *)
(* kept because every write starts from the current version, and the       *)
(* position that patchRemove is about to use was that of a stale item of   *)
(* the copy read, which time does not change.                              *)

SlotInv ==
    pc = "patchRemove" => run.copy # Nil /\ run.slot \in StaleSlots(run.copy, now)

Inv ==
    /\ TypeOK
    /\ Current # Nil => UniqueRecord(Current)
    /\ SlotInv

LEMMA VersionFacts ==
    ASSUME TypeOK
    PROVE  /\ Current \in FleetRecords \cup {Nil} /\ Cached \in FleetRecords \cup {Nil}
           /\ Len(versions) \in Nat \ {0}
BY EmptySeq, ElementOfSeq DEF TypeOK, Current, Cached

\* A write appends the new version.
LEMMA WriteFacts ==
    ASSUME TypeOK, NEW fnr \in FleetRecords \cup {Nil}, Write(fnr)
    PROVE  /\ versions' \in Seq(FleetRecords \cup {Nil}) /\ versions' # <<>>
           /\ Current' = fnr
BY AppendProperties DEF TypeOK, Write, Current

LEMMA SpendFacts ==
    ASSUME TypeOK, NEW d \in Disturbances, Spend(d)
    PROVE  budget' \in [Disturbances -> Nat]
BY DEF TypeOK, Spend

\* What someone other than the worker stores keeps the invariant.
LEMMA StoredInv ==
    ASSUME Inv, NEW fnr, fnr # Nil => Good(fnr), Write(fnr),
           NEW d \in Disturbances, Spend(d), UNCHANGED <<queued, pc, run, now>>
    PROVE  Inv'
<1>1. fnr \in FleetRecords \cup {Nil} /\ (fnr # Nil => UniqueRecord(fnr))
  BY Zenon DEF Good
<1>2. TypeOK' /\ Current' = fnr
  BY <1>1, WriteFacts, SpendFacts, Zenon DEF Inv, TypeOK
<1>3. SlotInv'
  BY Zenon DEF Inv, SlotInv
<1> QED BY <1>1, <1>2, <1>3, Zenon DEF Inv

\* When the worker is idle there is no position to speak of.
LEMMA IdleInv ==
    ASSUME Inv, pc' = "idle", run' = NoRun,
           versions' \in Seq(FleetRecords \cup {Nil}), versions' # <<>>,
           Current' # Nil => UniqueRecord(Current'),
           queued' \in BOOLEAN, UNCHANGED now, budget' \in [Disturbances -> Nat]
    PROVE  Inv'
<1>1. run' \in [copy: FleetRecords \cup {Nil}, slot: Nat \X Nat]
  BY Zenon DEF NoRun
<1> QED BY <1>1, Zenon DEF Inv, TypeOK, SlotInv

LEMMA InitInv == Init => Inv
<1> SUFFICES ASSUME Init PROVE Inv
  BY Zenon
<1>1. versions \in Seq(FleetRecords \cup {Nil}) /\ versions # <<>> /\ Current = Nil
  BY DEF Init, Current
<1>2. run \in [copy: FleetRecords \cup {Nil}, slot: Nat \X Nat]
  BY Zenon DEF Init, NoRun
<1> QED BY <1>1, <1>2, LimitsAssumption, ZenonT(30) DEF Init, Inv, TypeOK, SlotInv

LEMMA CurrentGood ==
    ASSUME Inv, Current # Nil
    PROVE  Good(Current)
BY VersionFacts, Zenon DEF Inv, Good

LEMMA ReconcileInv == Inv /\ Reconcile => Inv'
<1> SUFFICES ASSUME Inv, Reconcile PROVE Inv'
  BY Zenon
<1>1. TypeOK /\ Cached \in FleetRecords \cup {Nil} /\ now \in Nat
  BY VersionFacts, Zenon DEF Inv, TypeOK
<1>2. UNCHANGED <<versions, now, budget>> /\ queued' \in BOOLEAN
  BY <1>1, ZenonT(30) DEF Reconcile, TypeOK
<1>3. CASE UNCHANGED <<pc, run>>
  BY <1>2, <1>3 DEF Inv, TypeOK, SlotInv, Current
<1>4. CASE /\ Cached # Nil /\ StaleSlots(Cached, now) # {}
           /\ pc' = "patchRemove"
           /\ run' = [copy |-> Cached, slot |-> FirstSlot(StaleSlots(Cached, now))]
  <2>1. FirstSlot(StaleSlots(Cached, now)) \in StaleSlots(Cached, now)
    BY <1>1, <1>4, FirstSlotStale
  <2>2. run'.copy = Cached /\ run'.slot \in StaleSlots(Cached, now)
    BY <1>4, <2>1, Zenon
  <2>3. run' \in [copy: FleetRecords \cup {Nil}, slot: Nat \X Nat]
    BY <1>1, <1>4, <2>1, StaleInRange, Zenon
  <2> QED BY <1>2, <1>4, <2>2, <2>3, Zenon DEF Inv, TypeOK, SlotInv, Current
<1> QED BY <1>3, <1>4, ZenonT(30) DEF Reconcile

LEMMA PatchRemoveInv == Inv /\ patchRemove => Inv'
<1> SUFFICES ASSUME Inv, patchRemove PROVE Inv'
  BY Zenon
<1> DEFINE new == RemoveSlot(Current, run.slot)
<1>1. pc' = "idle" /\ run' = NoRun /\ UNCHANGED now
  BY Zenon DEF patchRemove
<1>2. queued' \in BOOLEAN /\ budget' \in [Disturbances -> Nat]
  BY SpendFacts, ZenonT(30) DEF patchRemove, Inv, TypeOK, Disturbances
<1>3. CASE UNCHANGED versions
  BY <1>1, <1>2, <1>3, IdleInv DEF Inv, TypeOK, Current
<1>4. CASE Current # Nil /\ InRange(Current, run.slot) /\ Write(new)
  <2>1. new \in FleetRecords /\ UniqueRecord(new)
    <3>1. Good(Current)
      BY <1>4, CurrentGood, Zenon
    <3> QED BY <1>4, <3>1, RemoveSlotKeeps, Zenon
  <2>2. versions' \in Seq(FleetRecords \cup {Nil}) /\ versions' # <<>> /\ Current' = new
    BY <1>4, <2>1, WriteFacts, Zenon DEF Inv
  <2> QED BY <1>1, <1>2, <2>1, <2>2, IdleInv, ZenonT(30)
<1> QED BY <1>3, <1>4, Zenon DEF patchRemove

\* AgentRegister adds a record behind the others.
LEMMA RegisteredRecord ==
    ASSUME NEW fnr \in FleetRecords, NEW rn \in RecordsByName, NEW new,
           new = [fnr EXCEPT !.records = Append(@, rn)]
    PROVE  /\ new \in FleetRecords
           /\ \E last : /\ last \notin DOMAIN fnr.records
                        /\ DOMAIN new.records = DOMAIN fnr.records \cup {last}
                        /\ new.records[last] = rn
                        /\ \A i \in DOMAIN fnr.records : new.records[i] = fnr.records[i]
<1> DEFINE rs == Append(fnr.records, rn)
           last == Len(fnr.records) + 1
<1>1. /\ rs \in Seq(RecordsByName)
      /\ DOMAIN rs = 1..(Len(fnr.records) + 1)
      /\ DOMAIN fnr.records = 1..Len(fnr.records)
      /\ Len(fnr.records) \in Nat
      /\ \A i \in DOMAIN fnr.records : rs[i] = fnr.records[i]
      /\ rs[Len(fnr.records) + 1] = rn
  BY RecordFacts, AppendProperties, LenProperties, SMTT(30)
<1> HIDE DEF rs
<1>2. new \in FleetRecords /\ new.records = rs
  BY <1>1, Zenon DEF FleetRecords, rs
<1>3. last \notin DOMAIN fnr.records /\ DOMAIN rs = DOMAIN fnr.records \cup {last}
  BY <1>1
<1> QED BY <1>1, <1>2, <1>3, Zenon

LEMMA AgentInv == Inv /\ Agent => Inv'
<1> SUFFICES ASSUME Inv, Agent PROVE Inv'
  BY Zenon
<1>1. "writes" \in Disturbances /\ "edits" \in Disturbances /\ now \in Nat
  BY DEF Disturbances, Inv, TypeOK
<1>2. ASSUME NEW fnr, Store(fnr), fnr # Nil => Good(fnr)
      PROVE  Inv'
  BY <1>1, <1>2, StoredInv, Zenon DEF Store
<1>3. ASSUME NEW name \in Notifications, NEW mfn \in Fleet, AgentRegister(mfn, name)
      PROVE  Inv'
  <2> DEFINE fn == GetNotificationByName(mfn, name)
             rn == [notificationName |-> name, resendWait |-> fn.resendWait, items |-> <<>>]
  <2>0. PICK new : new = [Current EXCEPT !.records = Append(@, rn)]
    BY Zenon
  <2>1. /\ Current # Nil /\ fn # Nil /\ Write(new) /\ Spend("edits")
        /\ UNCHANGED <<queued, pc, run, now>>
    BY <1>3, <2>0, Zenon DEF AgentRegister
  <2>2. fn = mfn /\ fn.resendWait \in ResendWaits
    BY <2>1, FleetAssumption, Zenon DEF GetNotificationByName, FleetNotifications
  <2>3. rn \in RecordsByName /\ rn.items = <<>>
    BY <2>2 DEF RecordsByName
  <2> HIDE DEF fn, rn
  <2>4. Current \in FleetRecords /\ UniqueRecord(Current)
    BY <2>1, CurrentGood, Zenon DEF Good
  <2>5. /\ new \in FleetRecords
        /\ \A i \in DOMAIN new.records :
               new.records[i] = rn \/ (i \in DOMAIN Current.records
                                        /\ new.records[i] = Current.records[i])
    BY <2>0, <2>3, <2>4, RegisteredRecord, SMTT(30)
  <2>6. Unique(rn.items)
    BY <2>3 DEF Unique
  <2>7. Good(new)
    BY <2>4, <2>5, <2>6, Zenon DEF Good, UniqueRecord
  <2> QED BY <1>1, <2>1, <2>7, StoredInv, Zenon
<1>4. ASSUME NEW name \in Notifications, NEW cluster \in Clusters, AgentAdd(name, cluster)
      PROVE  Inv'
  BY <1>2, <1>4, CurrentGood, AddGood, Zenon DEF AgentAdd
<1>5. ASSUME NEW name \in Notifications, NEW cluster \in Clusters,
             NEW statusFiring \in BOOLEAN, AgentRecord(name, cluster, statusFiring)
      PROVE  Inv'
  <2> DEFINE added == AddNotificationRecordItem(Current, cluster, name)
             base == IF added = Nil THEN Current ELSE added
  <2>1. Good(base)
    BY <1>5, CurrentGood, AddGood, SMTT(30) DEF AgentRecord
  <2>2. Store(UpdateNotificationRecordItem(base, name, cluster, statusFiring, now))
    BY <1>5, Zenon DEF AgentRecord
  <2> HIDE DEF base
  <2> QED BY <1>1, <1>2, <2>1, <2>2, UpdateGood, Zenon
<1>6. ASSUME NEW name \in Notifications, NEW cluster \in Clusters,
             AgentRemove(name, cluster)
      PROVE  Inv'
  BY <1>2, <1>6, CurrentGood, RemoveGood, Zenon DEF AgentRemove
<1> QED BY <1>3, <1>4, <1>5, <1>6, Zenon DEF Agent

\* The informer drops versions that are not the current one.
LEMMA WatchKeeps ==
    ASSUME TypeOK, Len(versions) > 1, versions' = Tail(versions)
    PROVE  /\ versions' \in Seq(FleetRecords \cup {Nil}) /\ versions' # <<>>
           /\ Current' = Current
<1>1. Len(versions) \in Nat /\ versions \in Seq(FleetRecords \cup {Nil}) /\ versions # <<>>
  BY VersionFacts, Zenon DEF TypeOK
<1> DEFINE rest == Tail(versions)
<1>2. /\ rest \in Seq(FleetRecords \cup {Nil})
      /\ Len(rest) = Len(versions) - 1
      /\ \A i \in 1..Len(rest) : rest[i] = versions[i + 1]
  BY <1>1, HeadTailProperties, Zenon
<1>3. versions' = rest
  BY Zenon
<1> HIDE DEF rest
<1>4. Len(rest) \in 1..Len(rest) /\ Len(rest) + 1 = Len(versions)
  BY <1>1, <1>2
<1>5. Current' = Current
  BY <1>2, <1>3, <1>4, Zenon DEF Current
<1>6. versions' \in Seq(FleetRecords \cup {Nil}) /\ versions' # <<>>
  <2>1. Len(rest) # 0
    BY <1>4
  <2> QED BY <1>2, <1>3, <2>1, EmptySeq, Zenon
<1> QED BY <1>5, <1>6, Zenon

LEMMA NextInv == Inv /\ [Next]_vars => Inv'
<1> SUFFICES ASSUME Inv, [Next]_vars PROVE Inv'
  BY Zenon
<1>1. CASE Watch
  <2>1. TypeOK /\ Len(versions) > 1 /\ versions' = Tail(versions)
    BY <1>1, Zenon DEF Watch, Inv
  <2>2. /\ versions' \in Seq(FleetRecords \cup {Nil}) /\ versions' # <<>>
        /\ Current' = Current
    BY <2>1, WatchKeeps, Zenon
  <2> QED BY <1>1, <2>2, Zenon DEF Watch, Inv, TypeOK, SlotInv
<1>2. CASE Resync
  BY <1>2, Zenon DEF Resync, Inv, TypeOK, SlotInv, Current
<1>3. CASE Restart
  <2>1. Current \in FleetRecords \cup {Nil} /\ "faults" \in Disturbances
    BY VersionFacts DEF Inv, Disturbances
  <2>2. versions' \in Seq(FleetRecords \cup {Nil}) /\ versions' # <<>> /\ Current' = Current
    BY <1>3, <2>1, SMTT(30) DEF Restart, Current
  <2>3. budget' \in [Disturbances -> Nat]
    BY <1>3, <2>1, SpendFacts, Zenon DEF Restart, Inv
  <2> QED BY <1>3, <2>2, <2>3, IdleInv, Zenon DEF Restart, Inv
<1>4. CASE CreateRecord
  <2>1. PICK fnr \in NewRecords : Write(fnr)
    BY <1>4, Zenon DEF CreateRecord
  <2>2. fnr \in FleetRecords /\ UniqueRecord(fnr)
    BY NewRecordsAssumption DEF UniqueRecord, Unique
  <2> QED BY <1>4, <2>1, <2>2, StoredInv, Zenon DEF CreateRecord, Good, Disturbances
<1>5. CASE DeleteRecord
  BY <1>5, StoredInv, Zenon DEF DeleteRecord, Disturbances
<1>6. CASE Tick
  <2>1. now \in Nat /\ now' = now + 1
    BY <1>6, Zenon DEF Tick, Inv, TypeOK
  <2>2. SlotInv'
    <3> SUFFICES ASSUME pc' = "patchRemove"
                 PROVE  run'.copy # Nil /\ run'.slot \in StaleSlots(run'.copy, now')
      BY Zenon DEF SlotInv
    <3>1. run.copy # Nil /\ run.slot \in StaleSlots(run.copy, now) /\ run' = run
      BY <1>6, Zenon DEF Tick, Inv, SlotInv
    <3>2. run.copy \in FleetRecords
      BY <3>1, Zenon DEF Inv, TypeOK
    <3> QED BY <2>1, <3>1, <3>2, StaleStays, Zenon
  <2> QED BY <1>6, <2>1, <2>2, SMTT(30) DEF Tick, Inv, TypeOK, Current
<1>7. CASE UNCHANGED vars
  BY <1>7, Zenon DEF vars, Inv, TypeOK, SlotInv, Current
<1> QED BY SMTT(30), <1>1, <1>2, <1>3, <1>4, <1>5, <1>6, <1>7, ReconcileInv, PatchRemoveInv,
           AgentInv DEF Next

THEOREM Invariance == Spec => []Inv
BY InitInv, NextInv, PTL DEF Spec

-----------------------------------------------------------------------------
\* Every reachable state is well typed, for all records and limits.
THEOREM FleetTypeCorrect == Spec => []TypeOK
<1>1. Inv => TypeOK
  BY Zenon DEF Inv
<1> QED BY <1>1, Invariance, PTL

\* Adding through the agent and removing by position, in any order, never
\* give a hosted cluster two items under a notification.
THEOREM ItemsStayUnique == Spec => []OneItemPerCluster
<1>1. Inv => OneItemPerCluster
  BY Zenon DEF Inv, OneItemPerCluster, UniqueRecord, Unique, ItemSlots
<1> QED BY <1>1, Invariance, PTL

\* What patchRemove does to a record that has not changed since it was read.
LEMMA CleanRemoval ==
    ASSUME Inv, Removes, run.copy = Current
    PROVE  /\ Good(Current) /\ run.slot \in StaleSlots(Current, now) /\ now \in Nat
           /\ Current' = RemoveSlot(Current, run.slot)
<1>1. pc = "patchRemove" /\ versions' # versions /\ now \in Nat
  BY Zenon DEF Removes, patchRemove, Inv, TypeOK
<1>2. Current # Nil /\ run.slot \in StaleSlots(Current, now)
  BY <1>1, Zenon DEF Inv, SlotInv
<1>3. Good(Current)
  BY <1>2, CurrentGood, Zenon
<1>4. InRange(Current, run.slot) /\ Write(RemoveSlot(Current, run.slot))
  BY <1>1, Zenon DEF Removes, patchRemove
<1>5. RemoveSlot(Current, run.slot) \in FleetRecords
  BY <1>3, <1>4, RemoveSlotKeeps, Zenon
<1>6. Current' = RemoveSlot(Current, run.slot)
  BY <1>4, <1>5, WriteFacts, Zenon DEF Inv
<1> QED BY <1>1, <1>2, <1>3, <1>6, Zenon

\* patchRemove loses an item that is not stale only when the record was
\* written after Reconcile read it.
THEOREM RecentItemsKept == Spec => RecentLostOnlyIfOutrun
<1>1. ASSUME Inv, RemovesRecent, run.copy = Current
      PROVE  FALSE
  <2>1. Removes
    BY <1>1, Zenon DEF RemovesRecent
  <2>2. /\ Good(Current) /\ run.slot \in StaleSlots(Current, now)
        /\ Current' = RemoveSlot(Current, run.slot)
    BY <1>1, <2>1, CleanRemoval, Zenon
  <2> QED BY <1>1, <2>2, RecentStays, SMTT(30) DEF RemovesRecent
<1>2. Inv => [RemovesRecent => run.copy # Current]_vars
  BY <1>1, Zenon
<1> QED BY <1>2, Invariance, PTL DEF RecentLostOnlyIfOutrun

\* The removal of a stale item from an unchanged record lets no notification
\* be sent that FiringCanBeSent held back before.
THEOREM ResendWindowsKept == Spec => ResendWindowKept
<1> DEFINE Kept(mc, name, c) ==
               LET rn == GetNotificationRecordByName(Current, mc, name)
               IN  /\ rn # Nil => Fits(rn.resendWait)
                   /\ FiringCanBeSent(Current', mc, name, c, now)
                   => FiringCanBeSent(Current, mc, name, c, now)
<1>1. ASSUME Inv, Removes, run.copy = Current,
             NEW mc \in MgmtClusters, NEW name \in Notifications, NEW c \in Clusters
      PROVE  Kept(mc, name, c)
  <2>1. /\ Good(Current) /\ run.slot \in StaleSlots(Current, now) /\ now \in Nat
        /\ Current' = RemoveSlot(Current, run.slot)
    BY <1>1, CleanRemoval, Zenon
  <2> QED BY <2>1, WindowStays, Zenon
<1>2. Inv => [Removes /\ run.copy = Current =>
                 \A mc \in MgmtClusters, name \in Notifications, c \in Clusters :
                     Kept(mc, name, c)]_vars
  BY <1>1, Zenon
<1> QED BY <1>2, Invariance, PTL DEF ResendWindowKept

-----------------------------------------------------------------------------
(* The record as a ledger: what the methods of the record and the JSON     *)
(* patch do to its set of entries.                                         *)

\* No two records are for the same notification.
DistinctNames(fnr) ==
    \A m, n \in DOMAIN fnr.records :
        fnr.records[m].notificationName = fnr.records[n].notificationName => m = n

Sound(fnr) == Good(fnr) /\ DistinctNames(fnr)

LEMMA SoundFacts ==
    ASSUME NEW fnr, Sound(fnr)
    PROVE  /\ fnr \in FleetRecords /\ fnr # Nil /\ UniqueRecord(fnr)
           /\ DistinctNames(fnr)
           /\ \A e : e \in EntriesOf(fnr) <=>
                  \E n \in DOMAIN fnr.records : \E i \in DOMAIN fnr.records[n].items :
                      e = EntryOf(fnr.records[n], fnr.records[n].items[i])
           /\ \A n \in DOMAIN fnr.records :
                  <<fnr.records[n].notificationName, fnr.records[n].resendWait>>
                      \in WaitsOf(fnr)
<1>1. fnr \in FleetRecords /\ UniqueRecord(fnr) /\ DistinctNames(fnr)
  BY Zenon DEF Sound, Good
<1>2. fnr # Nil
  BY <1>1, NilAssumption, Zenon
<1>3. /\ EntriesOf(fnr) =
             UNION {{EntryOf(fnr.records[n], fnr.records[n].items[i]) :
                         i \in DOMAIN fnr.records[n].items} : n \in DOMAIN fnr.records}
      /\ WaitsOf(fnr) = {<<fnr.records[n].notificationName, fnr.records[n].resendWait>> :
                             n \in DOMAIN fnr.records}
  BY <1>2, Zenon DEF EntriesOf, WaitsOf
<1>4. \A n \in DOMAIN fnr.records :
          <<fnr.records[n].notificationName, fnr.records[n].resendWait>> \in WaitsOf(fnr)
  BY <1>3, Zenon
<1> DEFINE E(n) == {EntryOf(fnr.records[n], fnr.records[n].items[i]) :
                        i \in DOMAIN fnr.records[n].items}
<1>5. ASSUME NEW e
      PROVE  e \in EntriesOf(fnr) <=>
                 \E n \in DOMAIN fnr.records : \E i \in DOMAIN fnr.records[n].items :
                     e = EntryOf(fnr.records[n], fnr.records[n].items[i])
  <2>1. \A n : e \in E(n) <=> \E i \in DOMAIN fnr.records[n].items :
                                 e = EntryOf(fnr.records[n], fnr.records[n].items[i])
    BY Zenon
  <2>2. EntriesOf(fnr) = UNION {E(n) : n \in DOMAIN fnr.records}
    BY <1>3, Zenon
  <2> HIDE DEF E
  <2>3. e \in EntriesOf(fnr) <=> \E n \in DOMAIN fnr.records : e \in E(n)
    BY <2>2, Zenon
  <2> QED BY <2>1, <2>3, Zenon
<1> QED BY <1>1, <1>2, <1>4, <1>5, Zenon

LEMMA EntryFields ==
    ASSUME NEW rn, NEW item
    PROVE  /\ EntryOf(rn, item).name = rn.notificationName
           /\ EntryOf(rn, item).cluster = item.hostedClusterID
           /\ EntryOf(rn, item).firing = item.firing
           /\ EntryOf(rn, item).resolved = item.resolved
           /\ EntryOf(rn, item).time = item.lastTransitionTime
BY Zenon DEF EntryOf

LEMMA SameEntry ==
    ASSUME NEW rn, NEW item, NEW other, NEW x, EntryOf(rn, item) = EntryOf(other, x)
    PROVE  /\ rn.notificationName = other.notificationName
           /\ item.hostedClusterID = x.hostedClusterID
<1>1. /\ EntryOf(rn, item).name = EntryOf(other, x).name
      /\ EntryOf(rn, item).cluster = EntryOf(other, x).cluster
  BY Zenon
<1> QED BY <1>1, EntryFields, Zenon

\* An entry stands at one place in the lists.
LEMMA OnePlace ==
    ASSUME NEW fnr, Sound(fnr),
           NEW m \in DOMAIN fnr.records, NEW i \in DOMAIN fnr.records[m].items,
           NEW n \in DOMAIN fnr.records, NEW j \in DOMAIN fnr.records[n].items,
           fnr.records[m].notificationName = fnr.records[n].notificationName,
           fnr.records[m].items[i].hostedClusterID = fnr.records[n].items[j].hostedClusterID
    PROVE  m = n /\ i = j
<1>1. m = n
  BY SoundFacts, Zenon DEF DistinctNames
<1> QED BY <1>1, SoundFacts, ZenonT(30) DEF UniqueRecord, Unique

\* The entries for the items of a record at some positions, and for others.
EntriesAt(rn, positions) == {EntryOf(rn, rn.items[j]) : j \in positions}

EntriesFor(rn, items) == {EntryOf(rn, item) : item \in items}

\* Other items in one record are other entries of one notification.
LEMMA ReplacedEntries ==
    ASSUME NEW fnr, Sound(fnr), NEW n, NEW new, NEW gone, NEW came,
           Replaces(fnr, new, n, gone, came)
    PROVE  /\ Sound(new) /\ WaitsOf(new) = WaitsOf(fnr)
           /\ EntriesOf(new) = (EntriesOf(fnr) \ EntriesAt(fnr.records[n], gone))
                                   \cup EntriesFor(fnr.records[n], came)
<1> DEFINE rn == fnr.records[n]
           out == EntriesAt(rn, gone)
           in == EntriesFor(rn, came)
<1>0. PICK items : /\ ItemsReplaced(fnr, new, n, items) /\ Unique(items)
                   /\ Changed(rn.items, items, gone, came)
  BY Zenon DEF Replaces
<1>1. /\ fnr \in FleetRecords /\ UniqueRecord(fnr) /\ DistinctNames(fnr) /\ fnr # Nil
      /\ n \in DOMAIN fnr.records /\ gone \subseteq DOMAIN rn.items
  BY SoundFacts, Zenon DEF Replaces
<1>2. /\ new \in FleetRecords /\ DOMAIN new.records = DOMAIN fnr.records
      /\ \A k \in DOMAIN fnr.records :
             /\ new.records[k].notificationName = fnr.records[k].notificationName
             /\ new.records[k].resendWait = fnr.records[k].resendWait
             /\ new.records[k].items = IF k = n THEN items ELSE fnr.records[k].items
  BY <1>0, Zenon DEF ItemsReplaced
<1>3. Sound(new) /\ new # Nil
  <2>1. UniqueRecord(new)
    BY <1>0, <1>1, ReplacedUnique, Zenon
  <2>2. DistinctNames(new)
    BY <1>1, <1>2, ZenonT(30) DEF DistinctNames
  <2> QED BY <1>2, <2>1, <2>2, NilAssumption, Zenon DEF Sound, Good
<1>4. WaitsOf(new) = WaitsOf(fnr)
  BY <1>1, <1>2, <1>3, ZenonT(30) DEF WaitsOf
<1>5. \A k \in DOMAIN fnr.records : \A x :
          EntryOf(new.records[k], x) = EntryOf(fnr.records[k], x)
  BY <1>2, Zenon DEF EntryOf
<1>6. ASSUME NEW e \in EntriesOf(new)
      PROVE  e \in (EntriesOf(fnr) \ out) \cup in
  <2>0. PICK k \in DOMAIN fnr.records : \E i \in DOMAIN new.records[k].items :
            e = EntryOf(fnr.records[k], new.records[k].items[i])
    <3>1. PICK k \in DOMAIN new.records : \E i \in DOMAIN new.records[k].items :
              e = EntryOf(new.records[k], new.records[k].items[i])
      BY <1>3, SoundFacts, Zenon
    <3> QED BY <1>2, <1>5, <3>1, Zenon
  <2>1. PICK i \in DOMAIN new.records[k].items :
            e = EntryOf(fnr.records[k], new.records[k].items[i])
    BY <2>0, Zenon
  <2>2. CASE k = n /\ items[i] \in came
    BY <1>2, <2>1, <2>2, Zenon DEF EntriesFor
  <2>3. CASE \E j \in DOMAIN fnr.records[k].items :
                 /\ new.records[k].items[i] = fnr.records[k].items[j]
                 /\ k = n => j \notin gone
    <3>1. PICK j \in DOMAIN fnr.records[k].items :
              /\ new.records[k].items[i] = fnr.records[k].items[j]
              /\ k = n => j \notin gone
      BY <2>3, Zenon
    <3>2. e \in EntriesOf(fnr)
      BY <2>1, <3>1, SoundFacts, Zenon
    <3>3. ASSUME NEW g \in gone, e = EntryOf(rn, rn.items[g])
          PROVE  FALSE
      <4>1. /\ fnr.records[k].notificationName = rn.notificationName
            /\ fnr.records[k].items[j].hostedClusterID = rn.items[g].hostedClusterID
        <5>1. EntryOf(fnr.records[k], fnr.records[k].items[j]) = EntryOf(rn, rn.items[g])
          BY <2>1, <3>1, <3>3, Zenon
        <5> QED BY <5>1, SameEntry, SMTT(30)
      <4>2. k = n /\ j = g
        BY <1>1, <3>3, <4>1, OnePlace, Zenon
      <4> QED BY <3>1, <3>3, <4>2, Zenon
    <3> QED BY <3>2, <3>3, Zenon DEF EntriesAt
  <2> QED BY <1>0, <1>2, <2>1, <2>2, <2>3, ZenonT(30) DEF Changed
<1>7. ASSUME NEW e \in (EntriesOf(fnr) \ out) \cup in
      PROVE  e \in EntriesOf(new)
  <2> SUFFICES \E k \in DOMAIN new.records : \E l \in DOMAIN new.records[k].items :
                   e = EntryOf(new.records[k], new.records[k].items[l])
    BY <1>3, SoundFacts, Zenon
  <2>1. CASE e \in in
    <3>1. PICK l \in DOMAIN items : e = EntryOf(rn, items[l])
      BY <1>0, <2>1, Zenon DEF Changed, EntriesFor
    <3> QED BY <1>1, <1>2, <1>5, <3>1, ZenonT(30)
  <2>2. CASE e \in EntriesOf(fnr) \ out
    <3>0. PICK k \in DOMAIN fnr.records : \E j \in DOMAIN fnr.records[k].items :
              e = EntryOf(fnr.records[k], fnr.records[k].items[j])
      BY <2>2, SoundFacts, Zenon
    <3>1. PICK j \in DOMAIN fnr.records[k].items :
              e = EntryOf(fnr.records[k], fnr.records[k].items[j])
      BY <3>0, Zenon
    <3>2. CASE k # n
      BY <1>2, <1>5, <3>1, <3>2, ZenonT(30)
    <3>3. CASE k = n
      <4>1. j \notin gone
        BY <2>2, <3>1, <3>3, Zenon DEF EntriesAt
      <4>2. PICK l \in DOMAIN items : items[l] = rn.items[j]
        BY <1>0, <3>1, <3>3, <4>1, Zenon DEF Changed
      <4>3. new.records[n].items = items /\ n \in DOMAIN new.records
        BY <1>1, <1>2, Zenon
      <4>4. e = EntryOf(new.records[n], new.records[n].items[l])
        BY <1>5, <3>1, <3>3, <4>2, <4>3, Zenon
      <4> QED BY <4>2, <4>3, <4>4, Zenon
    <3> QED BY <3>2, <3>3, Zenon
  <2> QED BY <1>7, <2>1, <2>2, Zenon
<1> QED BY <1>3, <1>4, <1>6, <1>7, Zenon

\* The record has a place for the notification.
Known(fnr, name) == \E w \in ResendWaits : <<name, w>> \in WaitsOf(fnr)

LEMMA SlotKnown ==
    ASSUME NEW fnr, Sound(fnr), NEW name, NEW n \in RecordSlots(fnr, name)
    PROVE  /\ n \in DOMAIN fnr.records /\ fnr.records[n].notificationName = name
           /\ fnr.records[n].resendWait \in ResendWaits
           /\ <<name, fnr.records[n].resendWait>> \in WaitsOf(fnr)
           /\ Known(fnr, name)
<1>1. n \in DOMAIN fnr.records /\ fnr.records[n].notificationName = name
  BY Zenon DEF RecordSlots
<1>2. <<name, fnr.records[n].resendWait>> \in WaitsOf(fnr)
  BY <1>1, SoundFacts, Zenon
<1>3. fnr.records[n] \in RecordsByName
  BY <1>1, SoundFacts, RecordFacts, Zenon
<1>4. fnr.records[n].resendWait \in ResendWaits
  BY <1>3, Zenon DEF RecordsByName
<1> QED BY <1>1, <1>2, <1>4, Zenon DEF Known

\* The entries of a notification and a cluster are the items that the
\* methods look for in its record.
LEMMA EntryPlace ==
    ASSUME NEW fnr, Sound(fnr), NEW name, NEW n \in RecordSlots(fnr, name), NEW cluster,
           NEW e \in EntriesOf(fnr), e.name = name, e.cluster = cluster
    PROVE  \E j \in ItemSlots(fnr.records[n], cluster) :
               e = EntryOf(fnr.records[n], fnr.records[n].items[j])
<1>1. PICK m \in DOMAIN fnr.records : \E j \in DOMAIN fnr.records[m].items :
          e = EntryOf(fnr.records[m], fnr.records[m].items[j])
  BY SoundFacts, Zenon
<1>2. PICK j \in DOMAIN fnr.records[m].items :
          e = EntryOf(fnr.records[m], fnr.records[m].items[j])
  BY <1>1, Zenon
<1>3. /\ fnr.records[m].notificationName = name
      /\ fnr.records[m].items[j].hostedClusterID = cluster
  BY <1>2, EntryFields, SMTT(30)
<1>4. m = n
  <2>1. n \in DOMAIN fnr.records /\ fnr.records[n].notificationName = name
    BY SlotKnown, Zenon
  <2> QED BY <1>3, <2>1, SoundFacts, Zenon DEF DistinctNames
<1> QED BY <1>2, <1>3, <1>4, Zenon DEF ItemSlots

LEMMA AddedEntry ==
    ASSUME NEW fnr, Sound(fnr), NEW name \in Notifications, NEW cluster \in Clusters,
           NEW new, new = AddNotificationRecordItem(fnr, cluster, name), new # Nil
    PROVE  /\ Sound(new) /\ WaitsOf(new) = WaitsOf(fnr) /\ Known(fnr, name)
           /\ \A e \in EntriesOf(fnr) : ~(e.name = name /\ e.cluster = cluster)
           /\ EntriesOf(new) = EntriesOf(fnr) \cup {Ledger!Blank(name, cluster)}
<1>1. PICK n \in RecordSlots(fnr, name) :
          /\ ItemSlots(fnr.records[n], cluster) = {}
          /\ Replaces(fnr, new, n, {}, {NewItem(cluster)})
  BY AddReplaces, Zenon DEF Sound
<1>2. /\ Sound(new) /\ WaitsOf(new) = WaitsOf(fnr)
      /\ EntriesOf(new) =
             (EntriesOf(fnr) \ EntriesAt(fnr.records[n], {}))
                 \cup EntriesFor(fnr.records[n], {NewItem(cluster)})
  BY <1>1, ReplacedEntries, SMTT(30)
<1>3. EntryOf(fnr.records[n], NewItem(cluster)) = Ledger!Blank(name, cluster)
  BY SlotKnown, Zenon DEF EntryOf, NewItem, Ledger!Blank
<1>4. EntriesOf(new) = EntriesOf(fnr) \cup {Ledger!Blank(name, cluster)}
  BY <1>2, <1>3, Zenon DEF EntriesAt, EntriesFor
<1>5. \A e \in EntriesOf(fnr) : ~(e.name = name /\ e.cluster = cluster)
  BY <1>1, EntryPlace, Zenon
<1> QED BY <1>2, <1>4, <1>5, SlotKnown, Zenon

LEMMA NotedEntry ==
    ASSUME NEW fnr, Sound(fnr), NEW name, NEW cluster, NEW statusFiring \in BOOLEAN,
           now \in Nat, NEW new,
           new = UpdateNotificationRecordItem(fnr, name, cluster, statusFiring, now),
           new # Nil
    PROVE  /\ Sound(new) /\ WaitsOf(new) = WaitsOf(fnr) /\ Known(fnr, name)
           /\ \E e \in EntriesOf(fnr) :
                  /\ e.name = name /\ e.cluster = cluster
                  /\ EntriesOf(new) =
                         (EntriesOf(fnr) \ {e}) \cup {Ledger!Noted(e, statusFiring)}
<1>1. PICK n \in RecordSlots(fnr, name) : \E j \in ItemSlots(fnr.records[n], cluster) :
          Replaces(fnr, new, n, {j}, {Counted(fnr.records[n].items[j], statusFiring, now)})
  BY UpdateReplaces, Zenon DEF Sound
<1>2. PICK j \in ItemSlots(fnr.records[n], cluster) :
          Replaces(fnr, new, n, {j}, {Counted(fnr.records[n].items[j], statusFiring, now)})
  BY <1>1, Zenon
<1> DEFINE rn == fnr.records[n]
           item == rn.items[j]
           e == EntryOf(rn, item)
<1>3. /\ Sound(new) /\ WaitsOf(new) = WaitsOf(fnr)
      /\ EntriesOf(new) = (EntriesOf(fnr) \ EntriesAt(rn, {j}))
                              \cup EntriesFor(rn, {Counted(item, statusFiring, now)})
  BY <1>2, ReplacedEntries, SMTT(30)
<1>4. EntryOf(rn, Counted(item, statusFiring, now)) = Ledger!Noted(e, statusFiring)
  BY ZenonT(30) DEF EntryOf, Counted, Ledger!Noted
<1>5. e \in EntriesOf(fnr) /\ e.name = name /\ e.cluster = cluster
  <2>1. n \in DOMAIN fnr.records /\ rn.notificationName = name
    BY SlotKnown, Zenon
  <2>2. j \in DOMAIN rn.items /\ item.hostedClusterID = cluster
    BY Zenon DEF ItemSlots
  <2>3. e.name = name /\ e.cluster = cluster
    BY <2>1, <2>2, EntryFields, SMTT(30)
  <2>4. e \in EntriesOf(fnr)
    BY <2>1, <2>2, SoundFacts, Zenon
  <2> QED BY <2>3, <2>4, Zenon
<1>6. EntriesOf(new) = (EntriesOf(fnr) \ {e}) \cup {Ledger!Noted(e, statusFiring)}
  BY <1>3, <1>4, Zenon DEF EntriesAt, EntriesFor
<1> HIDE DEF e
<1> QED BY <1>3, <1>5, <1>6, SlotKnown, Zenon

LEMMA RemovedEntry ==
    ASSUME NEW fnr, Sound(fnr), NEW slot, InRange(fnr, slot),
           NEW new, new = RemoveSlot(fnr, slot)
    PROVE  LET e == EntryOf(fnr.records[slot[1]], fnr.records[slot[1]].items[slot[2]])
           IN  /\ Sound(new) /\ WaitsOf(new) = WaitsOf(fnr)
               /\ e \in EntriesOf(fnr) /\ EntriesOf(new) = EntriesOf(fnr) \ {e}
<1> DEFINE rn == fnr.records[slot[1]]
           e == EntryOf(rn, rn.items[slot[2]])
<1>1. Replaces(fnr, new, slot[1], {slot[2]}, {})
  BY RemoveSlotGood, Zenon DEF Sound
<1>2. /\ Sound(new) /\ WaitsOf(new) = WaitsOf(fnr)
      /\ EntriesOf(new) = (EntriesOf(fnr) \ EntriesAt(rn, {slot[2]}))
                              \cup EntriesFor(rn, {})
  BY <1>1, ReplacedEntries, SMTT(30)
<1>3. EntriesOf(new) = EntriesOf(fnr) \ {e}
  BY <1>2, Zenon DEF EntriesAt, EntriesFor
<1>4. e \in EntriesOf(fnr)
  BY SoundFacts, Zenon DEF InRange
<1> QED BY <1>2, <1>3, <1>4, Zenon

-----------------------------------------------------------------------------
(* The refinement, step by step.  Lookups by name find the one record that *)
(* has it as long as new records do not repeat a name.                     *)

LedgerInv == Inv /\ (Current # Nil => DistinctNames(Current))

LEMMA CurrentSound ==
    ASSUME LedgerInv, Current # Nil
    PROVE  Sound(Current)
BY CurrentGood, Zenon DEF LedgerInv, Sound

\* The ledger's arithmetic is that of the record.
LEMMA LedgerHours ==
    /\ \A x : Ledger!Hours(x) = Hours(x)
    /\ \A x : Ledger!Int32(x) = Int32(x)
BY Zenon DEF Ledger!Hours, Hours, Ledger!Int32, Int32

LEMMA LedgerViews ==
    ASSUME NEW name
    PROVE  /\ Known(Current, name) => Ledger!WaitsOf(name) # {}
           /\ \A e \in EntriesOf(Current) : \A cluster :
                  e.name = name /\ e.cluster = cluster <=> e \in Ledger!EntriesOf(name, cluster)
           /\ \A cluster : Ledger!EntriesOf(name, cluster) \subseteq EntriesOf(Current)
BY Zenon DEF Known, Ledger!WaitsOf, Ledger!EntriesOf

\* What the reconciler is about to remove is stale in the copy it read.
LEMMA AimIsTaken ==
    ASSUME LedgerInv
    PROVE  Ledger!Aimed
<1> DEFINE rn == Current.records[run.slot[1]]
           e == EntryOf(rn, rn.items[run.slot[2]])
<1>1. CASE pc # "patchRemove" \/ Current # run.copy
  BY <1>1, Zenon DEF Ledger!Aimed, AimOf
<1>2. CASE pc = "patchRemove" /\ Current = run.copy
  <2>1. /\ Current # Nil /\ run.slot \in StaleSlots(Current, now)
    BY <1>2, Zenon DEF LedgerInv, Inv, SlotInv
  <2>2. Sound(Current) /\ Current \in FleetRecords
    BY <2>1, CurrentSound, SoundFacts, Zenon
  <2>3. InRange(Current, run.slot) /\ stale(rn, rn.items[run.slot[2]], now)
    BY <2>1, <2>2, StaleInRange, Zenon
  <2>4. run.slot[1] \in DOMAIN Current.records /\ run.slot[2] \in DOMAIN rn.items
    BY <2>3, Zenon DEF InRange
  <2>5. e \in EntriesOf(Current)
    BY <2>2, <2>4, SoundFacts, Zenon
  <2>6. run.slot[1] \in RecordSlots(Current, rn.notificationName)
    BY <2>4, Zenon DEF RecordSlots
  <2>7. rn.resendWait \in Ledger!WaitsOf(rn.notificationName)
    BY <2>2, <2>6, SlotKnown, Zenon DEF Ledger!WaitsOf
  <2>8. Ledger!Outlived(e)
    <3>1. e.name = rn.notificationName /\ e.time = rn.items[run.slot[2]].lastTransitionTime
      BY Zenon DEF EntryOf
    <3> HIDE DEF e
    <3> QED BY <2>3, <2>7, <3>1, LedgerHours, Zenon DEF Ledger!Outlived, stale
  <2>9. AimOf(Current, run.copy, run.slot) = {e}
    BY <1>2, Zenon DEF AimOf
  <2> HIDE DEF e
  <2> QED BY <1>2, <2>5, <2>8, <2>9, Zenon DEF Ledger!Aimed
<1> QED BY <1>1, <1>2, Zenon

\* A write by someone other than the worker.
LEMMA Disturbed ==
    ASSUME Inv, Inv', NEW fnr, fnr \in FleetRecords \cup {Nil},
           fnr # Nil => DistinctNames(fnr), Write(fnr), UNCHANGED <<pc, run, now>>
    PROVE  LedgerInv' /\ Ledger!Disturb /\ Current' = fnr
<1>1. Current' = fnr
  BY WriteFacts, Zenon DEF Inv
<1>2. LedgerInv'
  BY <1>1, Zenon DEF LedgerInv
<1>3. Ledger!Aimed'
  BY <1>2, AimIsTaken, PTL
<1>4. (Len(versions) > 1)'
  <2>1. versions \in Seq(FleetRecords \cup {Nil}) /\ Len(versions) \in Nat \ {0}
    BY VersionFacts, Zenon DEF Inv, TypeOK
  <2>2. Len(versions') = Len(versions) + 1
    BY <2>1, AppendProperties DEF Write
  <2> QED BY <2>1, <2>2
<1> QED BY <1>1, <1>2, <1>3, <1>4, Zenon DEF Ledger!Disturb

\* FiringCanBeSent holds back what the ledger holds back.
LEMMA SentUnlessHeld ==
    ASSUME LedgerInv, Current # Nil, NEW name, NEW cluster,
           FiringCanBeSent(Current, Current.managementCluster, name, cluster, now)
    PROVE  ~Ledger!Held(name, cluster)
<1> SUFFICES ASSUME Ledger!Held(name, cluster) PROVE FALSE
  BY Zenon
<1>1. PICK e \in Ledger!EntriesOf(name, cluster), w \in Ledger!WaitsOf(name) :
          e.time # Nil /\ now <= e.time + Hours(w)
  BY LedgerHours, Zenon DEF Ledger!Held
<1>2. Sound(Current) /\ Current \in FleetRecords /\ UniqueRecord(Current) /\ now \in Nat
  BY CurrentSound, SoundFacts, Zenon DEF LedgerInv, Inv, TypeOK
<1>3. PICK n \in DOMAIN Current.records :
          <<name, w>> = <<Current.records[n].notificationName, Current.records[n].resendWait>>
  <2>1. <<name, w>> \in WaitsOf(Current)
    BY Zenon DEF Ledger!WaitsOf
  <2>2. WaitsOf(Current) =
            {<<Current.records[i].notificationName, Current.records[i].resendWait>> :
                 i \in DOMAIN Current.records}
    BY Zenon DEF WaitsOf
  <2> QED BY <2>1, <2>2, Zenon
<1>4. n \in RecordSlots(Current, name) /\ Current.records[n].resendWait = w
  BY <1>3, SMTT(30) DEF RecordSlots
<1>5. PICK m : m = Min(RecordSlots(Current, name))
  BY Zenon
<1>6. m \in RecordSlots(Current, name)
  BY <1>2, <1>4, <1>5, SlotFacts, Zenon
<1>7. m = n
  BY <1>2, <1>4, <1>6, SoundFacts, Zenon DEF DistinctNames, RecordSlots
<1>8. PICK rn : rn = Current.records[n]
  BY Zenon
<1>9. GetNotificationRecordByName(Current, Current.managementCluster, name) = rn
  BY <1>4, <1>5, <1>7, <1>8, Zenon DEF GetNotificationRecordByName
<1>10. rn \in RecordsByName /\ rn # Nil /\ rn.resendWait = w
  BY <1>2, <1>4, <1>8, RecordFacts, NilAssumption, Zenon DEF RecordSlots
<1>11. e \in EntriesOf(Current) /\ e.name = name /\ e.cluster = cluster
  BY Zenon DEF Ledger!EntriesOf
<1>12. PICK j \in ItemSlots(rn, cluster) : e = EntryOf(rn, rn.items[j])
  BY <1>2, <1>4, <1>8, <1>11, EntryPlace, SMTT(30)
<1>13. PICK k : k = Min(ItemSlots(rn, cluster))
  BY Zenon
<1>14. k \in ItemSlots(rn, cluster)
  <2>1. n \in DOMAIN Current.records /\ ItemSlots(Current.records[n], cluster) # {}
    BY <1>4, <1>8, <1>12, Zenon DEF RecordSlots
  <2>2. Min(ItemSlots(Current.records[n], cluster)) \in ItemSlots(Current.records[n], cluster)
    BY <1>2, <2>1, SlotFacts, Zenon
  <2> QED BY <1>8, <1>13, <2>2, Zenon
<1>15. k = j /\ rn.items[j] \in Items /\ rn.items[j] # Nil
  <2>1. n \in DOMAIN Current.records
    BY <1>4, Zenon DEF RecordSlots
  <2>2. /\ j \in DOMAIN rn.items /\ k \in DOMAIN rn.items
        /\ rn.items[j].hostedClusterID = rn.items[k].hostedClusterID
    BY <1>12, <1>14, Zenon DEF ItemSlots
  <2>3. Unique(rn.items) /\ rn.items[j] \in Items
    BY <1>2, <1>8, <2>1, <2>2, RecordFacts, Zenon DEF UniqueRecord
  <2> QED BY <2>2, <2>3, NilAssumption, Zenon DEF Unique
<1>16. GetNotificationRecordItem(Current, Current.managementCluster, name, cluster) = rn.items[j]
  BY <1>9, <1>10, <1>12, <1>13, <1>15, Zenon DEF GetNotificationRecordItem
<1>17. e.time = rn.items[j].lastTransitionTime
  BY <1>12, Zenon DEF EntryOf
<1>18. now > e.time + Hours(w)
  BY <1>1, <1>9, <1>10, <1>15, <1>16, <1>17, Zenon
     DEF FiringCanBeSent, HasNotificationRecordItem
<1>19. e.time \in Nat /\ Hours(w) \in Int
  <2>1. w \in Int /\ e.time \in Nat
    BY <1>1, <1>10, <1>15, <1>17, ItemTypes, Zenon
  <2> QED BY <2>1, DurationFacts, Zenon
<1> QED BY <1>1, <1>2, <1>18, <1>19

LEMMA AddRefines ==
    ASSUME LedgerInv, Inv', NEW name \in Notifications, NEW cluster \in Clusters,
           AgentAdd(name, cluster)
    PROVE  LedgerInv' /\ Ledger!Enter(name, cluster)
<1>1. PICK new : new = AddNotificationRecordItem(Current, cluster, name)
  BY Zenon
<1>2. Current # Nil /\ new # Nil /\ Write(new) /\ UNCHANGED <<pc, run, now>>
  BY <1>1, Zenon DEF AgentAdd, Store
<1>3. /\ Sound(new) /\ WaitsOf(new) = WaitsOf(Current) /\ Known(Current, name)
      /\ \A e \in EntriesOf(Current) : ~(e.name = name /\ e.cluster = cluster)
      /\ EntriesOf(new) = EntriesOf(Current) \cup {Ledger!Blank(name, cluster)}
  <2>1. Sound(Current)
    BY <1>2, CurrentSound, Zenon
  <2> QED BY <1>1, <1>2, <2>1, AddedEntry, SMTT(30)
<1>4. LedgerInv' /\ Ledger!Disturb /\ Current' = new
  BY <1>2, <1>3, SoundFacts, Disturbed, Zenon DEF LedgerInv
<1>5. Ledger!WaitsOf(name) # {} /\ Ledger!EntriesOf(name, cluster) = {}
  BY <1>3, LedgerViews, Zenon
<1>6. (Current # Nil)' = (Current # Nil)
  BY <1>2, <1>4, Zenon
<1> QED BY <1>3, <1>4, <1>5, <1>6, Zenon DEF Ledger!Enter

LEMMA RemoveRefines ==
    ASSUME LedgerInv, Inv', NEW name, NEW cluster, AgentRemove(name, cluster)
    PROVE  LedgerInv' /\ \E e \in EntriesOf(Current) : Ledger!Strike(e)
<1>1. PICK new : new = RemoveNotificationRecordItem(Current, name, cluster)
  BY Zenon
<1>2. Current # Nil /\ new # Nil /\ Write(new) /\ UNCHANGED <<pc, run, now>>
  BY <1>1, Zenon DEF AgentRemove, Store
<1>3. Sound(Current)
  BY <1>2, CurrentSound, Zenon
<1>4. PICK slot : InRange(Current, slot) /\ new = RemoveSlot(Current, slot)
  BY <1>1, <1>2, <1>3, RemoveFinds, Zenon DEF Sound
<1>5. PICK e \in EntriesOf(Current) :
          /\ Sound(new) /\ WaitsOf(new) = WaitsOf(Current)
          /\ EntriesOf(new) = EntriesOf(Current) \ {e}
  BY <1>3, <1>4, RemovedEntry, SMTT(30)
<1>6. LedgerInv' /\ Ledger!Disturb /\ Current' = new
  BY <1>2, <1>5, SoundFacts, Disturbed, Zenon DEF LedgerInv
<1>7. (Current # Nil)' = (Current # Nil)
  BY <1>2, <1>6, Zenon
<1> QED BY <1>5, <1>6, <1>7, Zenon DEF Ledger!Strike

\* AgentRecord updates the item that is there, or a new one.
LEMMA RecordRefines ==
    ASSUME LedgerInv, Inv', NEW name \in Notifications, NEW cluster \in Clusters,
           NEW statusFiring \in BOOLEAN, AgentRecord(name, cluster, statusFiring)
    PROVE  LedgerInv' /\ Ledger!Note(name, cluster, statusFiring)
<1> DEFINE old == EntriesOf(Current)
           blank == Ledger!Blank(name, cluster)
           chosen == IF Ledger!EntriesOf(name, cluster) = {} THEN {blank}
                     ELSE Ledger!EntriesOf(name, cluster)
<1>1. PICK added : added = AddNotificationRecordItem(Current, cluster, name)
  BY Zenon
<1>2. PICK base : base = IF added = Nil THEN Current ELSE added
  BY Zenon
<1>3. PICK new : new = UpdateNotificationRecordItem(base, name, cluster, statusFiring, now)
  BY Zenon
<1>4. /\ Current # Nil /\ new # Nil /\ Write(new) /\ UNCHANGED <<pc, run, now>>
      /\ statusFiring => FiringCanBeSent(Current, Current.managementCluster, name, cluster, now)
  BY <1>1, <1>2, <1>3, Zenon DEF AgentRecord, Store
<1>5. Sound(Current) /\ now \in Nat
  BY <1>4, CurrentSound, Zenon DEF LedgerInv, Inv, TypeOK
<1>6. /\ Sound(base) /\ WaitsOf(base) = WaitsOf(Current)
      /\ \/ base = Current
         \/ /\ EntriesOf(base) = old \cup {blank}
            /\ \A e \in old : ~(e.name = name /\ e.cluster = cluster)
  <2>1. CASE added = Nil
    BY <1>2, <1>5, <2>1, Zenon
  <2>2. CASE added # Nil
    <3>1. /\ Sound(added) /\ WaitsOf(added) = WaitsOf(Current)
          /\ EntriesOf(added) = old \cup {blank}
          /\ \A e \in old : ~(e.name = name /\ e.cluster = cluster)
      BY <1>1, <1>5, <2>2, AddedEntry, SMTT(30)
    <3> QED BY <1>2, <2>2, <3>1, Zenon
  <2> QED BY <2>1, <2>2, Zenon
<1>7. /\ Sound(new) /\ WaitsOf(new) = WaitsOf(base) /\ Known(base, name)
      /\ \E e \in EntriesOf(base) :
             /\ e.name = name /\ e.cluster = cluster
             /\ EntriesOf(new) = (EntriesOf(base) \ {e}) \cup {Ledger!Noted(e, statusFiring)}
  BY <1>3, <1>4, <1>5, <1>6, NotedEntry, SMTT(30)
<1>8. PICK e \in EntriesOf(base) :
          /\ e.name = name /\ e.cluster = cluster
          /\ EntriesOf(new) = (EntriesOf(base) \ {e}) \cup {Ledger!Noted(e, statusFiring)}
  BY <1>7, Zenon
<1>9. \E x \in chosen : EntriesOf(new) = (old \ {x}) \cup {Ledger!Noted(x, statusFiring)}
  <2>1. CASE base = Current
    <3>1. e \in Ledger!EntriesOf(name, cluster)
      BY <1>8, <2>1, LedgerViews, Zenon
    <3>2. e \in chosen
      BY <3>1, Zenon
    <3> QED BY <1>8, <2>1, <3>2, Zenon
  <2>2. CASE /\ EntriesOf(base) = old \cup {blank}
             /\ \A x \in old : ~(x.name = name /\ x.cluster = cluster)
    <3>1. e = blank
      BY <1>8, <2>2, Zenon
    <3>2. Ledger!EntriesOf(name, cluster) = {}
      BY <2>2, LedgerViews, Zenon
    <3>3. blank \in chosen
      BY <3>2, Zenon
    <3> HIDE DEF blank, chosen, old
    <3>4. EntriesOf(new) = (old \ {blank}) \cup {Ledger!Noted(blank, statusFiring)}
      BY <1>8, <2>2, <3>1, Zenon
    <3> QED BY <3>3, <3>4, Zenon
  <2> QED BY <1>6, <2>1, <2>2, Zenon
<1>10. LedgerInv' /\ Ledger!Disturb /\ Current' = new
  BY <1>4, <1>7, SoundFacts, Disturbed, Zenon DEF LedgerInv
<1>11. Ledger!WaitsOf(name) # {} /\ (statusFiring => ~Ledger!Held(name, cluster))
  <2>1. Known(Current, name)
    BY <1>6, <1>7, Zenon DEF Known
  <2> QED BY <1>4, <2>1, LedgerViews, SentUnlessHeld, Zenon
<1>12. (Current # Nil)' = (Current # Nil) /\ WaitsOf(Current') = WaitsOf(Current)
  BY <1>4, <1>6, <1>7, <1>10, Zenon
<1> HIDE DEF blank
<1> QED BY <1>9, <1>10, <1>11, <1>12, Zenon DEF Ledger!Note, blank

\* AgentRegister gives an unknown notification an empty record.
LEMMA RegisterRefines ==
    ASSUME LedgerInv, Inv', NEW name \in Notifications, NEW mfn \in Fleet,
           AgentRegister(mfn, name)
    PROVE  LedgerInv' /\ \E w \in ResendWaits : Ledger!Register(name, w)
<1> DEFINE fn == GetNotificationByName(mfn, name)
           rn == [notificationName |-> name, resendWait |-> fn.resendWait, items |-> <<>>]
           w == fn.resendWait
<1>1. PICK new : new = [Current EXCEPT !.records = Append(@, rn)]
  BY Zenon
<1>2. /\ Current # Nil /\ fn # Nil /\ Write(new) /\ UNCHANGED <<pc, run, now>>
      /\ RecordSlots(Current, name) = {}
  BY <1>1, Zenon DEF AgentRegister
<1>3. fn = mfn /\ w \in ResendWaits
  BY <1>2, FleetAssumption, Zenon DEF GetNotificationByName, FleetNotifications
<1>4. /\ rn \in RecordsByName /\ rn.items = <<>>
      /\ rn.notificationName = name /\ rn.resendWait = w
  BY <1>3 DEF RecordsByName
<1> HIDE DEF fn, rn, w
<1>5. Sound(Current) /\ Current \in FleetRecords
  BY <1>2, CurrentSound, SoundFacts, Zenon
<1>6. new \in FleetRecords /\ new # Nil
  BY <1>1, <1>4, <1>5, RegisteredRecord, NilAssumption, SMTT(30)
<1>7. PICK last :
          /\ last \notin DOMAIN Current.records
          /\ DOMAIN new.records = DOMAIN Current.records \cup {last}
          /\ new.records[last] = rn
          /\ \A i \in DOMAIN Current.records : new.records[i] = Current.records[i]
  BY <1>1, <1>4, <1>5, RegisteredRecord, SMTT(30)
<1>8. \A i \in DOMAIN Current.records : Current.records[i].notificationName # name
  BY <1>2, Zenon DEF RecordSlots
<1>9. DistinctNames(new)
  BY <1>4, <1>5, <1>7, <1>8, SoundFacts, ZenonT(30) DEF DistinctNames
<1>10. LedgerInv' /\ Ledger!Disturb /\ Current' = new
  BY <1>2, <1>6, <1>9, Disturbed, Zenon DEF LedgerInv
<1>11. Sound(new)
  <2>1. Good(new)
    BY <1>6, <1>10, Zenon DEF Good, LedgerInv, Inv
  <2> QED BY <1>9, <2>1, Zenon DEF Sound
<1>12. EntriesOf(new) = EntriesOf(Current)
  <2>1. DOMAIN rn.items = {}
    BY <1>4
  <2>2. ASSUME NEW e
        PROVE  e \in EntriesOf(new) <=> e \in EntriesOf(Current)
    <3>1. e \in EntriesOf(new) <=>
              \E n \in DOMAIN new.records : \E i \in DOMAIN new.records[n].items :
                  e = EntryOf(new.records[n], new.records[n].items[i])
      BY <1>11, SoundFacts, Zenon
    <3>2. e \in EntriesOf(Current) <=>
              \E n \in DOMAIN Current.records : \E i \in DOMAIN Current.records[n].items :
                  e = EntryOf(Current.records[n], Current.records[n].items[i])
      BY <1>5, SoundFacts, Zenon
    <3> QED BY <1>7, <2>1, <3>1, <3>2, ZenonT(30)
  <2> QED BY <2>2, Zenon
<1>13. WaitsOf(new) = WaitsOf(Current) \cup {<<name, w>>}
  BY <1>2, <1>4, <1>6, <1>7, ZenonT(30) DEF WaitsOf
<1>14. Ledger!WaitsOf(name) = {}
  <2> SUFFICES ASSUME NEW x, <<name, x>> \in WaitsOf(Current) PROVE FALSE
    BY Zenon DEF Ledger!WaitsOf
  <2>1. PICK i \in DOMAIN Current.records :
            <<name, x>> = <<Current.records[i].notificationName, Current.records[i].resendWait>>
    BY <1>2, Zenon DEF WaitsOf
  <2> QED BY <1>8, <2>1, SMTT(30)
<1>15. (Current # Nil)' = (Current # Nil)
  BY <1>2, <1>6, <1>10, Zenon
<1>16. Ledger!Register(name, w)
  BY <1>2, <1>10, <1>12, <1>13, <1>14, <1>15, Zenon DEF Ledger!Register
<1> QED BY <1>3, <1>10, <1>16, Zenon

LEMMA CreateRefines ==
    ASSUME LedgerInv, Inv', \A fnr \in NewRecords : DistinctNames(fnr), CreateRecord
    PROVE  LedgerInv' /\ Ledger!Open
<1>1. PICK fnr \in NewRecords : Write(fnr)
  BY Zenon DEF CreateRecord
<1>2. Current = Nil /\ UNCHANGED <<pc, run, now>>
  BY Zenon DEF CreateRecord
<1>3. /\ fnr \in FleetRecords /\ fnr # Nil /\ DistinctNames(fnr)
      /\ \A i \in DOMAIN fnr.records : fnr.records[i].items = <<>>
  BY NewRecordsAssumption, NilAssumption, Zenon
<1>4. LedgerInv' /\ Ledger!Disturb /\ Current' = fnr
  BY <1>1, <1>2, <1>3, Disturbed, Zenon DEF LedgerInv
<1>5. Sound(fnr)
  BY <1>3, <1>4, Zenon DEF LedgerInv, Inv, Good, Sound
<1>6. EntriesOf(fnr) = {} /\ EntriesOf(Current) = {}
  <2>1. \A i \in DOMAIN fnr.records : DOMAIN fnr.records[i].items = {}
    BY <1>3
  <2>2. \A e : e \notin EntriesOf(fnr)
    BY <1>5, <2>1, SoundFacts, Zenon
  <2> QED BY <1>2, <2>2, Zenon DEF EntriesOf
<1>7. WaitsOf(fnr) = {<<fnr.records[n].notificationName, fnr.records[n].resendWait>> :
                          n \in DOMAIN fnr.records}
  BY <1>3, Zenon DEF WaitsOf
<1>8. \A n \in DOMAIN fnr.records :
          fnr.records[n].notificationName \in Notifications /\ fnr.records[n].resendWait \in ResendWaits
  BY <1>3, RecordFacts, Zenon DEF RecordsByName
<1>9. WaitsOf(fnr) \subseteq Notifications \X ResendWaits
  BY <1>7, <1>8, SMTT(30)
<1>10. ASSUME NEW x \in WaitsOf(fnr), NEW y \in WaitsOf(fnr), x[1] = y[1]
       PROVE  x = y
  <2>1. PICK m \in DOMAIN fnr.records :
            x = <<fnr.records[m].notificationName, fnr.records[m].resendWait>>
    BY <1>7, Zenon
  <2>2. PICK n \in DOMAIN fnr.records :
            y = <<fnr.records[n].notificationName, fnr.records[n].resendWait>>
    BY <1>7, Zenon
  <2>3. x[1] = fnr.records[m].notificationName /\ y[1] = fnr.records[n].notificationName
    BY <2>1, <2>2
  <2>4. m = n
    BY <1>3, <1>10, <2>3, Zenon DEF DistinctNames
  <2> QED BY <2>1, <2>2, <2>4, Zenon
<1> QED BY <1>2, <1>3, <1>4, <1>6, <1>9, <1>10, Zenon DEF Ledger!Open

LEMMA DeleteRefines ==
    ASSUME LedgerInv, Inv', DeleteRecord
    PROVE  LedgerInv' /\ Ledger!Close
<1>1. Current # Nil /\ Write(Nil) /\ UNCHANGED <<pc, run, now>>
  BY Zenon DEF DeleteRecord
<1>2. LedgerInv' /\ Ledger!Disturb /\ Current' = Nil
  BY <1>1, Disturbed, Zenon DEF LedgerInv
<1>3. EntriesOf(Current') = {} /\ WaitsOf(Current') = {}
  BY <1>2, Zenon DEF EntriesOf, WaitsOf
<1> QED BY <1>1, <1>2, <1>3, Zenon DEF Ledger!Close

\* Reconcile takes aim at a stale item of its copy, which is the record
\* itself unless the cache is behind.
LEMMA OneOrMore ==
    \A k \in Nat \ {0} : ~(k > 1) => k = 1
OBVIOUS

LEMMA ReconcileRefines ==
    ASSUME LedgerInv, Inv', Reconcile
    PROVE  LedgerInv' /\ (Ledger!TakeAim \/ UNCHANGED Ledger!vars)
<1>1. versions' = versions /\ now' = now /\ Current' = Current
  BY Zenon DEF Reconcile, Current
<1>2. LedgerInv'
  BY <1>1, Zenon DEF LedgerInv
<1>3. CASE UNCHANGED <<pc, run>>
  <2>1. UNCHANGED Ledger!vars
    BY <1>1, <1>3, Zenon DEF Ledger!vars
  <2> QED BY <1>2, <2>1, Zenon
<1>4. CASE /\ Cached # Nil /\ pc' = "patchRemove"
           /\ run' = [copy |-> Cached, slot |-> FirstSlot(StaleSlots(Cached, now))]
  <2>1. pc = "idle" /\ run'.copy = Cached
    BY <1>4, Zenon DEF Reconcile
  <2>2. Ledger!Aimed'
    BY <1>2, AimIsTaken, PTL
  <2>3. (IF pc = "patchRemove" THEN AimOf(Current, run.copy, run.slot) ELSE {})' = {}
            => Len(versions) > 1
    <3> SUFFICES ASSUME ~(Len(versions) > 1)
                 PROVE  AimOf(Current', run'.copy, run'.slot) # {}
      BY <1>4, Zenon
    <3>0. Len(versions) \in Nat \ {0}
      BY VersionFacts, Zenon DEF LedgerInv, Inv
    <3>1. Len(versions) = 1
      BY <3>0, OneOrMore, Zenon
    <3>2. Current' = run'.copy
      BY <1>1, <2>1, <3>1, Zenon DEF Current, Cached
    <3> QED BY <3>2, Zenon DEF AimOf
  <2>4. Ledger!TakeAim
    BY <1>1, <1>4, <2>1, <2>2, <2>3, Zenon DEF Ledger!TakeAim
  <2> QED BY <1>2, <2>4, Zenon
<1> QED BY <1>3, <1>4, Zenon DEF Reconcile

\* The patch removes an entry, the one aimed at if there is one, or nothing.
LEMMA PatchRefines ==
    ASSUME LedgerInv, Inv', patchRemove
    PROVE  LedgerInv' /\ (Ledger!Desist \/ \E e \in EntriesOf(Current) : Ledger!Remove(e))
<1>1. pc = "patchRemove" /\ pc' = "idle" /\ now' = now
  BY Zenon DEF patchRemove
<1>2. CASE UNCHANGED versions
  <2>1. Current' = Current
    BY <1>2, Zenon DEF Current
  <2>2. LedgerInv'
    BY <2>1, Zenon DEF LedgerInv
  <2>3. Ledger!Desist
    BY <1>1, <1>2, <2>1, Zenon DEF Ledger!Desist
  <2> QED BY <2>2, <2>3, Zenon
<1>3. CASE /\ Current # Nil /\ InRange(Current, run.slot)
           /\ Write(RemoveSlot(Current, run.slot))
  <2> DEFINE rn == Current.records[run.slot[1]]
             e == EntryOf(rn, rn.items[run.slot[2]])
  <2>1. PICK new : new = RemoveSlot(Current, run.slot)
    BY Zenon
  <2>2. /\ Sound(new) /\ WaitsOf(new) = WaitsOf(Current)
        /\ e \in EntriesOf(Current) /\ EntriesOf(new) = EntriesOf(Current) \ {e}
    <3>1. Sound(Current)
      BY <1>3, CurrentSound, Zenon
    <3> QED BY <1>3, <2>1, <3>1, RemovedEntry, SMTT(30)
  <2>3. new \in FleetRecords /\ new # Nil /\ DistinctNames(new)
    BY <2>2, SoundFacts, Zenon
  <2>4. Current' = new
    BY <1>3, <2>1, <2>3, WriteFacts, Zenon DEF LedgerInv, Inv
  <2>5. LedgerInv'
    BY <2>3, <2>4, Zenon DEF LedgerInv
  <2>6. AimOf(Current, run.copy, run.slot) \subseteq {e}
    BY Zenon DEF AimOf
  <2>7. (Len(versions) > 1)'
    <3>1. versions \in Seq(FleetRecords \cup {Nil}) /\ Len(versions) \in Nat \ {0}
      BY VersionFacts, Zenon DEF LedgerInv, Inv, TypeOK
    <3>2. Len(versions') = Len(versions) + 1
      BY <1>3, <3>1, AppendProperties DEF Write
    <3> QED BY <3>1, <3>2
  <2> HIDE DEF e
  <2>8. Ledger!Remove(e)
    BY <1>1, <1>3, <2>2, <2>3, <2>4, <2>6, <2>7, Zenon DEF Ledger!Remove
  <2> QED BY <2>2, <2>5, <2>8, Zenon
<1> QED BY <1>2, <1>3, Zenon DEF patchRemove

\* The informer and a restart only bring the cleaner up to date.
LEMMA WatchRefines ==
    ASSUME LedgerInv, Inv', Watch
    PROVE  LedgerInv' /\ Ledger!CatchUp
<1>1. /\ Len(versions) > 1 /\ versions' = Tail(versions) /\ UNCHANGED <<pc, run, now>>
  BY Zenon DEF Watch
<1>2. Current' = Current
  BY <1>1, WatchKeeps, Zenon DEF LedgerInv, Inv
<1>3. LedgerInv'
  BY <1>2, Zenon DEF LedgerInv
<1> QED BY <1>1, <1>2, <1>3, Zenon DEF Ledger!CatchUp

LEMMA RestartRefines ==
    ASSUME LedgerInv, Inv', Restart
    PROVE  LedgerInv' /\ (Ledger!Desist \/ Ledger!CatchUp)
<1>1. versions' = <<Current>> /\ pc' = "idle" /\ now' = now
  BY Zenon DEF Restart
<1>2. Current' = Current /\ ~(Len(versions') > 1)
  BY <1>1 DEF Current
<1>3. LedgerInv'
  BY <1>2, Zenon DEF LedgerInv
<1>4. CASE pc = "patchRemove"
  BY <1>1, <1>2, <1>3, <1>4, Zenon DEF Ledger!Desist
<1>5. CASE pc # "patchRemove"
  BY <1>1, <1>2, <1>3, <1>5, Zenon DEF Ledger!CatchUp
<1> QED BY <1>4, <1>5, Zenon

LEMMA TickRefines ==
    ASSUME LedgerInv, Inv', Tick
    PROVE  LedgerInv' /\ Ledger!Tick
<1>1. now' = now + 1 /\ UNCHANGED <<versions, pc, run>> /\ Current' = Current
  BY Zenon DEF Tick, Current
<1>2. LedgerInv'
  BY <1>1, Zenon DEF LedgerInv
<1> QED BY <1>1, <1>2, Zenon DEF Ledger!Tick

LEMMA AgentRefines ==
    ASSUME LedgerInv, Inv', Agent
    PROVE  LedgerInv' /\ Ledger!Next
<1>1. PICK name \in Notifications :
          \/ \E mfn \in Fleet : AgentRegister(mfn, name)
          \/ \E cluster \in Clusters :
                 \/ AgentAdd(name, cluster)
                 \/ \E statusFiring \in BOOLEAN : AgentRecord(name, cluster, statusFiring)
                 \/ AgentRemove(name, cluster)
  BY Zenon DEF Agent
<1>2. CASE \E mfn \in Fleet : AgentRegister(mfn, name)
  BY <1>2, RegisterRefines, Zenon DEF Ledger!Next
<1>3. ASSUME NEW cluster \in Clusters, AgentAdd(name, cluster)
      PROVE  LedgerInv' /\ Ledger!Next
  BY <1>3, AddRefines, Zenon DEF Ledger!Next
<1>4. ASSUME NEW cluster \in Clusters, NEW statusFiring \in BOOLEAN,
             AgentRecord(name, cluster, statusFiring)
      PROVE  LedgerInv' /\ Ledger!Next
  BY <1>4, RecordRefines, Zenon DEF Ledger!Next
<1>5. ASSUME NEW cluster \in Clusters, AgentRemove(name, cluster)
      PROVE  LedgerInv' /\ Ledger!Next
  BY <1>5, RemoveRefines, Zenon DEF Ledger!Next
<1> QED BY <1>1, <1>2, <1>3, <1>4, <1>5, Zenon

LEMMA LedgerStep ==
    ASSUME \A fnr \in NewRecords : DistinctNames(fnr)
    PROVE  LedgerInv /\ Inv' /\ [Next]_vars => LedgerInv' /\ [Ledger!Next]_(Ledger!vars)
<1> SUFFICES ASSUME LedgerInv, Inv', [Next]_vars
             PROVE  LedgerInv' /\ [Ledger!Next]_(Ledger!vars)
  BY Zenon
<1>1. CASE Reconcile
  BY <1>1, ReconcileRefines, Zenon DEF Ledger!Next
<1>2. CASE patchRemove
  BY <1>2, PatchRefines, Zenon DEF Ledger!Next
<1>3. CASE Watch \/ Restart
  BY <1>3, WatchRefines, RestartRefines, Zenon DEF Ledger!Next
<1>4. CASE CreateRecord \/ DeleteRecord
  BY <1>4, CreateRefines, DeleteRefines, Zenon DEF Ledger!Next
<1>5. CASE Agent
  BY <1>5, AgentRefines, Zenon
<1>6. CASE Tick
  BY <1>6, TickRefines, Zenon DEF Ledger!Next
<1>7. CASE Resync \/ UNCHANGED vars
  <2>1. UNCHANGED <<versions, pc, run, now>> /\ Current' = Current
    BY <1>7, Zenon DEF Resync, vars, Current
  <2> QED BY <2>1, Zenon DEF LedgerInv, Ledger!vars
<1> QED BY <1>1, <1>2, <1>3, <1>4, <1>5, <1>6, <1>7, Zenon DEF Next

\* The lists, the methods that search and change them and the removal by
\* position in a cached copy implement the ledger, whatever the notifications
\* and clusters, as long as a record that someone creates does not name a
\* notification twice: each change concerns one notification and one hosted
\* cluster, a notification is sent only when the ledger does not hold it back,
\* and the controller removes what it found stale unless the record was
\* written since or its cache was behind.
THEOREM LedgerKept ==
    ASSUME \A fnr \in NewRecords : DistinctNames(fnr)
    PROVE  Spec => ImplementsLedger
<1>1. Init => LedgerInv /\ Ledger!Init
  <2> SUFFICES ASSUME Init PROVE LedgerInv /\ Ledger!Init
    BY Zenon
  <2>1. Current = Nil /\ Len(versions) = 1 /\ pc = "idle" /\ now = 0
    BY DEF Init, Current
  <2>2. Inv
    BY InitInv, Zenon
  <2>3. EntriesOf(Current) = {} /\ WaitsOf(Current) = {} /\ ~(Len(versions) > 1)
    BY <2>1 DEF EntriesOf, WaitsOf
  <2> QED BY <2>1, <2>2, <2>3, Zenon DEF LedgerInv, Ledger!Init
<1>2. LedgerInv /\ Inv' /\ [Next]_vars => LedgerInv' /\ [Ledger!Next]_(Ledger!vars)
  BY LedgerStep, Zenon
<1> QED BY <1>1, <1>2, Invariance, PTL DEF Spec, ImplementsLedger, Ledger!Spec

=============================================================================
