--------------------- MODULE ManagedNotificationProofs ---------------------
(***************************************************************************)
(* What the methods of a ManagedNotification do to it, whichever conditions*)
(* their users set, with or without a time: no name has two records and no *)
(* type two conditions in a record, and what was not set stays as it was;  *)
(* what CanBeSent answers for such an object.                              *)
(***************************************************************************)
EXTENDS ServiceLogs, SequenceTheorems, WellFoundedInduction, TLAPS

-----------------------------------------------------------------------------
(* Arithmetic.                                                             *)

\* Division with remainder.
LEMMA DivMod ==
    ASSUME NEW a \in Nat, NEW b \in Nat \ {0}
    PROVE  /\ a % b \in 0..(b - 1) /\ a \div b \in Nat
           /\ a = (a \div b) * b + (a % b)
<1>1. a % b \in 0..(b - 1)
  OBVIOUS
<1>2. a \div b \in Int /\ a \div b >= 0
  OBVIOUS
<1>3. a = (a \div b) * b + (a % b)
  OBVIOUS
<1> QED BY <1>1, <1>2, <1>3

\* There is only one quotient and one remainder.
LEMMA ModUnique ==
    ASSUME NEW b \in Nat \ {0}, NEW q \in Nat, NEW r \in 0..(b - 1)
    PROVE  (b * q + r) % b = r
<1> DEFINE a == b * q + r
<1>1. a \in Nat
  OBVIOUS
<1> HIDE DEF a
<1>2. PICK p \in Nat, s \in 0..(b - 1) : p = a \div b /\ s = a % b /\ a = p * b + s
  BY <1>1, DivMod, Zenon
<1>3. b * q + r = b * p + s
  BY <1>2 DEF a
<1>4. b * (q - p) = s - r /\ b * (p - q) = r - s
  BY <1>3
<1>5. CASE q > p
  <2>1. q - p \in Nat /\ q - p >= 1
    BY <1>5
  <2>2. b * (q - p) >= b
    BY <2>1
  <2> QED BY <1>4, <2>2
<1>6. CASE q < p
  <2>1. p - q \in Nat /\ p - q >= 1
    BY <1>6
  <2>2. b * (p - q) >= b
    BY <2>1
  <2> QED BY <1>4, <2>2
<1>7. CASE q = p
  BY <1>2, <1>4, <1>7 DEF a
<1> QED BY <1>5, <1>6, <1>7

\* Counting modulo b: the remainder is all one needs.
LEMMA ModSucc ==
    ASSUME NEW a \in Nat, NEW b \in Nat \ {0}
    PROVE  ((a % b) + 1) % b = (a + 1) % b
<1>1. PICK q \in Nat, r \in 0..(b - 1) : r = a % b /\ a = q * b + r
  BY DivMod, Zenon
<1>2. a + 1 = b * q + (r + 1)
  BY <1>1
<1>3. CASE r + 1 < b
  <2>1. r + 1 \in 0..(b - 1)
    BY <1>3
  <2>2. (b * q + (r + 1)) % b = r + 1 /\ (b * 0 + (r + 1)) % b = r + 1
    BY <2>1, ModUnique, Zenon
  <2> QED BY <1>1, <1>2, <2>2
<1>4. CASE r + 1 = b
  <2>1. a + 1 = b * (q + 1) + 0 /\ r + 1 = b * 1 + 0
    BY <1>2, <1>4
  <2>2. (b * (q + 1) + 0) % b = 0 /\ (b * 1 + 0) % b = 0
    BY ModUnique
  <2> QED BY <1>1, <2>1, <2>2, ZenonT(30)
<1> QED BY <1>3, <1>4

\* An int32 counts modulo its width, from zero.
LEMMA Int32Counts ==
    /\ Int32(0) = 0
    /\ \A k \in Nat : /\ Int32(k) \in Int32s
                      /\ Int32(Int32(k) + 1) = Int32(k + 1)
    /\ \A c \in Int32s : Int32(c + 1) \in Int32s
<1>1. Int32Half \in Nat \ {0} /\ 2 * Int32Half \in Nat \ {0}
  BY WidthsAssumption
<1>2. ASSUME NEW x \in Int, x + Int32Half \in Nat
      PROVE  Int32(x) \in Int32s
  <2>1. (x + Int32Half) % (2 * Int32Half) \in 0..(2 * Int32Half - 1)
    BY <1>1, <1>2, DivMod, Zenon
  <2> QED BY <1>1, <2>1 DEF Int32, Int32s
<1>3. Int32(0) = 0
  <2>1. (2 * Int32Half * 0 + Int32Half) % (2 * Int32Half) = Int32Half
    BY <1>1, ModUnique
  <2> QED BY <1>1, <2>1 DEF Int32
<1>4. ASSUME NEW k \in Nat
      PROVE  Int32(k) \in Int32s /\ Int32(Int32(k) + 1) = Int32(k + 1)
  <2>1. PICK a \in Nat, b \in Nat \ {0} : a = k + Int32Half /\ b = 2 * Int32Half
    BY <1>1
  <2>2. ((a % b) + 1) % b = (a + 1) % b /\ a % b \in Int
    <3>1. ((a % b) + 1) % b = (a + 1) % b
      BY ModSucc, ZenonT(30)
    <3>2. a % b \in 0..(b - 1)
      BY DivMod, Zenon
    <3> QED BY <3>1, <3>2
  <2>3. Int32(k) = (a % b) - Int32Half /\ Int32(k + 1) = ((a + 1) % b) - Int32Half
    <3>1. (k + 1) + Int32Half = a + 1
      BY <1>1, <2>1
    <3> QED BY <2>1, <3>1, Zenon DEF Int32
  <2>4. Int32(Int32(k) + 1) = (((a % b) + 1) % b) - Int32Half
    <3>1. PICK y \in Int : y = Int32(k) + 1
      BY <1>1, <2>2, <2>3
    <3>2. y + Int32Half = (a % b) + 1
      BY <1>1, <2>2, <2>3, <3>1
    <3> QED BY <2>1, <3>1, <3>2, Zenon DEF Int32
  <2> QED BY <1>1, <1>2, <2>2, <2>3, <2>4, SMTT(30)
<1>5. ASSUME NEW c \in Int32s
      PROVE  Int32(c + 1) \in Int32s
  BY <1>1, <1>2 DEF Int32s
<1> QED BY <1>3, <1>4, <1>5, Zenon

\* A number of hours that fits is the Duration it says.
LEMMA HoursFit ==
    ASSUME NEW w \in Int
    PROVE  Hours(w) \in Int /\ (Fits(w) => Hours(w) = w)
<1>1. DurationHalf \in Nat \ {0} /\ 2 * DurationHalf \in Nat \ {0}
  BY WidthsAssumption
<1>2. Hours(w) \in Int
  BY <1>1 DEF Hours
<1>3. ASSUME Fits(w)
      PROVE  Hours(w) = w
  <2>1. w + DurationHalf \in 0..(2 * DurationHalf - 1)
    BY <1>1, <1>3 DEF Fits
  <2>2. (2 * DurationHalf * 0 + (w + DurationHalf)) % (2 * DurationHalf) = w + DurationHalf
    BY <1>1, <2>1, ModUnique, Zenon
  <2> QED BY <1>1, <2>2 DEF Hours
<1> QED BY <1>2, <1>3, Zenon

-----------------------------------------------------------------------------
(* Lookups.                                                                *)

\* The search for the first position finds one.
LEMMA MinIn ==
    ASSUME NEW S, S \subseteq Nat, S # {}
    PROVE  Min(S) \in S
<1>1. \E x \in S : \A y \in S : ~(<<y, x>> \in OpToRel(<, Nat))
  BY NatLessThanWellFounded, WFMin, Zenon
<1>2. \A x, y \in Nat : y < x => <<y, x>> \in OpToRel(<, Nat)
  BY Zenon DEF OpToRel
<1>3. \E x \in S : \A y \in S : ~(y < x)
  BY <1>1, <1>2, Zenon
<1>4. \E x \in S : \A y \in S : x =< y
  BY <1>3
<1> QED BY <1>4, ZenonT(30) DEF Min

\* What is looked up is found in the list or is not there.
LEMMA DefinitionFacts ==
    ASSUME NEW m \in ManagedNotifications, NEW n \in Names
    PROVE  LET t == GetNotificationForName(m, n)
           IN  \/ t = Nil
               \/ /\ t \in Notifications /\ t.name = n
                  /\ \E i \in DOMAIN m.notifications : t = m.notifications[i]
<1>1. /\ m.notifications \in Seq(Notifications)
      /\ DOMAIN m.notifications \subseteq Nat
      /\ \A i \in DOMAIN m.notifications : m.notifications[i] \in Notifications
  <2>1. m.notifications \in Seq(Notifications)
    BY Zenon DEF ManagedNotifications
  <2> QED BY <2>1, LenProperties, ElementOfSeq
<1>2. CASE Named(m.notifications, n) = {}
  BY <1>2, Zenon DEF GetNotificationForName
<1>3. CASE Named(m.notifications, n) # {}
  <2>1. Named(m.notifications, n) \subseteq Nat
    BY <1>1, Zenon DEF Named
  <2>2. Min(Named(m.notifications, n)) \in Named(m.notifications, n)
    BY <1>3, <2>1, MinIn, Zenon
  <2>3. PICK i \in DOMAIN m.notifications :
            i = Min(Named(m.notifications, n)) /\ m.notifications[i].name = n
    BY <2>2, ZenonT(30) DEF Named
  <2> QED BY <1>1, <1>3, <2>3, Zenon DEF GetNotificationForName
<1> QED BY <1>2, <1>3, Zenon

\* No name has two records.
UniqueNames(records) ==
    \A i, j \in DOMAIN records : records[i].name = records[j].name => i = j

\* The records of a name: none, or the one that is looked up.
LEMMA HistoryFacts ==
    ASSUME NEW m \in ManagedNotifications, UniqueNames(m.records), NEW n \in Names
    PROVE  LET s == GetNotificationRecord(m.records, n)
           IN  \/ /\ Named(m.records, n) = {} /\ s = Nil /\ history(m, n) = {}
               \/ /\ Named(m.records, n) # {} /\ s \in NotificationRecords
                  /\ s.name = n /\ history(m, n) = {s}
                  /\ Min(Named(m.records, n)) \in DOMAIN m.records
                  /\ s = m.records[Min(Named(m.records, n))]
<1>1. m # Nil
  BY NilAssumption, Zenon
<1>2. /\ m.records \in Seq(NotificationRecords)
      /\ DOMAIN m.records \subseteq Nat
      /\ \A i \in DOMAIN m.records : m.records[i] \in NotificationRecords
  <2>1. m.records \in Seq(NotificationRecords)
    BY Zenon DEF ManagedNotifications
  <2> QED BY <2>1, LenProperties, ElementOfSeq
<1>3. CASE Named(m.records, n) = {}
  <2>1. history(m, n) = {}
    BY <1>1, <1>3, Zenon DEF history, Range, Named
  <2> QED BY <1>3, <2>1, Zenon DEF GetNotificationRecord
<1>4. CASE Named(m.records, n) # {}
  <2>1. Named(m.records, n) \subseteq Nat
    BY <1>2, Zenon DEF Named
  <2>2. Min(Named(m.records, n)) \in Named(m.records, n)
    BY <1>4, <2>1, MinIn, Zenon
  <2>3. PICK i \in DOMAIN m.records :
            i = Min(Named(m.records, n)) /\ m.records[i].name = n
    BY <2>2, ZenonT(30) DEF Named
  <2>4. GetNotificationRecord(m.records, n) = m.records[i]
    BY <1>4, <2>3, Zenon DEF GetNotificationRecord
  <2>5. history(m, n) = {m.records[i]}
    BY <1>1, <2>3, Zenon DEF history, Range, UniqueNames
  <2> QED BY <1>2, <1>4, <2>3, <2>4, <2>5, Zenon
<1> QED BY <1>3, <1>4, Zenon

-----------------------------------------------------------------------------
(* Lists with at most one element of a kind.                               *)

\* x is put in the place of the element at K, or at the end.
Spot(R, K) == IF K = {} THEN Len(R) + 1 ELSE Min(K)

Put(R, K, x) == IF K = {} THEN Append(R, x) ELSE [R EXCEPT ![Min(K)] = x]

OneAtMost(R, K) == K \subseteq DOMAIN R /\ \A i, j \in K : i = j

Placed(S, R, K, x, Q, p) ==
    /\ Q \in Seq(S) /\ DOMAIN Q = DOMAIN R \cup {p}
    /\ K \subseteq {p} /\ (p \in DOMAIN R => p \in K)
    /\ Q[p] = x /\ \A i \in DOMAIN R \ {p} : Q[i] = R[i]

\* Append, or replacement of the only element of the kind: one position gets
\* the new element and the others keep theirs.
LEMMA PutFacts ==
    ASSUME NEW S, NEW R \in Seq(S), NEW x \in S, NEW K, OneAtMost(R, K)
    PROVE  Placed(S, R, K, x, Put(R, K, x), Spot(R, K))
<1> DEFINE Q == Put(R, K, x)
           p == Spot(R, K)
<1> SUFFICES Placed(S, R, K, x, Q, p)
  OBVIOUS
<1>0. K \subseteq DOMAIN R /\ \A i, j \in K : i = j
  BY Zenon DEF OneAtMost
<1>1. CASE K = {}
  <2>1. Q = Append(R, x)
    BY <1>1, Zenon DEF Put
  <2>2. /\ Q \in Seq(S) /\ DOMAIN Q = 1..(Len(R) + 1)
        /\ DOMAIN R = 1..Len(R) /\ Len(R) \in Nat
    BY <2>1, AppendProperties
  <2>3. \A i \in 1..Len(R) : Q[i] = R[i]
    BY <2>1, AppendProperties
  <2>4. Q[Len(R) + 1] = x
    BY <2>1, AppendProperties
  <2>5. p = Len(R) + 1
    BY <1>1, Zenon DEF Spot
  <2>6. DOMAIN Q = DOMAIN R \cup {p} /\ p \notin DOMAIN R
    BY <2>2, <2>5
  <2> HIDE DEF Q, p
  <2> QED BY <1>1, <2>2, <2>3, <2>4, <2>5, <2>6, ZenonT(30) DEF Placed
<1>2. CASE K # {}
  <2>1. DOMAIN R \subseteq Nat
    BY LenProperties
  <2>2. p = Min(K)
    BY <1>2, Zenon DEF Spot
  <2>3. p \in K
    BY <1>0, <1>2, <2>1, <2>2, MinIn, ZenonT(30)
  <2>4. Q = [R EXCEPT ![p] = x] /\ p \in DOMAIN R
    BY <1>0, <1>2, <2>2, <2>3, Zenon DEF Put
  <2>5. Q \in Seq(S)
    <3>1. p \in 1..Len(R)
      BY <2>4
    <3> QED BY <2>4, <3>1, ExceptSeq, SMTT(30)
  <2>6. DOMAIN Q = DOMAIN R \cup {p} /\ Q[p] = x /\ \A i \in DOMAIN R \ {p} : Q[i] = R[i]
    BY <2>4, Zenon
  <2>7. K \subseteq {p}
    BY <1>0, <2>3, Zenon
  <2> HIDE DEF Q, p
  <2> QED BY <2>3, <2>5, <2>6, <2>7, Zenon DEF Placed
<1> QED BY <1>1, <1>2, Zenon

-----------------------------------------------------------------------------
(* The conditions of a record.                                             *)

Times(T) == (0..T) \cup {Nil}

\* No type has two conditions, and what happened has happened by T.
Orderly(cs, T) ==
    /\ cs \in Seq(NotificationConditions)
    /\ \A i, j \in DOMAIN cs : cs[i].type = cs[j].type => i = j
    /\ \A i \in DOMAIN cs : cs[i].lastTransitionTime \in Times(T)

OfType(cs, type) == {c \in Range(cs) : c.type = type}

\* A list without conditions.
LEMMA NoConditions ==
    \A T \in Nat : Orderly(<<>>, T) /\ \A type : OfType(<<>>, type) = {}
BY EmptySeq DEF Orderly, OfType, Range

\* Of a type there is no condition, or the one that is looked up.
LEMMA ConditionFound ==
    ASSUME NEW T \in Nat, NEW cs, Orderly(cs, T), NEW type
    PROVE  \/ OfType(cs, type) = {} /\ GetCondition(cs, type) = Nil
           \/ \E c \in NotificationConditions :
                  /\ OfType(cs, type) = {c} /\ GetCondition(cs, type) = c
                  /\ c.lastTransitionTime \in Times(T)
<1>1. /\ DOMAIN cs \subseteq Nat
      /\ \A i \in DOMAIN cs : cs[i] \in NotificationConditions
  <2>1. cs \in Seq(NotificationConditions)
    BY Zenon DEF Orderly
  <2> QED BY <2>1, LenProperties, ElementOfSeq
<1>2. CASE Typed(cs, type) = {}
  <2>1. OfType(cs, type) = {}
    BY <1>2, Zenon DEF OfType, Range, Typed
  <2> QED BY <1>2, <2>1, Zenon DEF GetCondition
<1>3. CASE Typed(cs, type) # {}
  <2>1. Typed(cs, type) \subseteq Nat
    BY <1>1, Zenon DEF Typed
  <2>2. Min(Typed(cs, type)) \in Typed(cs, type)
    BY <1>3, <2>1, MinIn, Zenon
  <2>3. PICK i \in DOMAIN cs : i = Min(Typed(cs, type)) /\ cs[i].type = type
    BY <2>2, ZenonT(30) DEF Typed
  <2>4. GetCondition(cs, type) = cs[i]
    BY <1>3, <2>3, Zenon DEF GetCondition
  <2>5. OfType(cs, type) = {cs[i]}
    BY <2>3, Zenon DEF OfType, Range, Orderly
  <2> QED BY <1>1, <2>3, <2>4, <2>5, Zenon DEF Orderly
<1> QED BY <1>2, <1>3, Zenon

\* SetCondition makes its condition the only one of its type and leaves the
\* other types alone.
LEMMA SetConditionFacts ==
    ASSUME NEW T \in Nat, NEW cs, Orderly(cs, T), NEW new \in NotificationConditions,
           new.lastTransitionTime \in Times(T)
    PROVE  LET q == SetCondition(cs, new)
           IN  /\ Orderly(q, T) /\ OfType(q, new.type) = {new}
               /\ \A type : type # new.type => OfType(q, type) = OfType(cs, type)
<1> DEFINE K == Typed(cs, new.type)
<1>1. PICK q : q = SetCondition(cs, new)
  BY Zenon
<1>2. q = Put(cs, K, new)
  BY <1>1, Zenon DEF SetCondition, Put
<1>3. cs \in Seq(NotificationConditions) /\ OneAtMost(cs, K)
  BY Zenon DEF Orderly, Typed, OneAtMost
<1>4. K = {i \in DOMAIN cs : cs[i].type = new.type}
  BY Zenon DEF Typed
<1> HIDE DEF K
<1>5. PICK p : p = Spot(cs, K)
  BY Zenon
<1>6. /\ q \in Seq(NotificationConditions) /\ DOMAIN q = DOMAIN cs \cup {p}
      /\ K \subseteq {p} /\ (p \in DOMAIN cs => p \in K)
      /\ q[p] = new /\ \A i \in DOMAIN cs \ {p} : q[i] = cs[i]
  <2>1. Placed(NotificationConditions, cs, K, new, q, p)
    BY <1>2, <1>3, <1>5, PutFacts, Zenon
  <2> QED BY <2>1, Zenon DEF Placed
<1>7. \A i \in DOMAIN q : i # p => i \in DOMAIN cs /\ q[i] = cs[i] /\ q[i].type # new.type
  BY <1>4, <1>6, Zenon
<1>8. Orderly(q, T)
  <2>1. \A i, j \in DOMAIN q : q[i].type = q[j].type => i = j
    BY <1>6, <1>7, Zenon DEF Orderly
  <2>2. \A i \in DOMAIN q : q[i].lastTransitionTime \in Times(T)
    BY <1>6, <1>7, Zenon DEF Orderly
  <2> QED BY <1>6, <2>1, <2>2, Zenon DEF Orderly
<1>9. OfType(q, new.type) = {new}
  BY <1>6, <1>7, Zenon DEF OfType, Range
<1>10. ASSUME NEW type, type # new.type PROVE OfType(q, type) = OfType(cs, type)
  <2>1. \A i : i \in DOMAIN q /\ q[i].type = type => i \in DOMAIN cs /\ q[i] = cs[i]
    BY <1>6, <1>7, <1>10, Zenon
  <2>2. \A i : i \in DOMAIN cs /\ cs[i].type = type => i \in DOMAIN q /\ q[i] = cs[i]
    BY <1>4, <1>6, <1>10, Zenon
  <2> QED BY <2>1, <2>2, ZenonT(30) DEF OfType, Range
<1> QED BY <1>1, <1>8, <1>9, <1>10, Zenon

-----------------------------------------------------------------------------
(* Recording an attempt.                                                   *)

Condition(type, status, t) ==
    [type |-> type, status |-> status, lastTransitionTime |-> t]

\* What a handler says in a condition that it sets.
Value(type, firing, ok) ==
    IF type = "AlertFiring" THEN firing
    ELSE IF type = "AlertResolved" THEN ~firing ELSE ok

Time(style, t) == IF style.timed THEN t ELSE Nil

Statement(style, type, firing, ok, t) ==
    Condition(type, Toggle(Value(type, firing, ok)), Time(style, t))

\* The conditions of a type after an attempt, from those before it.
Restated(old, style, type, firing, ok, t) ==
    IF type \in style.marks THEN {Statement(style, type, firing, ok, t)} ELSE old

LEMMA StatementFacts ==
    ASSUME NEW T \in Nat, NEW t \in 0..T, NEW style \in Styles, NEW type \in ConditionTypes,
           NEW b \in BOOLEAN
    PROVE  LET c == Condition(type, Toggle(b), Time(style, t))
           IN  /\ c \in NotificationConditions /\ c.type = type
               /\ c.status = Toggle(b) /\ c.lastTransitionTime = Time(style, t)
               /\ c.lastTransitionTime \in Times(T)
<1>1. Toggle(b) \in {"True", "False", "Unknown"}
  BY Zenon DEF Toggle
<1>2. Time(style, t) \in Times(T) /\ Times(T) \subseteq Nat \cup {Nil}
  BY DEF Time, Times
<1>3. Time(style, t) \in Nat \cup {Nil}
  BY <1>2, Zenon
<1> QED BY <1>1, <1>2, <1>3, Zenon DEF Condition, NotificationConditions

\* x is nr with a condition set, if it is one of the style.
Sets(x, nr, style, type, b, t, T) ==
    /\ x \in NotificationRecords /\ x.name = nr.name
    /\ x.serviceLogSentCount = nr.serviceLogSentCount
    /\ Orderly(x.conditions, T)
    /\ OfType(x.conditions, type) =
           IF type \in style.marks THEN {Condition(type, Toggle(b), Time(style, t))}
           ELSE OfType(nr.conditions, type)
    /\ \A k : k # type => OfType(x.conditions, k) = OfType(nr.conditions, k)

\* A handler sets the conditions of its style and no other ones.
LEMMA MarkedFacts ==
    ASSUME NEW T \in Nat, NEW t \in 0..T, NEW style \in Styles, NEW type \in ConditionTypes,
           NEW b \in BOOLEAN, NEW nr \in NotificationRecords, Orderly(nr.conditions, T)
    PROVE  Sets(Marked(nr, style, type, b, t), nr, style, type, b, t, T)
<1>1. CASE type \notin style.marks
  <2>1. Marked(nr, style, type, b, t) = nr
    BY <1>1, Zenon DEF Marked
  <2> QED BY <1>1, <2>1, Zenon DEF Sets
<1>2. CASE type \in style.marks
  <2>1. PICK c : /\ c = Condition(type, Toggle(b), Time(style, t))
                 /\ c \in NotificationConditions /\ c.type = type
                 /\ c.lastTransitionTime \in Times(T)
    BY StatementFacts
  <2>2. PICK q : /\ q = SetCondition(nr.conditions, c)
                 /\ Orderly(q, T) /\ OfType(q, c.type) = {c}
                 /\ \A k : k # c.type => OfType(q, k) = OfType(nr.conditions, k)
    BY <2>1, SetConditionFacts
  <2>3. PICK x : x = Marked(nr, style, type, b, t)
    BY Zenon
  <2>4. x = [nr EXCEPT !.conditions = q]
    BY <1>2, <2>1, <2>2, <2>3, ZenonT(30) DEF Marked, SetStatus, Condition, Time, NotificationRecords
  <2>5. q \in Seq(NotificationConditions)
    BY <2>2, Zenon DEF Orderly
  <2>6. /\ x \in NotificationRecords /\ x.name = nr.name /\ x.conditions = q
        /\ x.serviceLogSentCount = nr.serviceLogSentCount
    BY <2>4, <2>5, Zenon DEF NotificationRecords
  <2>7. /\ OfType(q, type) = {c}
        /\ \A k : k # type => OfType(q, k) = OfType(nr.conditions, k)
    BY <2>1, <2>2, Zenon
  <2>8. Sets(x, nr, style, type, b, t, T)
    BY <1>2, <2>1, <2>2, <2>6, <2>7, Zenon DEF Sets
  <2> QED BY <2>3, <2>8, Zenon
<1> QED BY <1>1, <1>2, Zenon

\* x is nr after an attempt.
Attempts(x, nr, style, firing, ok, t, T) ==
    /\ x \in NotificationRecords /\ x.name = nr.name
    /\ x.serviceLogSentCount = nr.serviceLogSentCount
    /\ Orderly(x.conditions, T)
    /\ \A type \in ConditionTypes :
           OfType(x.conditions, type) =
               Restated(OfType(nr.conditions, type), style, type, firing, ok, t)

LEMMA AttemptedFacts ==
    ASSUME NEW T \in Nat, NEW t \in 0..T, NEW style \in Styles, NEW firing \in BOOLEAN,
           NEW ok \in BOOLEAN, NEW nr \in NotificationRecords, Orderly(nr.conditions, T)
    PROVE  Attempts(Attempted(nr, style, firing, ok, t), nr, style, firing, ok, t, T)
<1>0. /\ "AlertFiring" \in ConditionTypes /\ "AlertResolved" \in ConditionTypes
      /\ "ServiceLogSent" \in ConditionTypes /\ (~firing) \in BOOLEAN
  BY DEF ConditionTypes
<1>1. PICK x : /\ x = Marked(nr, style, "AlertFiring", firing, t)
               /\ Sets(x, nr, style, "AlertFiring", firing, t, T)
  BY <1>0, MarkedFacts, Zenon
<1>2. x \in NotificationRecords /\ Orderly(x.conditions, T)
  BY <1>1, Zenon DEF Sets
<1>3. PICK y : /\ y = Marked(x, style, "AlertResolved", ~firing, t)
               /\ Sets(y, x, style, "AlertResolved", ~firing, t, T)
  BY <1>0, <1>2, MarkedFacts, Zenon
<1>4. y \in NotificationRecords /\ Orderly(y.conditions, T)
  BY <1>3, Zenon DEF Sets
<1>5. PICK z : /\ z = Marked(y, style, "ServiceLogSent", ok, t)
               /\ Sets(z, y, style, "ServiceLogSent", ok, t, T)
  BY <1>0, <1>4, MarkedFacts, Zenon
<1>6. z = Attempted(nr, style, firing, ok, t)
  BY <1>1, <1>3, <1>5, Zenon DEF Attempted
<1>7. /\ Value("AlertFiring", firing, ok) = firing
      /\ Value("AlertResolved", firing, ok) = ~firing
      /\ Value("ServiceLogSent", firing, ok) = ok
  BY DEF Value
<1>8. OfType(z.conditions, "AlertFiring") =
          Restated(OfType(nr.conditions, "AlertFiring"), style, "AlertFiring", firing, ok, t)
  <2>1. OfType(z.conditions, "AlertFiring") = OfType(x.conditions, "AlertFiring")
    BY <1>3, <1>5 DEF Sets
  <2> QED BY <1>1, <1>7, <2>1, Zenon DEF Restated, Statement, Sets
<1>9. OfType(z.conditions, "AlertResolved") =
          Restated(OfType(nr.conditions, "AlertResolved"), style, "AlertResolved", firing, ok, t)
  <2>1. /\ OfType(z.conditions, "AlertResolved") = OfType(y.conditions, "AlertResolved")
        /\ OfType(x.conditions, "AlertResolved") = OfType(nr.conditions, "AlertResolved")
    BY <1>1, <1>5 DEF Sets
  <2> QED BY <1>3, <1>7, <2>1, Zenon DEF Restated, Statement, Sets
<1>10. OfType(z.conditions, "ServiceLogSent") =
          Restated(OfType(nr.conditions, "ServiceLogSent"), style, "ServiceLogSent", firing, ok, t)
  <2>1. OfType(y.conditions, "ServiceLogSent") = OfType(nr.conditions, "ServiceLogSent")
    BY <1>1, <1>3 DEF Sets
  <2> QED BY <1>5, <1>7, <2>1, Zenon DEF Restated, Statement, Sets
<1>11. /\ z \in NotificationRecords /\ z.name = nr.name /\ Orderly(z.conditions, T)
       /\ z.serviceLogSentCount = nr.serviceLogSentCount
  BY <1>1, <1>3, <1>5, Zenon DEF Sets
<1>12. \A type \in ConditionTypes :
           OfType(z.conditions, type) =
               Restated(OfType(nr.conditions, type), style, type, firing, ok, t)
  BY <1>8, <1>9, <1>10, Zenon DEF ConditionTypes
<1> QED BY <1>6, <1>11, <1>12, Zenon DEF Attempts

-----------------------------------------------------------------------------
(* The object.                                                             *)

Good(m, T) ==
    /\ m \in ManagedNotifications
    /\ UniqueNames(m.records)
    /\ \A i \in DOMAIN m.records : Orderly(m.records[i].conditions, T)

\* n has no record, or s is its record.
Missing(m, n) ==
    /\ Named(m.records, n) = {} /\ GetNotificationRecord(m.records, n) = Nil
    /\ history(m, n) = {} /\ CountOf(m, n) = 0
    /\ \A type : said(m, n, type) = {}

Found(m, n, s, T) ==
    /\ Named(m.records, n) # {} /\ GetNotificationRecord(m.records, n) = s
    /\ history(m, n) = {s} /\ CountOf(m, n) = s.serviceLogSentCount
    /\ \A type : said(m, n, type) = OfType(s.conditions, type)
    /\ s \in NotificationRecords /\ s # Nil /\ s.name = n
    /\ Orderly(s.conditions, T)

LEMMA FoundFacts ==
    ASSUME NEW T \in Nat, NEW m, Good(m, T), NEW n \in Names
    PROVE  Missing(m, n) \/ \E s : Found(m, n, s, T)
<1>1. m \in ManagedNotifications /\ UniqueNames(m.records)
  BY Zenon DEF Good
<1>2. PICK s : s = GetNotificationRecord(m.records, n)
  BY Zenon
<1>3. CASE Named(m.records, n) = {}
  <2>1. s = Nil /\ history(m, n) = {}
    BY <1>1, <1>2, <1>3, HistoryFacts, Zenon
  <2>2. \A type : said(m, n, type) = {}
    BY <2>1, Zenon DEF said
  <2>3. CountOf(m, n) = 0
    BY <1>2, <2>1, Zenon DEF CountOf
  <2> QED BY <1>2, <1>3, <2>1, <2>2, <2>3, Zenon DEF Missing
<1>4. CASE Named(m.records, n) # {}
  <2>1. /\ s \in NotificationRecords /\ s.name = n /\ history(m, n) = {s}
        /\ \E i \in DOMAIN m.records : s = m.records[i]
    BY <1>1, <1>2, <1>4, HistoryFacts, ZenonT(30)
  <2>2. s # Nil
    BY <2>1, NilAssumption, Zenon
  <2>3. \A type : said(m, n, type) = OfType(s.conditions, type)
    BY <2>1, Zenon DEF said, OfType
  <2>4. CountOf(m, n) = s.serviceLogSentCount
    BY <1>2, <2>2, Zenon DEF CountOf
  <2>5. Orderly(s.conditions, T)
    BY <2>1, Zenon DEF Good
  <2>6. Found(m, n, s, T)
    BY <1>2, <1>4, <2>1, <2>2, <2>3, <2>4, <2>5, Zenon DEF Found
  <2> QED BY <2>6, Zenon
<1> QED BY <1>3, <1>4, Zenon

LEMMA OrderlyLater ==
    ASSUME NEW cs, NEW T \in Nat, NEW u \in Nat, Orderly(cs, T), T <= u
    PROVE  Orderly(cs, u)
<1>1. \A t \in Times(T) : t \in Times(u)
  BY DEF Times
<1> QED BY <1>1, Zenon DEF Orderly

\* An object that is good stays good.
LEMMA GoodLater ==
    ASSUME NEW m, NEW T \in Nat, NEW u \in Nat, Good(m, T), T <= u
    PROVE  Good(m, u)
BY OrderlyLater, Zenon DEF Good

LEMMA CountFacts ==
    ASSUME NEW T \in Nat, NEW m, Good(m, T), NEW n \in Names
    PROVE  CountOf(m, n) \in Int32s
<1>1. 0 \in Int32s
  BY WidthsAssumption DEF Int32s
<1>2. CASE Missing(m, n)
  BY <1>1, <1>2, Zenon DEF Missing
<1>3. CASE \E s : Found(m, n, s, T)
  BY <1>3, Zenon DEF Found, NotificationRecords
<1> QED BY <1>2, <1>3, FoundFacts, Zenon

\* The conditions that a handler of the style starts from.
Kept(m, n, style, type) == IF style.anew THEN {} ELSE said(m, n, type)

\* nr is the record from which a handler starts.
Begins(nr, m, n, style, T) ==
    /\ nr \in NotificationRecords /\ nr.name = n
    /\ nr.serviceLogSentCount = CountOf(m, n) /\ Orderly(nr.conditions, T)
    /\ \A type : OfType(nr.conditions, type) = Kept(m, n, style, type)

LEMMA BeginFacts ==
    ASSUME NEW T \in Nat, NEW m, Good(m, T), NEW n \in Names, NEW style \in Styles
    PROVE  LET old == GetNotificationRecord(m.records, n)
               nr  == IF old # Nil /\ ~style.anew THEN old
                      ELSE [name |-> n, serviceLogSentCount |-> CountOf(m, n),
                            conditions |-> <<>>]
           IN  Begins(nr, m, n, style, T)
<1>1. PICK old : old = GetNotificationRecord(m.records, n)
  BY Zenon
<1>2. PICK fresh : fresh = [name |-> n, serviceLogSentCount |-> CountOf(m, n),
                            conditions |-> <<>>]
  BY Zenon
<1>3. /\ fresh \in NotificationRecords /\ fresh.name = n
      /\ fresh.serviceLogSentCount = CountOf(m, n) /\ fresh.conditions = <<>>
  BY <1>2, CountFacts, EmptySeq, Zenon DEF NotificationRecords
<1>4. Orderly(fresh.conditions, T) /\ \A type : OfType(fresh.conditions, type) = {}
  BY <1>3, NoConditions, Zenon
<1>5. CASE Missing(m, n)
  <2>1. Begins(fresh, m, n, style, T)
    BY <1>3, <1>4, <1>5, Zenon DEF Begins, Kept, Missing
  <2>2. old = Nil
    BY <1>1, <1>5, Zenon DEF Missing
  <2> QED BY <1>1, <1>2, <2>1, <2>2, Zenon
<1>6. CASE \E s : Found(m, n, s, T)
  <2>1. PICK s : Found(m, n, s, T)
    BY <1>6, Zenon
  <2>2. old = s
    BY <1>1, <2>1, Zenon DEF Found
  <2>3. CASE style.anew
    <3>1. Begins(fresh, m, n, style, T)
      BY <1>3, <1>4, <2>3, Zenon DEF Begins, Kept
    <3> QED BY <1>1, <1>2, <2>3, <3>1, Zenon
  <2>4. CASE ~style.anew
    <3>1. Begins(old, m, n, style, T) /\ old # Nil
      BY <2>1, <2>2, <2>4, Zenon DEF Begins, Kept, Found
    <3> QED BY <1>1, <2>4, <3>1, Zenon
  <2> QED BY <2>3, <2>4, Zenon
<1> QED BY <1>5, <1>6, FoundFacts, Zenon

Tidy(R, u) ==
    /\ R \in Seq(NotificationRecords) /\ UniqueNames(R)
    /\ \A i \in DOMAIN R : Orderly(R[i].conditions, u)

OfName(R, name) == {y \in Range(R) : y.name = name}

Replaced(Q, R, x, u) ==
    /\ Tidy(Q, u) /\ OfName(Q, x.name) = {x}
    /\ \A k : k # x.name => OfName(Q, k) = OfName(R, k)

\* The records of the names, after one of them was put in its place.
LEMMA PlacedRecord ==
    ASSUME NEW u \in Nat, NEW R, Tidy(R, u),
           NEW x \in NotificationRecords, Orderly(x.conditions, u),
           NEW Q, Q = Put(R, Named(R, x.name), x)
    PROVE  Replaced(Q, R, x, u)
<1>0. /\ R \in Seq(NotificationRecords) /\ UniqueNames(R)
      /\ \A i \in DOMAIN R : Orderly(R[i].conditions, u)
  BY Zenon DEF Tidy
<1> DEFINE K == Named(R, x.name)
<1>1. OneAtMost(R, K)
  BY <1>0, Zenon DEF OneAtMost, Named, UniqueNames
<1>2. K = {i \in DOMAIN R : R[i].name = x.name}
  BY Zenon DEF Named
<1> HIDE DEF K
<1>3. Q = Put(R, K, x)
  BY Zenon DEF K
<1>4. PICK p : p = Spot(R, K)
  BY Zenon
<1>5. /\ Q \in Seq(NotificationRecords) /\ DOMAIN Q = DOMAIN R \cup {p}
      /\ K \subseteq {p} /\ (p \in DOMAIN R => p \in K)
      /\ Q[p] = x /\ \A i \in DOMAIN R \ {p} : Q[i] = R[i]
  <2>1. Placed(NotificationRecords, R, K, x, Q, p)
    BY <1>0, <1>1, <1>3, <1>4, PutFacts, Zenon
  <2> QED BY <2>1, Zenon DEF Placed
<1>6. \A i \in DOMAIN Q : i # p => i \in DOMAIN R /\ Q[i] = R[i] /\ Q[i].name # x.name
  BY <1>2, <1>5, Zenon
<1>7. UniqueNames(Q)
  <2> SUFFICES ASSUME NEW i \in DOMAIN Q, NEW j \in DOMAIN Q, Q[i].name = Q[j].name
               PROVE  i = j
    BY Zenon DEF UniqueNames
  <2>1. CASE i = p
    BY <1>5, <1>6, <2>1, Zenon
  <2>2. CASE i # p
    <3>1. j # p
      BY <1>5, <1>6, <2>2, Zenon
    <3>2. i \in DOMAIN R /\ j \in DOMAIN R /\ R[i].name = R[j].name
      BY <1>6, <2>2, <3>1, Zenon
    <3> QED BY <1>0, <3>2, Zenon DEF UniqueNames
  <2> QED BY <2>1, <2>2, Zenon
<1>8. \A i \in DOMAIN Q : Orderly(Q[i].conditions, u)
  BY <1>0, <1>5, <1>6, Zenon
<1>9. OfName(Q, x.name) = {x}
  BY <1>5, <1>6, Zenon DEF Range, OfName
<1>10. ASSUME NEW k, k # x.name
       PROVE  OfName(Q, k) = OfName(R, k)
  <2>1. \A i : i \in DOMAIN Q /\ Q[i].name = k => i \in DOMAIN R /\ Q[i] = R[i]
    BY <1>5, <1>6, <1>10, Zenon
  <2>2. \A i : i \in DOMAIN R /\ R[i].name = k => i \in DOMAIN Q /\ Q[i] = R[i]
    BY <1>2, <1>5, <1>10, Zenon
  <2> QED BY <2>1, <2>2, ZenonT(30) DEF Range, OfName
<1> QED BY <1>5, <1>7, <1>8, <1>9, <1>10, Zenon DEF Tidy, Replaced

\* new is m after an attempt to send n.
Records(new, m, n, style, firing, ok, u) ==
    /\ Good(new, u) /\ new.notifications = m.notifications
    /\ history(new, n) # {} /\ CountOf(new, n) = Int32(CountOf(m, n) + 1)
    /\ \A type \in ConditionTypes :
           said(new, n, type) =
               Restated(Kept(m, n, style, type), style, type, firing, ok, u)
    /\ \A k \in Names \ {n} : history(new, k) = history(m, k)

\* An attempt that is recorded changes the record of its notification and no
\* other one.
LEMMA RecordedFacts ==
    ASSUME NEW T \in Nat, NEW m, Good(m, T), NEW n \in Names, NEW style \in Styles,
           NEW firing \in BOOLEAN, NEW ok \in BOOLEAN, NEW u \in Nat, T <= u
    PROVE  Records(Recorded(m, n, style, firing, ok, u), m, n, style, firing, ok, u)
<1>1. Good(m, u) /\ u \in 0..u
  BY GoodLater
<1>2. PICK nr : /\ Begins(nr, m, n, style, u)
                /\ nr = LET old == GetNotificationRecord(m.records, n)
                        IN  IF old # Nil /\ ~style.anew THEN old
                            ELSE [name |-> n, serviceLogSentCount |-> CountOf(m, n),
                                  conditions |-> <<>>]
  BY <1>1, BeginFacts, ZenonT(30)
<1>3. PICK a : /\ a = Attempted(nr, style, firing, ok, u)
               /\ Attempts(a, nr, style, firing, ok, u, u)
  BY <1>1, <1>2, AttemptedFacts, Zenon DEF Begins
<1>4. /\ a \in NotificationRecords /\ a.name = n /\ a.serviceLogSentCount = CountOf(m, n)
      /\ Orderly(a.conditions, u)
      /\ \A type \in ConditionTypes :
             OfType(a.conditions, type) =
                 Restated(Kept(m, n, style, type), style, type, firing, ok, u)
  BY <1>2, <1>3, Zenon DEF Attempts, Begins
<1>5. PICK x : x = [a EXCEPT !.serviceLogSentCount = Int32(@ + 1)]
  BY Zenon
<1>6. /\ x \in NotificationRecords /\ x.name = n /\ x.conditions = a.conditions
      /\ x.serviceLogSentCount = Int32(CountOf(m, n) + 1)
  <2>1. Int32(CountOf(m, n) + 1) \in Int32s
    BY CountFacts, Int32Counts, Zenon
  <2>2. x = [a EXCEPT !.serviceLogSentCount = Int32(CountOf(m, n) + 1)]
    BY <1>4, <1>5, Zenon DEF NotificationRecords
  <2> QED BY <1>4, <2>1, <2>2, Zenon DEF NotificationRecords
<1>7. PICK R, Q : R = m.records /\ Q = Put(R, Named(R, n), x)
  BY Zenon
<1>8. m \in ManagedNotifications /\ Tidy(R, u)
  BY <1>1, <1>7, Zenon DEF Good, Tidy, ManagedNotifications
<1>9. PICK new : /\ new = Recorded(m, n, style, firing, ok, u)
                 /\ new = [m EXCEPT !.records = Q]
  <2>1. Q = SetNotificationRecord(R, a)
    BY <1>4, <1>5, <1>7, ZenonT(30) DEF SetNotificationRecord, Put
  <2> QED BY <1>2, <1>3, <1>7, <1>8, <2>1, ZenonT(30) DEF Recorded, ManagedNotifications
<1>10. /\ Tidy(Q, u) /\ OfName(Q, n) = {x}
       /\ \A k : k # n => OfName(Q, k) = OfName(R, k)
  <2>1. Q = Put(R, Named(R, x.name), x) /\ Orderly(x.conditions, u)
    BY <1>4, <1>6, <1>7, Zenon
  <2>2. Replaced(Q, R, x, u)
    BY <1>6, <1>8, <2>1, PlacedRecord, Zenon
  <2> QED BY <1>6, <2>2, Zenon DEF Replaced
<1>11. /\ new \in ManagedNotifications /\ new.records = Q
       /\ new.notifications = m.notifications /\ new # Nil /\ m # Nil
  <2>1. /\ new \in ManagedNotifications /\ new.records = Q
        /\ new.notifications = m.notifications
    BY <1>8, <1>9, <1>10, Zenon DEF ManagedNotifications, Tidy
  <2> QED BY <1>8, <2>1, NilAssumption, Zenon
<1>12. Good(new, u)
  BY <1>10, <1>11, Zenon DEF Good, Tidy
<1>13. history(new, n) = {x} /\ \A k \in Names \ {n} : history(new, k) = history(m, k)
  BY <1>7, <1>10, <1>11, Zenon DEF history, OfName
<1>14. /\ CountOf(new, n) = x.serviceLogSentCount
       /\ \A type : said(new, n, type) = OfType(x.conditions, type)
  <2>1. ~Missing(new, n)
    BY <1>13, Zenon DEF Missing
  <2>2. PICK s : Found(new, n, s, u)
    BY <1>12, <2>1, FoundFacts, Zenon
  <2>3. s = x
    BY <1>13, <2>2, Zenon DEF Found
  <2> QED BY <2>2, <2>3, Zenon DEF Found
<1>15. Records(new, m, n, style, firing, ok, u)
  BY <1>4, <1>6, <1>11, <1>12, <1>13, <1>14, Zenon DEF Records
<1> QED BY <1>9, <1>15, Zenon

-----------------------------------------------------------------------------
(* What CanBeSent and the throttle see of an object.                       *)

\* What the throttle sees of a name whose records are the same.
LEMMA SameView ==
    ASSUME NEW m, NEW new, NEW k \in Names, history(new, k) = history(m, k)
    PROVE  /\ PhaseOf(new)[k] = PhaseOf(m)[k] /\ HoldOf(new)[k] = HoldOf(m)[k]
           /\ \A type : said(new, k, type) = said(m, k, type)
<1>1. \A type : said(new, k, type) = said(m, k, type)
  BY Zenon DEF said
<1>2. said(new, k, "AlertFiring") = said(m, k, "AlertFiring")
  BY <1>1, Zenon
<1>3. said(new, k, "ServiceLogSent") = said(m, k, "ServiceLogSent")
  BY <1>1, Zenon
<1>4. PhaseOf(new)[k] = PhaseOf(m)[k]
  BY <1>2, Zenon DEF PhaseOf
<1>5. HoldOf(new)[k] = HoldOf(m)[k]
  BY <1>3, Zenon DEF HoldOf
<1> QED BY <1>1, <1>4, <1>5, Zenon

LEMMA PhaseFacts ==
    ASSUME NEW m, NEW n \in Names
    PROVE  /\ history(m, n) = {} => PhaseOf(m)[n] = "never"
           /\ history(m, n) # {} =>
                  /\ PhaseOf(m)[n] # "never"
                  /\ said(m, n, "AlertFiring") = {} => PhaseOf(m)[n] = "unknown"
                  /\ \A c : said(m, n, "AlertFiring") = {c} =>
                         PhaseOf(m)[n] = IF c.status = "True" THEN "firing" ELSE "resolved"
<1>1. PICK A : A = said(m, n, "AlertFiring")
  BY Zenon
<1>2. PhaseOf(m)[n] = IF history(m, n) = {} THEN "never"
                      ELSE IF {c.status : c \in A} = {} THEN "unknown"
                      ELSE IF "True" \in {c.status : c \in A} THEN "firing" ELSE "resolved"
  BY <1>1, Zenon DEF PhaseOf
<1>3. A = {} => {c.status : c \in A} = {}
  BY Zenon
<1>4. \A c : A = {c} => {d.status : d \in A} # {} /\ ("True" \in {d.status : d \in A} <=> c.status = "True")
  BY Zenon
<1>5. "never" # "unknown" /\ "never" # "firing" /\ "never" # "resolved"
  OBVIOUS
<1> QED BY <1>1, <1>2, <1>3, <1>4, <1>5, Zenon

LEMMA HoldFacts ==
    ASSUME NEW m, NEW n \in Names
    PROVE  /\ said(m, n, "ServiceLogSent") = {} => HoldOf(m)[n] = {}
           /\ \A c : said(m, n, "ServiceLogSent") = {c} =>
                  HoldOf(m)[n] = IF c.status = "True" /\ c.lastTransitionTime # Nil
                                 THEN {c.lastTransitionTime} ELSE {}
<1>1. PICK A : A = said(m, n, "ServiceLogSent")
  BY Zenon
<1>2. HoldOf(m)[n] = {c.lastTransitionTime : c \in {d \in A : d.status = "True"}} \ {Nil}
  BY <1>1, Zenon DEF HoldOf
<1>3. A = {} => HoldOf(m)[n] = {}
  BY <1>2, Zenon
<1>4. ASSUME NEW c, A = {c}
      PROVE  HoldOf(m)[n] = IF c.status = "True" /\ c.lastTransitionTime # Nil
                            THEN {c.lastTransitionTime} ELSE {}
  <2>1. CASE c.status = "True"
    <3>1. {d \in A : d.status = "True"} = {c}
      BY <1>4, <2>1, Zenon
    <3>2. HoldOf(m)[n] = {c.lastTransitionTime} \ {Nil}
      BY <1>2, <3>1, Zenon
    <3> QED BY <2>1, <3>2, Zenon
  <2>2. CASE c.status # "True"
    <3>1. {d \in A : d.status = "True"} = {}
      BY <1>4, <2>2, Zenon
    <3> QED BY <1>2, <2>2, <3>1, Zenon
  <2> QED BY <2>1, <2>2, Zenon
<1> QED BY <1>1, <1>3, <1>4, Zenon

\* Of a type nothing is said, or one thing.
LEMMA SaidFacts ==
    ASSUME NEW T \in Nat, NEW m, Good(m, T), NEW n \in Names, NEW type
    PROVE  \/ said(m, n, type) = {}
           \/ \E c \in NotificationConditions :
                  said(m, n, type) = {c} /\ c.lastTransitionTime \in Times(T)
<1>1. CASE Missing(m, n)
  BY <1>1, Zenon DEF Missing
<1>2. ASSUME NEW s, Found(m, n, s, T)
      PROVE  \/ said(m, n, type) = {}
             \/ \E c \in NotificationConditions :
                    said(m, n, type) = {c} /\ c.lastTransitionTime \in Times(T)
  <2>1. Orderly(s.conditions, T) /\ said(m, n, type) = OfType(s.conditions, type)
    BY <1>2, Zenon DEF Found
  <2>2. \/ OfType(s.conditions, type) = {}
        \/ \E c \in NotificationConditions :
               OfType(s.conditions, type) = {c} /\ c.lastTransitionTime \in Times(T)
    BY <2>1, ConditionFound
  <2> QED BY <2>1, <2>2, Zenon
<1> QED BY <1>1, <1>2, FoundFacts, Zenon

LEMMA HoldTimes ==
    ASSUME NEW T \in Nat, NEW m, Good(m, T), NEW n \in Names
    PROVE  \A t \in HoldOf(m)[n] : t \in 0..T
<1>1. CASE said(m, n, "ServiceLogSent") = {}
  BY <1>1, HoldFacts, Zenon
<1>2. ASSUME NEW c, said(m, n, "ServiceLogSent") = {c}, c.lastTransitionTime \in Times(T)
      PROVE  \A t \in HoldOf(m)[n] : t \in 0..T
  <2>1. HoldOf(m)[n] = IF c.status = "True" /\ c.lastTransitionTime # Nil
                       THEN {c.lastTransitionTime} ELSE {}
    BY <1>2, HoldFacts, Zenon
  <2> QED BY <1>2, <2>1, Zenon DEF Times
<1>3. \/ said(m, n, "ServiceLogSent") = {}
      \/ \E c : said(m, n, "ServiceLogSent") = {c} /\ c.lastTransitionTime \in Times(T)
  BY SaidFacts
<1> QED BY <1>1, <1>2, <1>3, Zenon

\* CanBeSent follows a nil pointer.
Panics(m, n, firing) ==
    /\ definition(m, n) # Nil /\ history(m, n) # {}
    /\ IF firing THEN \E c \in said(m, n, "ServiceLogSent") : c.lastTransitionTime = Nil
       ELSE definition(m, n).resolvedDesc /\ said(m, n, "AlertFiring") = {}

\* The throttle permits it.
Permits(m, n, firing, u) ==
    /\ WaitOf(m)[n] # Nil
    /\ IF firing THEN \A t \in HoldOf(m)[n] : u >= t + WaitOf(m)[n]
       ELSE PhaseOf(m)[n] = "firing" /\ ResolvableOf(m)[n]

LEMMA DefinedFacts ==
    ASSUME NEW m \in ManagedNotifications, NEW n \in Names,
           NEW d, d = GetNotificationForName(m, n), d # Nil
    PROVE  /\ d.resolvedDesc \in BOOLEAN /\ d.resendWait \in Int
           /\ definition(m, n) = d /\ ResolvableOf(m)[n] = d.resolvedDesc
           /\ WaitOf(m)[n] = Hours(d.resendWait) /\ WaitOf(m)[n] \in Int /\ WaitOf(m)[n] # Nil
<1>1. m # Nil
  BY NilAssumption, Zenon
<1>2. d \in Notifications
  BY DefinitionFacts, Zenon
<1>3. d.resendWait \in Waits /\ d.resolvedDesc \in BOOLEAN
  BY <1>2, Zenon DEF Notifications
<1>4. Int32s \subseteq Int
  BY WidthsAssumption DEF Int32s
<1>5. d.resendWait \in Int
  BY <1>3, <1>4, WaitsAssumption, ZenonT(30)
<1>6. Hours(d.resendWait) \in Int
  BY <1>5, HoursFit, Zenon
<1>7. definition(m, n) = d
  BY <1>1, Zenon DEF definition
<1>8. WaitOf(m)[n] = Hours(d.resendWait)
  BY <1>7, Zenon DEF WaitOf
<1>9. ResolvableOf(m)[n] = d.resolvedDesc
  BY <1>3, <1>7, Zenon DEF ResolvableOf
<1>10. WaitOf(m)[n] # Nil
  BY <1>6, <1>8, NilAssumption, Zenon
<1> QED BY <1>3, <1>5, <1>6, <1>7, <1>8, <1>9, <1>10, Zenon

\* The answers of CanBeSent, in the terms of the throttle.
LEMMA AnswerFacts ==
    ASSUME NEW T \in Nat, NEW m, Good(m, T), NEW n \in Names,
           NEW firing \in BOOLEAN, NEW u \in Nat
    PROVE  /\ CanBeSent(m, n, firing, u) = "panic" <=> Panics(m, n, firing)
           /\ CanBeSent(m, n, firing, u) = "yes" => Permits(m, n, firing, u)
<1>1. m \in ManagedNotifications /\ m # Nil
  BY NilAssumption, Zenon DEF Good
<1>2. PICK d : d = GetNotificationForName(m, n)
  BY Zenon
<1>0. "panic" # "yes" /\ "panic" # "no" /\ "panic" # "error" /\ "yes" # "no" /\ "yes" # "error"
  OBVIOUS
<1>3. CASE d = Nil
  <2>1. CanBeSent(m, n, firing, u) = "error"
    BY <1>2, <1>3, Zenon DEF CanBeSent
  <2>2. definition(m, n) = Nil
    BY <1>1, <1>2, <1>3, Zenon DEF definition
  <2> QED BY <1>0, <2>1, <2>2, Zenon DEF Panics
<1>4. CASE d # Nil
  <2>1. /\ d.resolvedDesc \in BOOLEAN /\ d.resendWait \in Int
        /\ definition(m, n) = d /\ ResolvableOf(m)[n] = d.resolvedDesc
        /\ WaitOf(m)[n] = Hours(d.resendWait) /\ WaitOf(m)[n] \in Int /\ WaitOf(m)[n] # Nil
    BY <1>1, <1>2, <1>4, DefinedFacts, Zenon
  <2>2. CASE Missing(m, n)
    <3>1. CanBeSent(m, n, firing, u) = IF firing THEN "yes" ELSE "no"
      BY <1>2, <1>4, <2>2, Zenon DEF CanBeSent, HasNotificationRecord, Missing
    <3>2. HoldOf(m)[n] = {} /\ history(m, n) = {}
      BY <2>2, HoldFacts, Zenon DEF Missing
    <3> QED BY <1>0, <2>1, <3>1, <3>2, Zenon DEF Panics, Permits
  <2>3. ASSUME NEW s, Found(m, n, s, T)
        PROVE  /\ CanBeSent(m, n, firing, u) = "panic" <=> Panics(m, n, firing)
               /\ CanBeSent(m, n, firing, u) = "yes" => Permits(m, n, firing, u)
    <3>1. CanBeSent(m, n, firing, u) =
              IF firing THEN FiringCanBeSent(d, s, u) ELSE ResolvedCanBeSent(d, s)
      BY <1>2, <1>4, <2>3, Zenon DEF CanBeSent, HasNotificationRecord, Found
    <3>2. /\ Orderly(s.conditions, T) /\ history(m, n) # {}
          /\ said(m, n, "ServiceLogSent") = OfType(s.conditions, "ServiceLogSent")
          /\ said(m, n, "AlertFiring") = OfType(s.conditions, "AlertFiring")
      BY <2>3, Zenon DEF Found
    <3>3. CASE firing
      <4>1. CanBeSent(m, n, firing, u) = FiringCanBeSent(d, s, u)
        BY <3>1, <3>3, Zenon
      <4>2. CASE /\ OfType(s.conditions, "ServiceLogSent") = {}
                 /\ GetCondition(s.conditions, "ServiceLogSent") = Nil
        <5>1. FiringCanBeSent(d, s, u) = "yes"
          BY <4>2, Zenon DEF FiringCanBeSent
        <5>2. HoldOf(m)[n] = {} /\ said(m, n, "ServiceLogSent") = {}
          BY <3>2, <4>2, HoldFacts, Zenon
        <5> QED BY <1>0, <2>1, <3>3, <4>1, <5>1, <5>2, Zenon DEF Panics, Permits
      <4>3. ASSUME NEW c \in NotificationConditions,
                   OfType(s.conditions, "ServiceLogSent") = {c},
                   GetCondition(s.conditions, "ServiceLogSent") = c,
                   c.lastTransitionTime \in Times(T)
            PROVE  /\ CanBeSent(m, n, firing, u) = "panic" <=> Panics(m, n, firing)
                   /\ CanBeSent(m, n, firing, u) = "yes" => Permits(m, n, firing, u)
        <5>1. c # Nil /\ said(m, n, "ServiceLogSent") = {c}
          BY <3>2, <4>3, NilAssumption, Zenon
        <5>2. FiringCanBeSent(d, s, u) =
                  IF c.lastTransitionTime = Nil THEN "panic"
                  ELSE IF /\ u < c.lastTransitionTime + WaitOf(m)[n]
                          /\ c.status = "True" THEN "no" ELSE "yes"
          BY <2>1, <4>3, <5>1, Zenon DEF FiringCanBeSent
        <5>3. Panics(m, n, firing) <=> c.lastTransitionTime = Nil
          BY <1>4, <2>1, <3>2, <3>3, <5>1, Zenon DEF Panics
        <5>4. HoldOf(m)[n] = IF c.status = "True" /\ c.lastTransitionTime # Nil
                             THEN {c.lastTransitionTime} ELSE {}
          BY <5>1, HoldFacts, Zenon
        <5>5. c.lastTransitionTime # Nil => c.lastTransitionTime \in Nat
          BY <4>3 DEF Times
        <5>6. ASSUME NEW w \in Int, NEW t \in Nat, ~(u < t + w)
              PROVE  u >= t + w
          BY <5>6
        <5>7. CASE c.lastTransitionTime = Nil
          BY <1>0, <4>1, <5>2, <5>3, <5>7, Zenon
        <5>8. CASE c.lastTransitionTime # Nil
          <6>1. PICK t \in Nat, w \in Int : t = c.lastTransitionTime /\ w = WaitOf(m)[n]
            BY <2>1, <5>5, <5>8, Zenon
          <6>2. ~Panics(m, n, firing) /\ CanBeSent(m, n, firing, u) # "panic"
            BY <1>0, <4>1, <5>2, <5>3, <5>8, Zenon
          <6>3. CanBeSent(m, n, firing, u) = "yes" => ~(u < t + w) \/ c.status # "True"
            BY <1>0, <4>1, <5>2, <5>8, <6>1, Zenon
          <6>4. HoldOf(m)[n] = IF c.status = "True" THEN {t} ELSE {}
            BY <5>4, <5>8, <6>1, Zenon
          <6>5. ~(u < t + w) \/ c.status # "True" => \A x \in HoldOf(m)[n] : u >= x + w
            BY <5>6, <6>4, Zenon
          <6> QED BY <2>1, <3>3, <6>1, <6>2, <6>3, <6>5, Zenon DEF Permits
        <5> QED BY <5>7, <5>8, Zenon
      <4> QED BY <3>2, <4>2, <4>3, ConditionFound, Zenon
    <3>4. CASE ~firing
      <4>1. CanBeSent(m, n, firing, u) = ResolvedCanBeSent(d, s)
        BY <3>1, <3>4, Zenon
      <4>2. CASE /\ OfType(s.conditions, "AlertFiring") = {}
                 /\ GetCondition(s.conditions, "AlertFiring") = Nil
        <5>1. ResolvedCanBeSent(d, s) = IF d.resolvedDesc THEN "panic" ELSE "no"
          BY <2>1, <4>2, Zenon DEF ResolvedCanBeSent
        <5>2. Panics(m, n, firing) <=> d.resolvedDesc
          BY <1>4, <2>1, <3>2, <3>4, <4>2, Zenon DEF Panics
        <5> QED BY <1>0, <4>1, <5>1, <5>2, Zenon
      <4>3. ASSUME NEW c \in NotificationConditions,
                   OfType(s.conditions, "AlertFiring") = {c},
                   GetCondition(s.conditions, "AlertFiring") = c
            PROVE  /\ CanBeSent(m, n, firing, u) = "panic" <=> Panics(m, n, firing)
                   /\ CanBeSent(m, n, firing, u) = "yes" => Permits(m, n, firing, u)
        <5>1. c # Nil /\ said(m, n, "AlertFiring") = {c}
          BY <3>2, <4>3, NilAssumption, Zenon
        <5>2. ResolvedCanBeSent(d, s) =
                  IF d.resolvedDesc /\ c.status = "True" THEN "yes" ELSE "no"
          BY <2>1, <4>3, <5>1, Zenon DEF ResolvedCanBeSent
        <5>3. ~Panics(m, n, firing)
          BY <3>4, <5>1, Zenon DEF Panics
        <5>4. PhaseOf(m)[n] = IF c.status = "True" THEN "firing" ELSE "resolved"
          BY <3>2, <5>1, PhaseFacts, Zenon
        <5> QED BY <1>0, <2>1, <3>4, <4>1, <5>2, <5>3, <5>4, Zenon DEF Permits
      <4>4. \/ /\ OfType(s.conditions, "AlertFiring") = {}
               /\ GetCondition(s.conditions, "AlertFiring") = Nil
            \/ \E c \in NotificationConditions :
                   /\ OfType(s.conditions, "AlertFiring") = {c}
                   /\ GetCondition(s.conditions, "AlertFiring") = c
        BY <3>2, ConditionFound
      <4> QED BY <4>2, <4>3, <4>4, Zenon
    <3> QED BY <3>3, <3>4, Zenon
  <2> QED BY <2>2, <2>3, FoundFacts, Zenon
<1> QED BY <1>3, <1>4, Zenon

\* What an attempt changes of what the throttle sees.
Shows(new, m, n, style, firing, u) ==
    /\ WaitOf(new) = WaitOf(m) /\ ResolvableOf(new) = ResolvableOf(m)
    /\ PhaseOf(new) = [PhaseOf(m) EXCEPT ![n] =
           IF "AlertFiring" \notin style.marks
           THEN IF style.anew \/ @ = "never" THEN "unknown" ELSE @
           ELSE IF firing THEN "firing" ELSE "resolved"]
    /\ \/ /\ "ServiceLogSent" \in style.marks \/ style.anew
          /\ HoldOf(new) = [HoldOf(m) EXCEPT ![n] = {}]
       \/ /\ "ServiceLogSent" \in style.marks
          /\ \A t \in HoldOf(m)[n] : t <= u
          /\ HoldOf(new) = [HoldOf(m) EXCEPT ![n] = {u}]
       \/ /\ "ServiceLogSent" \notin style.marks /\ ~style.anew
          /\ HoldOf(new) = HoldOf(m)

LEMMA RecordView ==
    ASSUME NEW T \in Nat, NEW m, Good(m, T), NEW n \in Names, NEW style \in Styles,
           NEW firing \in BOOLEAN, NEW ok \in BOOLEAN, NEW u \in Nat, T <= u
    PROVE  Shows(Recorded(m, n, style, firing, ok, u), m, n, style, firing, u)
<1>1. PICK new : /\ new = Recorded(m, n, style, firing, ok, u)
                 /\ Records(new, m, n, style, firing, ok, u)
  BY RecordedFacts, Zenon
<1>2. /\ Good(new, u) /\ new.notifications = m.notifications /\ history(new, n) # {}
      /\ \A k \in Names \ {n} : history(new, k) = history(m, k)
  BY <1>1, Zenon DEF Records
<1>3. new # Nil /\ m # Nil
  BY <1>2, NilAssumption, Zenon DEF Good
<1>4. \A k \in Names : definition(new, k) = definition(m, k)
  BY <1>2, <1>3, Zenon DEF definition, GetNotificationForName
<1>5. WaitOf(new) = WaitOf(m) /\ ResolvableOf(new) = ResolvableOf(m)
  BY <1>4, Zenon DEF WaitOf, ResolvableOf
<1>6. /\ said(new, n, "AlertFiring") =
             Restated(Kept(m, n, style, "AlertFiring"), style, "AlertFiring", firing, ok, u)
      /\ said(new, n, "ServiceLogSent") =
             Restated(Kept(m, n, style, "ServiceLogSent"), style, "ServiceLogSent", firing, ok, u)
  BY <1>1, Zenon DEF Records, ConditionTypes
<1>7. \A k \in Names \ {n} : /\ PhaseOf(new)[k] = PhaseOf(m)[k]
                             /\ HoldOf(new)[k] = HoldOf(m)[k]
  BY <1>2, SameView, Zenon
<1>8. \A t \in HoldOf(m)[n] : t <= u
  <2>1. \A t \in HoldOf(m)[n] : t \in 0..T
    BY HoldTimes, Zenon
  <2>2. \A t \in 0..T : t <= u
    OBVIOUS
  <2> QED BY <2>1, <2>2, Zenon
<1>9. PICK p : p = IF "AlertFiring" \notin style.marks
                   THEN IF style.anew \/ PhaseOf(m)[n] = "never" THEN "unknown" ELSE PhaseOf(m)[n]
                   ELSE IF firing THEN "firing" ELSE "resolved"
  BY Zenon
<1>10. PhaseOf(new)[n] = p
  <2>1. CASE "AlertFiring" \in style.marks
    <3>1. PICK c : /\ said(new, n, "AlertFiring") = {c}
                   /\ c = Condition("AlertFiring", Toggle(firing), Time(style, u))
      BY <1>6, <2>1, Zenon DEF Restated, Statement, Value
    <3>2. c.status = "True" <=> firing
      BY <3>1 DEF Condition, Toggle
    <3>3. PhaseOf(new)[n] = IF c.status = "True" THEN "firing" ELSE "resolved"
      BY <1>2, <3>1, PhaseFacts, Zenon
    <3> QED BY <1>9, <2>1, <3>2, <3>3, Zenon
  <2>2. CASE "AlertFiring" \notin style.marks /\ style.anew
    <3>1. said(new, n, "AlertFiring") = {}
      BY <1>6, <2>2, Zenon DEF Restated, Kept
    <3>2. PhaseOf(new)[n] = "unknown"
      BY <1>2, <3>1, PhaseFacts, Zenon
    <3> QED BY <1>9, <2>2, <3>2, Zenon
  <2>3. CASE "AlertFiring" \notin style.marks /\ ~style.anew
    <3>1. said(new, n, "AlertFiring") = said(m, n, "AlertFiring")
      BY <1>6, <2>3, Zenon DEF Restated, Kept
    <3>2. CASE history(m, n) = {}
      <4>1. said(new, n, "AlertFiring") = {}
        BY <3>1, <3>2, Zenon DEF said
      <4>2. PhaseOf(new)[n] = "unknown" /\ PhaseOf(m)[n] = "never"
        BY <1>2, <3>2, <4>1, PhaseFacts, Zenon
      <4> QED BY <1>9, <2>3, <4>2, Zenon
    <3>3. CASE history(m, n) # {}
      <4>1. PhaseOf(m)[n] # "never"
        BY <3>3, PhaseFacts, Zenon
      <4>2. PhaseOf(new)[n] = PhaseOf(m)[n]
        BY <1>2, <3>1, <3>3, Zenon DEF PhaseOf
      <4> QED BY <1>9, <2>3, <4>1, <4>2, Zenon
    <3> QED BY <3>2, <3>3, Zenon
  <2> QED BY <2>1, <2>2, <2>3, Zenon
<1>11. PhaseOf(new) = [PhaseOf(m) EXCEPT ![n] = p]
  <2>1. /\ PhaseOf(new) = [k \in Names |-> PhaseOf(new)[k]]
        /\ PhaseOf(m) = [k \in Names |-> PhaseOf(m)[k]]
    BY Zenon DEF PhaseOf
  <2> QED BY <1>7, <1>10, <2>1, Zenon
<1>12. ASSUME NEW S, HoldOf(new)[n] = S
       PROVE  HoldOf(new) = [HoldOf(m) EXCEPT ![n] = S]
  <2>1. /\ HoldOf(new) = [k \in Names |-> HoldOf(new)[k]]
        /\ HoldOf(m) = [k \in Names |-> HoldOf(m)[k]]
    BY Zenon DEF HoldOf
  <2> QED BY <1>7, <1>12, <2>1, ZenonT(30)
<1>13. \/ /\ "ServiceLogSent" \in style.marks \/ style.anew
          /\ HoldOf(new) = [HoldOf(m) EXCEPT ![n] = {}]
       \/ /\ "ServiceLogSent" \in style.marks
          /\ HoldOf(new) = [HoldOf(m) EXCEPT ![n] = {u}]
       \/ /\ "ServiceLogSent" \notin style.marks /\ ~style.anew
          /\ HoldOf(new) = HoldOf(m)
  <2>1. CASE "ServiceLogSent" \in style.marks
    <3>1. PICK c : /\ said(new, n, "ServiceLogSent") = {c}
                   /\ c = Statement(style, "ServiceLogSent", firing, ok, u)
      BY <1>6, <2>1, Zenon DEF Restated
    <3>2. c.lastTransitionTime = Nil \/ c.lastTransitionTime = u
      BY <3>1, Zenon DEF Statement, Condition, Time
    <3>3. HoldOf(new)[n] = IF c.status = "True" /\ c.lastTransitionTime # Nil
                           THEN {c.lastTransitionTime} ELSE {}
      <4>1. said(new, n, "ServiceLogSent") = {c}
        BY <3>1, Zenon
      <4> QED BY <4>1, HoldFacts
    <3>4. HoldOf(new)[n] = {} \/ HoldOf(new)[n] = {u}
      BY <3>2, <3>3, Zenon
    <3> QED BY <1>12, <2>1, <3>4, Zenon
  <2>2. CASE "ServiceLogSent" \notin style.marks /\ style.anew
    <3>1. said(new, n, "ServiceLogSent") = {}
      BY <1>6, <2>2, Zenon DEF Restated, Kept
    <3>2. HoldOf(new)[n] = {}
      BY <3>1, HoldFacts, Zenon
    <3> QED BY <1>12, <2>2, <3>2, Zenon
  <2>3. CASE "ServiceLogSent" \notin style.marks /\ ~style.anew
    <3>1. said(new, n, "ServiceLogSent") = said(m, n, "ServiceLogSent")
      BY <1>6, <2>3, Zenon DEF Restated, Kept
    <3>2. HoldOf(new)[n] = HoldOf(m)[n]
      BY <3>1, Zenon DEF HoldOf
    <3>3. HoldOf(new) = [HoldOf(m) EXCEPT ![n] = HoldOf(m)[n]]
      BY <1>12, <3>2, Zenon
    <3>4. HoldOf(new) = HoldOf(m)
      BY <3>3, Zenon DEF HoldOf
    <3> QED BY <2>3, <3>4, Zenon
  <2> QED BY <2>1, <2>2, <2>3, Zenon
<1>14. PhaseOf(new) = [PhaseOf(m) EXCEPT ![n] =
           IF "AlertFiring" \notin style.marks
           THEN IF style.anew \/ @ = "never" THEN "unknown" ELSE @
           ELSE IF firing THEN "firing" ELSE "resolved"]
  BY <1>9, <1>11, Zenon DEF PhaseOf
<1>15. Shows(new, m, n, style, firing, u)
  BY <1>5, <1>8, <1>13, <1>14, Zenon DEF Shows
<1> QED BY <1>1, <1>15, Zenon

\* What the throttle sees of an object that is not there, and the types of
\* what it sees.
LEMMA ViewTypes ==
    /\ WaitOf(Nil) = [n \in Names |-> Nil] /\ ResolvableOf(Nil) = [n \in Names |-> FALSE]
    /\ PhaseOf(Nil) = [n \in Names |-> "never"] /\ HoldOf(Nil) = [n \in Names |-> {}]
    /\ \A m \in ManagedNotifications : /\ WaitOf(m) \in [Names -> Int \cup {Nil}]
                                      /\ ResolvableOf(m) \in [Names -> BOOLEAN]
<1>1. WaitOf(Nil) = [n \in Names |-> Nil] /\ ResolvableOf(Nil) = [n \in Names |-> FALSE]
  BY ZenonT(30) DEF WaitOf, ResolvableOf, definition
<1>2. \A n \in Names : history(Nil, n) = {} /\ said(Nil, n, "ServiceLogSent") = {}
  BY Zenon DEF history, said
<1>3. \A n \in Names : PhaseOf(Nil)[n] = "never" /\ HoldOf(Nil)[n] = {}
  BY <1>2, PhaseFacts, HoldFacts, Zenon
<1>4. PhaseOf(Nil) = [n \in Names |-> "never"] /\ HoldOf(Nil) = [n \in Names |-> {}]
  <2>1. /\ PhaseOf(Nil) = [n \in Names |-> PhaseOf(Nil)[n]]
        /\ HoldOf(Nil) = [n \in Names |-> HoldOf(Nil)[n]]
    BY Zenon DEF PhaseOf, HoldOf
  <2> QED BY <1>3, <2>1, Zenon
<1>5. ASSUME NEW m \in ManagedNotifications
      PROVE  WaitOf(m) \in [Names -> Int \cup {Nil}] /\ ResolvableOf(m) \in [Names -> BOOLEAN]
  <2>1. \A n \in Names : definition(m, n) = Nil \/ definition(m, n) \in Notifications
    BY DefinitionFacts, Zenon DEF definition
  <2>2. Int32s \subseteq Int
    BY WidthsAssumption DEF Int32s
  <2>3. \A d \in Notifications : Hours(d.resendWait) \in Int /\ d.resolvedDesc \in BOOLEAN
    BY <2>2, HoursFit, WaitsAssumption, ZenonT(30) DEF Notifications
  <2> QED BY <2>1, <2>3, Zenon DEF WaitOf, ResolvableOf
<1> QED BY <1>1, <1>4, <1>5, Zenon

=============================================================================
