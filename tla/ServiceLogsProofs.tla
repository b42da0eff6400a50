------------------------- MODULE ServiceLogsProofs -------------------------
(***************************************************************************)
(* The inductive invariant of ServiceLogs, for any handlers, whatever each *)
(* of them records and with or without times, any names, specs and limits  *)
(* and any width of the integers; that the counts are right, when          *)
(* CanBeSent answers and when it panics, and that ServiceLogs implements   *)
(* ServiceLogThrottle.                                                     *)
(***************************************************************************)
EXTENDS ManagedNotificationProofs

-----------------------------------------------------------------------------
(* The inductive invariant.                                                *)

\* How the conditions of a type were told.
Told(C) ==
    IF C = {} THEN "no"
    ELSE IF \E c \in C : c.lastTransitionTime = Nil THEN "untimed" ELSE "timed"

\* The record of n and its history r say the same.
Matches(m, n, r) ==
    /\ CountOf(m, n) = Int32(r.sent + r.failed)
    /\ history(m, n) = {} <=> r.sent + r.failed = 0
    /\ \A type \in ConditionTypes : r.told[type] = Told(said(m, n, type))

\* The object tells what was recorded since it was created.
Sound(m, rec, T) ==
    IF m = Nil THEN \A n \in Names : rec[n] = NoHistory
    ELSE Good(m, T) /\ \A n \in Names : Matches(m, n, rec[n])

\* What a handler knows is true of the object it read, as long as that is
\* the object.
Informed(a, style, m, v, T) ==
    /\ a.read <= v
    /\ a.pc # "idle" => a.name \in Names
    /\ a.pc = "send" /\ a.read = v =>
           m # Nil /\ \E u \in 0..T : CanBeSent(m, a.name, a.firing, u) = "yes"
    /\ a.pc = "update" /\ a.read = v =>
           /\ m # Nil
           /\ \E u \in 0..T : /\ Good(m, u)
                             /\ a.draft = Recorded(m, a.name, style, a.firing,
                                                   a.ok, u)

Inv ==
    /\ TypeOK
    /\ Sound(mn, recorded, now)
    /\ \A h \in Handlers : Informed(handlers[h], Style[h], mn, version, now)

\* A handler that does nothing knows nothing wrong.
LEMMA IdleFacts ==
    /\ Idle \in HandlerStates
    /\ \A style, m : \A v, T \in Nat : Informed(Idle, style, m, v, T)
BY DEF Idle, HandlerStates, Informed

\* What a handler read stays true while the clock runs.
LEMMA InformedLater ==
    ASSUME NEW a, NEW style, NEW m, NEW v \in Nat, NEW T \in Nat,
           Informed(a, style, m, v, T)
    PROVE  Informed(a, style, m, v, T + 1)
<1>1. \A u \in 0..T : u \in 0..(T + 1)
  OBVIOUS
<1> QED BY <1>1, Zenon DEF Informed

\* When the object is written, every other handler's copy is stale.
LEMMA InformedStale ==
    ASSUME NEW a \in HandlerStates, NEW style, NEW m, NEW v \in Nat, NEW T \in Nat,
           Informed(a, style, m, v, T), NEW new
    PROVE  Informed(a, style, new, v + 1, T)
<1>1. a.read \in Nat /\ a.read <= v
  BY Zenon DEF Informed, HandlerStates
<1>2. a.read <= v + 1 /\ a.read # v + 1
  BY <1>1
<1>3. a.pc # "idle" => a.name \in Names
  BY Zenon DEF Informed
<1> QED BY <1>2, <1>3, Zenon DEF Informed

\* One handler goes on, and nothing is written.
LEMMA HandlerStep ==
    ASSUME Inv, NEW h \in Handlers, NEW x \in HandlerStates,
           Informed(x, Style[h], mn, version, now),
           handlers' = [handlers EXCEPT ![h] = x],
           UNCHANGED <<mn, version, now, recorded>>, budget' \in [Disturbances -> Nat]
    PROVE  Inv'
<1>1. TypeOK'
  BY Zenon DEF Inv, TypeOK
<1>2. \A k \in Handlers : handlers'[k] = IF k = h THEN x ELSE handlers[k]
  BY Zenon DEF Inv, TypeOK
<1>3. \A k \in Handlers : Informed(handlers'[k], Style[k], mn, version, now)
  BY <1>2, Zenon DEF Inv
<1>4. \A k \in Handlers : Informed(handlers[k], Style[k], mn, version, now)'
  BY <1>3, Zenon
<1>5. Sound(mn, recorded, now)'
  BY Zenon DEF Inv
<1> QED BY <1>1, <1>4, <1>5, Zenon DEF Inv

\* The object is written, and a handler goes on or is done.
LEMMA WriteStep ==
    ASSUME Inv, mn' \in ManagedNotifications \cup {Nil}, version' = version + 1,
           now' = now, recorded' \in [Names -> Histories], Sound(mn', recorded', now),
           budget' \in [Disturbances -> Nat],
           \/ handlers' = handlers
           \/ \E h \in Handlers : handlers' = [handlers EXCEPT ![h] = Idle]
    PROVE  Inv'
<1>1. version \in Nat /\ now \in Nat /\ handlers \in [Handlers -> HandlerStates]
  BY Zenon DEF Inv, TypeOK
<1>2. /\ handlers' \in [Handlers -> HandlerStates]
      /\ \A k \in Handlers : handlers'[k] \in {handlers[k], Idle}
  BY <1>1, IdleFacts
<1>3. TypeOK'
  BY <1>1, <1>2 DEF TypeOK
<1>4. ASSUME NEW k \in Handlers
      PROVE  Informed(handlers'[k], Style[k], mn', version + 1, now)
  <2>1. CASE handlers'[k] = Idle
    <3>1. version + 1 \in Nat
      BY <1>1
    <3> QED BY <1>1, <2>1, <3>1, IdleFacts, Zenon
  <2>2. CASE handlers'[k] = handlers[k]
    <3>1. handlers[k] \in HandlerStates /\ Informed(handlers[k], Style[k], mn, version, now)
      BY <1>1, Zenon DEF Inv
    <3> QED BY <1>1, <2>2, <3>1, InformedStale, Zenon
  <2> QED BY <1>2, <2>1, <2>2, Zenon
<1>5. \A k \in Handlers : Informed(handlers[k], Style[k], mn, version, now)'
  BY <1>4, Zenon
<1>6. Sound(mn, recorded, now)'
  BY Zenon
<1> QED BY <1>3, <1>5, <1>6, Zenon DEF Inv

LEMMA NoHistoryFacts ==
    /\ NoHistory \in Histories /\ NoHistory.sent + NoHistory.failed = 0
    /\ \A type \in ConditionTypes : NoHistory.told[type] = "no"
BY DEF NoHistory, Histories

\* The count is that of the only record.
LEMMA SameCount ==
    ASSUME NEW T \in Nat, NEW m, NEW new, Good(m, T), Good(new, T), NEW k \in Names,
           history(new, k) = history(m, k)
    PROVE  CountOf(new, k) = CountOf(m, k)
<1>1. CASE history(m, k) = {}
  <2>1. \A s : ~Found(m, k, s, T) /\ ~Found(new, k, s, T)
    BY <1>1, Zenon DEF Found
  <2>2. Missing(m, k) /\ Missing(new, k)
    BY <2>1, FoundFacts, Zenon
  <2> QED BY <2>2, Zenon DEF Missing
<1>2. CASE history(m, k) # {}
  <2>1. PICK s : Found(m, k, s, T)
    BY <1>2, FoundFacts, Zenon DEF Missing
  <2>2. PICK t : Found(new, k, t, T)
    BY <1>2, FoundFacts, Zenon DEF Missing
  <2>3. s = t
    BY <2>1, <2>2, Zenon DEF Found
  <2> QED BY <2>1, <2>2, <2>3, Zenon DEF Found
<1> QED BY <1>1, <1>2, Zenon

\* What an attempt adds to a history.
LEMMA NotedFacts ==
    ASSUME NEW r \in Histories, NEW style \in Styles, NEW ok \in BOOLEAN,
           NEW q, q = Noted(r, style, ok)
    PROVE  /\ q \in Histories /\ q.sent + q.failed = (r.sent + r.failed) + 1
           /\ r.sent + r.failed \in Nat
           /\ \A type \in ConditionTypes :
                  q.told[type] = IF type \in style.marks
                                 THEN IF style.timed THEN "timed" ELSE "untimed"
                                 ELSE IF style.anew THEN "no" ELSE r.told[type]
<1>1. r.sent \in Nat /\ r.failed \in Nat /\ r.told \in [ConditionTypes -> {"no", "timed", "untimed"}]
  BY Zenon DEF Histories
<1>2. PICK told : told = [c \in ConditionTypes |->
                             IF c \in style.marks
                             THEN IF style.timed THEN "timed" ELSE "untimed"
                             ELSE IF style.anew THEN "no" ELSE r.told[c]]
  BY Zenon
<1>3. told \in [ConditionTypes -> {"no", "timed", "untimed"}]
  BY <1>1, <1>2
<1>4. /\ q.sent = IF ok THEN r.sent + 1 ELSE r.sent
      /\ q.failed = IF ok THEN r.failed ELSE r.failed + 1
      /\ q.told = told /\ q = [sent |-> q.sent, failed |-> q.failed, told |-> told]
  BY <1>2, Zenon DEF Noted
<1>5. /\ q.sent \in Nat /\ q.failed \in Nat /\ r.sent + r.failed \in Nat
      /\ q.sent + q.failed = (r.sent + r.failed) + 1
  BY <1>1, <1>4
<1>6. q \in Histories
  BY <1>3, <1>4, <1>5, Zenon DEF Histories
<1> QED BY <1>2, <1>4, <1>5, <1>6, Zenon

NotedIn(rec, n, style, ok) == [rec EXCEPT ![n] = Noted(@, style, ok)]

AllMatch(m, rec) == \A n \in Names : Matches(m, n, rec[n])

Stable(new, rec, T) ==
    new \in ManagedNotifications /\ rec \in [Names -> Histories] /\ Sound(new, rec, T)

\* What is stored is counted once, and nothing else is.
LEMMA StoredSound ==
    ASSUME NEW m, NEW T \in Nat, NEW u \in 0..T, Good(m, u), NEW n \in Names,
           NEW style \in Styles, NEW firing \in BOOLEAN, NEW ok \in BOOLEAN,
           NEW rec \in [Names -> Histories], AllMatch(m, rec)
    PROVE  Stable(Recorded(m, n, style, firing, ok, u), NotedIn(rec, n, style, ok), T)
<1> SUFFICES ASSUME NEW new, new = Recorded(m, n, style, firing, ok, u),
                    NEW noted, noted = NotedIn(rec, n, style, ok)
             PROVE  Stable(new, noted, T)
  BY Zenon
<1>0. noted = [rec EXCEPT ![n] = Noted(@, style, ok)] /\ \A k \in Names : Matches(m, k, rec[k])
  BY Zenon DEF NotedIn, AllMatch
<1>1. u \in Nat /\ u <= u /\ u <= T
  OBVIOUS
<1>2. Records(new, m, n, style, firing, ok, u)
  BY <1>1, RecordedFacts, Zenon
<1>3. Good(new, u)
  BY <1>2, Zenon DEF Records
<1>4. Good(new, T) /\ new \in ManagedNotifications /\ new # Nil
  BY <1>1, <1>3, GoodLater, NilAssumption, Zenon DEF Good
<1>5. PICK r, q : r = rec[n] /\ r \in Histories /\ q = Noted(r, style, ok)
  BY Zenon
<1>6. /\ q \in Histories /\ q.sent + q.failed = (r.sent + r.failed) + 1
      /\ r.sent + r.failed \in Nat
      /\ \A type \in ConditionTypes :
             q.told[type] = IF type \in style.marks
                            THEN IF style.timed THEN "timed" ELSE "untimed"
                            ELSE IF style.anew THEN "no" ELSE r.told[type]
  BY <1>5, NotedFacts
<1>7. /\ noted \in [Names -> Histories] /\ noted[n] = q
      /\ \A k \in Names \ {n} : noted[k] = rec[k]
  BY <1>0, <1>5, <1>6, Zenon
<1>8. Matches(new, n, q)
  <2>1. /\ CountOf(m, n) = Int32(r.sent + r.failed)
        /\ \A type \in ConditionTypes : r.told[type] = Told(said(m, n, type))
    BY <1>0, <1>5, Zenon DEF Matches
  <2>2. PICK N \in Nat : N = r.sent + r.failed
    BY <1>6, Zenon
  <2>3. CountOf(new, n) = Int32(q.sent + q.failed)
    <3>1. CountOf(new, n) = Int32(Int32(N) + 1)
      BY <1>2, <2>1, <2>2, Zenon DEF Records
    <3>2. Int32(Int32(N) + 1) = Int32(N + 1)
      BY Int32Counts, Zenon
    <3> QED BY <1>6, <2>2, <3>1, <3>2, Zenon
  <2>4. history(new, n) # {} /\ q.sent + q.failed # 0
    <3>1. N + 1 # 0
      OBVIOUS
    <3> QED BY <1>2, <1>6, <2>2, <3>1, Zenon DEF Records
  <2>5. ASSUME NEW type \in ConditionTypes
        PROVE  q.told[type] = Told(said(new, n, type))
    <3>1. said(new, n, type) =
              Restated(Kept(m, n, style, type), style, type, firing, ok, u)
      BY <1>2, <2>5, Zenon DEF Records
    <3>2. CASE type \in style.marks
      <4>1. PICK c : /\ said(new, n, type) = {c}
                     /\ c = Statement(style, type, firing, ok, u)
        BY <3>1, <3>2, Zenon DEF Restated
      <4>2. c.lastTransitionTime = IF style.timed THEN u ELSE Nil
        BY <4>1, Zenon DEF Statement, Condition, Time
      <4>3. u # Nil
        BY <1>1, NilAssumption
      <4>4. Told({c}) = IF style.timed THEN "timed" ELSE "untimed"
        BY <4>2, <4>3, Zenon DEF Told
      <4> QED BY <1>6, <3>2, <4>1, <4>4, Zenon
    <3>3. CASE type \notin style.marks
      <4>1. said(new, n, type) = IF style.anew THEN {} ELSE said(m, n, type)
        BY <3>1, <3>3, Zenon DEF Restated, Kept
      <4>2. Told({}) = "no"
        BY Zenon DEF Told
      <4> QED BY <1>6, <2>1, <3>3, <4>1, <4>2, Zenon
    <3> QED BY <3>2, <3>3, Zenon
  <2> QED BY <2>3, <2>4, <2>5, Zenon DEF Matches
<1>9. ASSUME NEW k \in Names \ {n}
      PROVE  Matches(new, k, rec[k])
  <2>1. history(new, k) = history(m, k)
    BY <1>2, Zenon DEF Records
  <2>2. \A type : said(new, k, type) = said(m, k, type)
    BY <2>1, Zenon DEF said
  <2>3. CountOf(new, k) = CountOf(m, k)
    <3>1. k \in Names
      BY Zenon
    <3> QED BY <1>1, <1>3, <2>1, <3>1, SameCount
  <2> QED BY <1>0, <2>1, <2>2, <2>3, Zenon DEF Matches
<1>10. \A k \in Names : Matches(new, k, noted[k])
  BY <1>7, <1>8, <1>9, Zenon
<1> QED BY <1>4, <1>7, <1>10, Zenon DEF Sound, Stable

\* The disturbances left are counted in Nat.
LEMMA SpendTyped ==
    ASSUME TypeOK, NEW d \in Disturbances, Spend(d)
    PROVE  budget' \in [Disturbances -> Nat]
BY DEF TypeOK, Spend

\* An alert arrives.
LEMMA ReceiveInv ==
    ASSUME Inv, NEW h \in Handlers, NEW n \in Names, NEW firing \in BOOLEAN,
           Receive(h, n, firing)
    PROVE  Inv'
<1> DEFINE x == [pc |-> "send", name |-> n, firing |-> firing, read |-> version,
                 ok |-> FALSE, draft |-> Nil]
<1>1. TypeOK /\ version \in Nat /\ now \in Nat
  BY Zenon DEF Inv, TypeOK
<1>2. budget' \in [Disturbances -> Nat]
  BY <1>1, SpendTyped, Zenon DEF Receive, Disturbances
<1>3. x \in HandlerStates
  BY <1>1, Zenon DEF HandlerStates
<1>4. now \in 0..now /\ mn # Nil /\ CanBeSent(mn, n, firing, now) = "yes"
  BY <1>1 DEF Receive
<1>5. Informed(x, Style[h], mn, version, now)
  BY <1>1, <1>4, SMTT(30) DEF Informed
<1> HIDE DEF x
<1>6. handlers' = [handlers EXCEPT ![h] = x] /\ UNCHANGED <<mn, version, now, recorded>>
  BY Zenon DEF Receive, x
<1> QED BY <1>2, <1>3, <1>5, <1>6, HandlerStep, ZenonT(30)

\* A service log is sent, or is not.
LEMMA SendInv ==
    ASSUME Inv, NEW h \in Handlers, Send(h)
    PROVE  Inv'
<1>1. /\ TypeOK /\ handlers \in [Handlers -> HandlerStates]
      /\ handlers[h] \in HandlerStates /\ Informed(handlers[h], Style[h], mn, version, now)
  BY Zenon DEF Inv, TypeOK
<1>2. PICK ok \in BOOLEAN : handlers' = [handlers EXCEPT ![h].pc = "get", ![h].ok = ok]
  BY ZenonT(30) DEF Send
<1>3. PICK x : x = [handlers[h] EXCEPT !.pc = "get", !.ok = ok]
  BY Zenon
<1>4. handlers' = [handlers EXCEPT ![h] = x]
  BY <1>1, <1>2, <1>3, ZenonT(30)
<1>5. x \in HandlerStates /\ x.pc = "get" /\ x.read = handlers[h].read /\ x.name = handlers[h].name
  BY <1>1, <1>3, ZenonT(30) DEF HandlerStates
<1>6. Informed(x, Style[h], mn, version, now)
  BY <1>1, <1>5, Zenon DEF Informed, Send
<1>7. budget' \in [Disturbances -> Nat]
  BY <1>1, SpendTyped, Zenon DEF Send, Disturbances, TypeOK
<1>8. UNCHANGED <<mn, version, now, recorded>>
  BY Zenon DEF Send
<1> QED BY <1>4, <1>5, <1>6, <1>7, <1>8, HandlerStep, ZenonT(30)

\* The object is read again.
LEMMA GetInv ==
    ASSUME Inv, NEW h \in Handlers, Get(h)
    PROVE  Inv'
<1>1. PICK a : a = handlers[h]
  BY Zenon
<1>2. /\ TypeOK /\ a \in HandlerStates /\ Informed(a, Style[h], mn, version, now)
      /\ version \in Nat /\ now \in Nat /\ a.pc = "get"
  BY <1>1, Zenon DEF Inv, TypeOK, Get
<1>3. a.name \in Names /\ a.firing \in BOOLEAN /\ a.ok \in BOOLEAN
  BY <1>2, Zenon DEF Informed, HandlerStates
<1>4. budget' \in [Disturbances -> Nat] /\ UNCHANGED <<mn, version, now, recorded>>
  BY <1>2 DEF Get, TypeOK
<1>5. CASE mn = Nil
  <2>1. handlers' = [handlers EXCEPT ![h] = Idle]
    BY <1>5 DEF Get
  <2>2. Idle \in HandlerStates /\ Informed(Idle, Style[h], mn, version, now)
    BY <1>2, IdleFacts, Zenon
  <2> QED BY <1>4, <2>1, <2>2, HandlerStep, ZenonT(30)
<1>6. CASE mn # Nil
  <2>1. PICK d : d = Recorded(mn, a.name, Style[h], a.firing, a.ok, now)
    BY Zenon
  <2>2. Good(mn, now)
    BY <1>6, Zenon DEF Inv, Sound
  <2>3. d \in ManagedNotifications
    <3>1. Style[h] \in Styles /\ now <= now
      BY <1>2, StyleAssumption
    <3>2. Records(d, mn, a.name, Style[h], a.firing, a.ok, now)
      BY <1>2, <1>3, <2>1, <2>2, <3>1, RecordedFacts, Zenon
    <3> QED BY <3>2, Zenon DEF Records, Good
  <2>4. PICK x : x = [a EXCEPT !.pc = "update", !.read = version, !.draft = d]
    BY Zenon
  <2>5. handlers' = [handlers EXCEPT ![h] = x]
    BY <1>1, <1>6, <2>1, <2>4, ZenonT(30) DEF Get
  <2>6. /\ x \in HandlerStates /\ x.pc = "update" /\ x.read = version /\ x.draft = d
        /\ x.name = a.name /\ x.firing = a.firing /\ x.ok = a.ok
    BY <1>2, <2>3, <2>4, ZenonT(30) DEF HandlerStates
  <2>7. now \in 0..now /\ x.read <= version
    BY <1>2, <2>6
  <2>8. Informed(x, Style[h], mn, version, now)
    BY <1>3, <1>6, <2>1, <2>2, <2>6, <2>7, ZenonT(30) DEF Informed
  <2> QED BY <1>4, <2>5, <2>6, <2>8, HandlerStep, ZenonT(30)
<1> QED BY <1>5, <1>6, Zenon

\* What a handler stores that read the object as it is.
LEMMA StoreFacts ==
    ASSUME Inv, NEW h \in Handlers, NEW a, a = handlers[h], a.pc = "update",
           a.read = version, NEW noted,
           noted = [recorded EXCEPT ![a.name] = Noted(@, Style[h], a.ok)]
    PROVE  /\ a.draft \in ManagedNotifications /\ noted \in [Names -> Histories]
           /\ Sound(a.draft, noted, now)
<1>1. /\ a \in HandlerStates /\ Informed(a, Style[h], mn, version, now)
      /\ now \in Nat /\ recorded \in [Names -> Histories]
  BY Zenon DEF Inv, TypeOK
<1>2. Style[h] \in Styles
  BY StyleAssumption, Zenon
<1>3. PICK n \in Names, style \in Styles, f \in BOOLEAN, o \in BOOLEAN :
          n = a.name /\ style = Style[h] /\ f = a.firing /\ o = a.ok
  <2>1. a.name \in Names /\ a.firing \in BOOLEAN /\ a.ok \in BOOLEAN
    BY <1>1, Zenon DEF Informed, HandlerStates
  <2> QED BY <1>2, <2>1, Zenon
<1>4. mn # Nil
  BY <1>1, Zenon DEF Informed
<1>5. PICK u \in 0..now :
          Good(mn, u) /\ a.draft = Recorded(mn, n, style, f, o, u)
  BY <1>1, <1>3, ZenonT(30) DEF Informed
<1>6. AllMatch(mn, recorded)
  BY <1>4, ZenonT(30) DEF Inv, Sound, AllMatch
<1>7. noted = NotedIn(recorded, n, style, o)
  BY <1>3, Zenon DEF NotedIn
<1>8. PICK m, T, new, rec : m = mn /\ T = now /\ new = a.draft /\ rec = recorded
  BY Zenon
<1>9. /\ T \in Nat /\ u \in 0..T /\ Good(m, u) /\ rec \in [Names -> Histories]
      /\ AllMatch(m, rec) /\ new = Recorded(m, n, style, f, o, u)
      /\ noted = NotedIn(rec, n, style, o)
  BY <1>1, <1>5, <1>6, <1>7, <1>8, Zenon
<1>10. Stable(Recorded(m, n, style, f, o, u), NotedIn(rec, n, style, o), T)
  BY <1>9, StoredSound, Zenon
<1>11. Stable(new, noted, T)
  BY <1>9, <1>10, Zenon
<1> QED BY <1>8, <1>11, Zenon DEF Stable

\* The update is stored, meets a conflict, or fails.
LEMMA UpdateInv ==
    ASSUME Inv, NEW h \in Handlers, Update(h)
    PROVE  Inv'
<1>1. PICK a : a = handlers[h]
  BY Zenon
<1>2. /\ TypeOK /\ handlers \in [Handlers -> HandlerStates]
      /\ a \in HandlerStates /\ Informed(a, Style[h], mn, version, now)
      /\ version \in Nat /\ now \in Nat /\ a.pc = "update"
  BY <1>1, Zenon DEF Inv, TypeOK, Update
<1>3. budget' \in [Disturbances -> Nat] /\ now' = now
  BY <1>2, SpendTyped, Zenon DEF Update, Disturbances, TypeOK
<1>4. CASE /\ a.read = version /\ mn' = a.draft /\ version' = version + 1
           /\ recorded' = [recorded EXCEPT ![a.name] = Noted(@, Style[h], a.ok)]
           /\ handlers' = [handlers EXCEPT ![h] = Idle]
  <2>1. /\ mn' \in ManagedNotifications /\ recorded' \in [Names -> Histories]
        /\ Sound(mn', recorded', now)
    BY <1>1, <1>2, <1>4, StoreFacts, ZenonT(30)
  <2> QED BY <1>3, <1>4, <2>1, WriteStep, ZenonT(30)
<1>5. CASE /\ handlers' = [handlers EXCEPT ![h].pc = "get", ![h].draft = Nil]
           /\ UNCHANGED <<mn, version, recorded>>
  <2>1. PICK x : x = [a EXCEPT !.pc = "get", !.draft = Nil]
    BY Zenon
  <2>2. handlers' = [handlers EXCEPT ![h] = x]
    BY <1>1, <1>2, <1>5, <2>1, ZenonT(30)
  <2>3. x \in HandlerStates /\ x.pc = "get" /\ x.read = a.read /\ x.name = a.name
    BY <1>2, <2>1, ZenonT(30) DEF HandlerStates
  <2>4. Informed(x, Style[h], mn, version, now)
    BY <1>2, <2>3 DEF Informed
  <2> QED BY <1>3, <1>5, <2>2, <2>3, <2>4, HandlerStep, ZenonT(30)
<1>6. CASE /\ handlers' = [handlers EXCEPT ![h] = Idle]
           /\ UNCHANGED <<mn, version, recorded>>
  <2>1. Idle \in HandlerStates /\ Informed(Idle, Style[h], mn, version, now)
    BY <1>2, IdleFacts, Zenon
  <2> QED BY <1>3, <1>6, <2>1, HandlerStep, ZenonT(30)
<1> QED BY <1>1, <1>4, <1>5, <1>6, ZenonT(30) DEF Update, Write

\* The agent is restarted.
LEMMA CrashInv ==
    ASSUME Inv, Crash
    PROVE  Inv'
<1>1. /\ TypeOK /\ version \in Nat /\ now \in Nat
  BY Zenon DEF Inv, TypeOK
<1>2. /\ budget' \in [Disturbances -> Nat] /\ handlers' = [h \in Handlers |-> Idle]
      /\ UNCHANGED <<mn, version, now, recorded>>
  BY <1>1, SpendTyped DEF Crash, Disturbances
<1>3. TypeOK'
  BY <1>1, <1>2, IdleFacts, Zenon DEF TypeOK
<1>4. \A h \in Handlers : Informed(handlers'[h], Style[h], mn, version, now)
  BY <1>1, <1>2, IdleFacts, Zenon
<1>5. \A h \in Handlers : Informed(handlers[h], Style[h], mn, version, now)'
  BY <1>2, <1>4
<1>6. Sound(mn, recorded, now)'
  BY <1>2, Zenon DEF Inv
<1> QED BY <1>3, <1>5, <1>6, Zenon DEF Inv

\* A new object and another list of definitions have sound records.
LEMMA EditSound ==
    ASSUME NEW spec \in Specs, NEW T \in Nat, NEW rec \in [Names -> Histories]
    PROVE  /\ LET new == [notifications |-> spec, records |-> <<>>]
              IN  /\ new \in ManagedNotifications
                  /\ Sound(Nil, rec, T) => Sound(new, rec, T)
           /\ \A m : /\ m # Nil /\ Sound(m, rec, T)
                     => LET new == [m EXCEPT !.notifications = spec]
                        IN  new \in ManagedNotifications /\ Sound(new, rec, T)
<1>1. spec \in Seq(Notifications)
  BY SpecsAssumption, Zenon
<1>2. PICK new : new = [notifications |-> spec, records |-> <<>>]
  BY ZenonT(30)
<1>3. new \in ManagedNotifications /\ new.records = <<>> /\ new # Nil
  <2>1. new \in ManagedNotifications /\ new.records = <<>>
    BY <1>1, <1>2 DEF ManagedNotifications
  <2> QED BY <2>1, NilAssumption, Zenon
<1>4. ASSUME Sound(Nil, rec, T)
      PROVE  Sound(new, rec, T)
  <2>1. Good(new, T)
    BY <1>3 DEF Good, UniqueNames
  <2>2. ASSUME NEW n \in Names PROVE Matches(new, n, rec[n])
    <3>1. \A i : i \notin DOMAIN new.records
      BY <1>3
    <3>2. history(new, n) = {}
      BY <3>1, Zenon DEF history, Range
    <3>3. Missing(new, n)
      <4>1. \A s : ~Found(new, n, s, T)
        BY <3>2, Zenon DEF Found
      <4> QED BY <2>1, <4>1, FoundFacts, Zenon
    <3>4. rec[n] = NoHistory
      BY <1>4, Zenon DEF Sound
    <3>5. Int32(0) = 0 /\ Told({}) = "no"
      BY Int32Counts, Zenon DEF Told
    <3> QED BY <3>3, <3>4, <3>5, NoHistoryFacts, Zenon DEF Matches, Missing
  <2> QED BY <1>3, <2>1, <2>2, ZenonT(30) DEF Sound
<1>5. ASSUME NEW m, m # Nil, Sound(m, rec, T)
      PROVE  LET n2 == [m EXCEPT !.notifications = spec]
             IN  n2 \in ManagedNotifications /\ Sound(n2, rec, T)
  <2>1. Good(m, T) /\ m \in ManagedNotifications
    BY <1>5, Zenon DEF Sound, Good
  <2>2. PICK n2 : n2 = [m EXCEPT !.notifications = spec]
    BY ZenonT(30)
  <2>3. n2 \in ManagedNotifications /\ n2.records = m.records
    BY <1>1, <2>1, <2>2, SMTT(30) DEF ManagedNotifications
  <2>4. Good(n2, T) /\ n2 # Nil
    BY <2>1, <2>3, NilAssumption, Zenon DEF Good
  <2>5. ASSUME NEW n \in Names PROVE Matches(n2, n, rec[n])
    <3>1. CountOf(n2, n) = CountOf(m, n)
      BY <2>3, Zenon DEF CountOf
    <3>2. history(n2, n) = history(m, n)
      BY <1>5, <2>3, <2>4, Zenon DEF history
    <3>3. \A type : said(n2, n, type) = said(m, n, type)
      BY <3>2, Zenon DEF said
    <3>4. Matches(m, n, rec[n])
      BY <1>5, Zenon DEF Sound
    <3> QED BY <3>1, <3>2, <3>3, <3>4, Zenon DEF Matches
  <2>6. Sound(n2, rec, T)
    BY <2>4, <2>5, Zenon DEF Sound
  <2> QED BY <2>2, <2>3, <2>6, Zenon
<1> QED BY <1>2, <1>3, <1>4, <1>5, Zenon

\* The object is created, edited or deleted.
LEMMA UserInv ==
    ASSUME Inv, Delete \/ \E spec \in Specs : Create(spec) \/ Edit(spec)
    PROVE  Inv'
<1>1. /\ TypeOK /\ now \in Nat /\ recorded \in [Names -> Histories]
      /\ Sound(mn, recorded, now)
  BY Zenon DEF Inv, TypeOK
<1>2. /\ budget' \in [Disturbances -> Nat] /\ now' = now /\ handlers' = handlers
      /\ version' = version + 1
  BY <1>1, SpendTyped, ZenonT(30) DEF Create, Edit, Delete, Write, Disturbances
<1>3. ASSUME NEW spec \in Specs, Create(spec) \/ Edit(spec)
      PROVE  Inv'
  <2>1. /\ mn' \in ManagedNotifications /\ recorded' = recorded
        /\ Sound(mn', recorded', now)
    <3>1. CASE Create(spec)
      <4>1. mn = Nil /\ mn' = [notifications |-> spec, records |-> <<>>] /\ recorded' = recorded
        BY <3>1, Zenon DEF Create, Write
      <4> QED BY <1>1, <4>1, EditSound, SMTT(30)
    <3>2. CASE Edit(spec)
      <4>1. mn # Nil /\ mn' = [mn EXCEPT !.notifications = spec] /\ recorded' = recorded
        BY <3>2 DEF Edit, Write
      <4> QED BY <1>1, <4>1, EditSound, ZenonT(30)
    <3> QED BY <1>3, <3>1, <3>2, Zenon
  <2> QED BY <1>1, <1>2, <2>1, WriteStep, SMTT(30)
<1>4. CASE Delete
  <2>1. /\ mn' = Nil /\ recorded' \in [Names -> Histories] /\ Sound(mn', recorded', now)
    BY <1>4, NoHistoryFacts, Zenon DEF Delete, Write, Sound
  <2> QED BY <1>2, <2>1, WriteStep, Zenon
<1> QED BY <1>3, <1>4, Zenon

\* An hour passes.
LEMMA TickInv ==
    ASSUME Inv, Tick
    PROVE  Inv'
<1>1. TypeOK' /\ now \in Nat /\ version \in Nat
  BY DEF Inv, TypeOK, Tick
<1>2. Sound(mn, recorded, now + 1)
  <2>1. now <= now + 1 /\ now + 1 \in Nat
    BY <1>1
  <2> QED BY <1>1, <2>1, GoodLater, Zenon DEF Inv, Sound
<1>3. \A h \in Handlers : Informed(handlers[h], Style[h], mn, version, now + 1)
  BY <1>1, InformedLater, Zenon DEF Inv
<1>4. Sound(mn, recorded, now)' /\ \A h \in Handlers : Informed(handlers[h], Style[h], mn, version, now)'
  BY <1>2, <1>3, Zenon DEF Tick
<1> QED BY <1>1, <1>4 DEF Inv

\* It holds in the initial state.
LEMMA InitInv == Init => Inv
<1> SUFFICES ASSUME Init PROVE Inv
  BY Zenon
<1>1. TypeOK
  BY LimitsAssumption, IdleFacts, NoHistoryFacts, Zenon DEF Init, TypeOK
<1>2. Sound(mn, recorded, now)
  BY Zenon DEF Init, Sound
<1>3. \A h \in Handlers : Informed(handlers[h], Style[h], mn, version, now)
  BY IdleFacts, Zenon DEF Init
<1> QED BY <1>1, <1>2, <1>3, SMTT(30) DEF Inv

\* Every step keeps it.
LEMMA NextInv == Inv /\ [Next]_vars => Inv'
<1> SUFFICES ASSUME Inv, [Next]_vars PROVE Inv'
  OBVIOUS
<1>1. ASSUME NEW h \in Handlers,
             \/ \E name \in Names, firing \in BOOLEAN : Receive(h, name, firing)
             \/ Send(h) \/ Get(h) \/ Update(h)
      PROVE  Inv'
  BY <1>1, ReceiveInv, SendInv, GetInv, UpdateInv, ZenonT(30)
<1>2. CASE UNCHANGED vars
  <2>1. /\ mn' = mn /\ version' = version /\ handlers' = handlers /\ now' = now
        /\ budget' = budget /\ recorded' = recorded
    BY <1>2, Zenon DEF vars
  <2> QED BY <2>1 DEF Inv, TypeOK
<1> QED BY <1>1, <1>2, CrashInv, UserInv, TickInv, ZenonT(30) DEF Next

\* The invariant.
LEMMA Invariance == Spec => []Inv
BY InitInv, NextInv, PTL DEF Spec

\* Type correctness: every value that the handlers compute and store has its
\* type, an int32 count included.
THEOREM ServiceLogsTypeCorrect == Spec => []TypeOK
<1>1. Inv => TypeOK
  BY Zenon DEF Inv
<1> QED BY <1>1, Invariance, PTL

\* Handlers that record from copies lose no attempt and count none twice.
THEOREM CountsAreRight == Spec => []CountsRecorded
<1>1. Inv => CountsRecorded
  BY Zenon DEF Inv, Sound, Matches, CountsRecorded
<1> QED BY <1>1, Invariance, PTL

-----------------------------------------------------------------------------
(* The answers.                                                            *)

\* CanBeSent follows a nil pointer just when what it takes for granted was
\* never told since the record was begun, whatever the handlers record: no
\* interleaving of their reads and writes loses what one of them told.
THEOREM PanicsAreExplained == Spec => []PanicsWhenUntold
<1>1. ASSUME Inv, mn # Nil, NEW n \in Names, NEW firing \in BOOLEAN
      PROVE  CanBeSent(mn, n, firing, now) = "panic" <=> Untold(n, firing)
  <2>1. Good(mn, now) /\ now \in Nat /\ Matches(mn, n, recorded[n]) /\ recorded[n] \in Histories
    BY <1>1, Zenon DEF Inv, Sound, TypeOK
  <2>2. CanBeSent(mn, n, firing, now) = "panic" <=> Panics(mn, n, firing)
    BY <2>1, AnswerFacts, Zenon
  <2>3. PICK r \in Histories : r = recorded[n]
    BY <2>1, Zenon
  <2>4. definition(mn, n) = GetNotificationForName(mn, n)
    BY <1>1, Zenon DEF definition
  <2>5. history(mn, n) # {} <=> r.sent + r.failed > 0
    <3>1. r.sent \in Nat /\ r.failed \in Nat
      BY Zenon DEF Histories
    <3>2. r.sent + r.failed > 0 <=> r.sent + r.failed # 0
      BY <3>1
    <3> QED BY <2>1, <2>3, <3>2, Zenon DEF Matches
  <2>6. "no" # "timed" /\ "no" # "untimed" /\ "timed" # "untimed"
    OBVIOUS
  <2>7. r.told["AlertFiring"] = "no" <=> said(mn, n, "AlertFiring") = {}
    BY <2>1, <2>3, <2>6, Zenon DEF Matches, Told, ConditionTypes
  <2>8. r.told["ServiceLogSent"] = "untimed"
        <=> \E c \in said(mn, n, "ServiceLogSent") : c.lastTransitionTime = Nil
    BY <2>1, <2>3, <2>6, Zenon DEF Matches, Told, ConditionTypes
  <2>9. Panics(mn, n, firing) <=> Untold(n, firing)
    BY <2>3, <2>4, <2>5, <2>7, <2>8, Zenon DEF Panics, Untold
  <2> QED BY <2>2, <2>9, Zenon
<1>2. Inv => PanicsWhenUntold
  BY <1>1, Zenon DEF PanicsWhenUntold
<1> QED BY <1>2, Invariance, PTL

\* A handler whose answer is not older than the object sends no service log
\* for a firing alert inside the interval after a recorded one: what it was
\* told is still true, for what it read is still there and time only passed.
THEOREM ResendsAreSpaced == Spec => []ResendSpaced
<1>1. ASSUME Inv, NEW h \in Handlers, NEW a, a = handlers[h],
             a.pc = "send", a.firing, a.read = version, mn # Nil,
             \A i \in DOMAIN mn.notifications : Fits(mn.notifications[i].resendWait),
             Held(mn, a.name)
      PROVE  FALSE
  <2>1. /\ Good(mn, now) /\ now \in Nat /\ Informed(a, Style[h], mn, version, now)
        /\ a \in HandlerStates
    BY <1>1 DEF Inv, Sound, TypeOK
  <2>2. PICK n \in Names : n = a.name
    BY <1>1, <2>1, Zenon DEF Informed
  <2>3. PICK u \in 0..now : CanBeSent(mn, n, TRUE, u) = "yes"
    <3>1. a.firing = TRUE
      BY <1>1, <2>1 DEF HandlerStates
    <3> QED BY <1>1, <2>1, <2>2, <3>1, ZenonT(30) DEF Informed
  <2>4. /\ WaitOf(mn)[n] # Nil /\ \A t \in HoldOf(mn)[n] : u >= t + WaitOf(mn)[n]
    <3>1. u \in Nat
      BY <2>1
    <3>2. Permits(mn, n, TRUE, u)
      BY <2>1, <2>3, <3>1, AnswerFacts, Zenon
    <3> QED BY <3>2, Zenon DEF Permits
  <2>5. PICK d, s : /\ d = GetNotificationForName(mn, n) /\ d # Nil
                    /\ s = GetNotificationRecord(mn.records, n) /\ s # Nil
                    /\ \E i \in DOMAIN s.conditions :
                           LET c == s.conditions[i]
                           IN  /\ c.type = "ServiceLogSent" /\ c.status = "True"
                               /\ c.lastTransitionTime # Nil
                               /\ now < c.lastTransitionTime + d.resendWait
    BY <1>1, <2>2, Zenon DEF Held
  <2>6. PICK c \in Range(s.conditions) :
            /\ c.type = "ServiceLogSent" /\ c.status = "True" /\ c.lastTransitionTime # Nil
            /\ now < c.lastTransitionTime + d.resendWait
    BY <2>5, Zenon DEF Range
  <2>7. /\ d \in Notifications
        /\ \E i \in DOMAIN mn.notifications : d = mn.notifications[i]
    BY <2>1, <2>5, DefinitionFacts, ZenonT(30) DEF Good
  <2>8. d.resendWait \in Int /\ Fits(d.resendWait)
    <3>1. d.resendWait \in Waits
      BY <2>7, Zenon DEF Notifications
    <3>2. Int32s \subseteq Int
      BY WidthsAssumption, SMTT(30) DEF Int32s
    <3> QED BY <1>1, <2>7, <3>1, <3>2, WaitsAssumption, ZenonT(30)
  <2>9. WaitOf(mn)[n] = d.resendWait
    <3>1. Hours(d.resendWait) = d.resendWait
      BY <2>8, HoursFit, Zenon
    <3> QED BY <1>1, <2>5, <3>1, Zenon DEF WaitOf, definition
  <2>10. said(mn, n, "ServiceLogSent") = OfType(s.conditions, "ServiceLogSent")
    <3>1. ~Missing(mn, n)
      BY <2>5, Zenon DEF Missing
    <3>2. PICK t : Found(mn, n, t, now)
      BY <2>1, <3>1, FoundFacts, Zenon
    <3>3. t = s
      BY <2>5, <3>2, Zenon DEF Found
    <3> QED BY <3>2, <3>3, Zenon DEF Found
  <2>11. c.lastTransitionTime \in HoldOf(mn)[n]
    <3>1. c \in said(mn, n, "ServiceLogSent")
      BY <2>6, <2>10, Zenon DEF OfType
    <3> QED BY <2>6, <3>1, Zenon DEF HoldOf
  <2>12. c.lastTransitionTime \in Nat
    <3>1. c.lastTransitionTime \in 0..now
      BY <2>1, <2>11, HoldTimes, Zenon
    <3> QED BY <2>1, <3>1
  <2> QED BY <2>1, <2>4, <2>6, <2>8, <2>9, <2>11, <2>12, SMTT(30)
<1>2. Inv => ResendSpaced
  BY <1>1, Zenon DEF ResendSpaced
<1> QED BY <1>2, Invariance, PTL

-----------------------------------------------------------------------------
(* The refinement.                                                         *)

\* The permit that a handler holds.
PermitOf(x) == IF x.pc = "idle" THEN Nil ELSE [name |-> x.name, firing |-> x.firing]

\* One handler's permit changes with it.
LEMMA PermitsStep ==
    ASSUME handlers \in [Handlers -> HandlerStates], NEW h \in Handlers, NEW x,
           handlers' = [handlers EXCEPT ![h] = x]
    PROVE  /\ PermitsOf(handlers)[h] = PermitOf(handlers[h])
           /\ PermitsOf(handlers') = [PermitsOf(handlers) EXCEPT ![h] = PermitOf(x)]
BY ZenonT(30) DEF PermitsOf, PermitOf

\* A handler at work holds one.
LEMMA PermitHeld ==
    ASSUME Inv, NEW h \in Handlers, handlers[h].pc # "idle"
    PROVE  /\ PermitOf(handlers[h]) = [name |-> handlers[h].name, firing |-> handlers[h].firing]
           /\ PermitOf(handlers[h]) # Nil
<1>1. handlers[h] \in HandlerStates /\ Informed(handlers[h], Style[h], mn, version, now)
  BY Zenon DEF Inv, TypeOK
<1>2. handlers[h].name \in Names /\ handlers[h].firing \in BOOLEAN
  BY <1>1, Zenon DEF HandlerStates, Informed
<1>3. [name |-> handlers[h].name, firing |-> handlers[h].firing] \in [name: Names, firing: BOOLEAN]
  BY <1>2, Zenon
<1> QED BY <1>3, AlertsAssumption, Zenon DEF PermitOf

\* A write of the user is seen as a change of the definitions or as the
\* loss of everything.
LEMMA UserRefines ==
    ASSUME Inv, Delete \/ \E spec \in Specs : Create(spec) \/ Edit(spec), Inv'
    PROVE  Throttle!Configure \/ Throttle!Forget
<1>1. PermitsOf(handlers') = PermitsOf(handlers) /\ now' = now
  BY ZenonT(30) DEF Delete, Create, Edit
<1>2. CASE Delete
  <2>1. mn' = Nil
    BY <1>2, Zenon DEF Delete, Write
  <2> QED BY <1>1, <2>1, ViewTypes DEF Throttle!Forget
<1>3. ASSUME NEW spec \in Specs, Create(spec) \/ Edit(spec)
      PROVE  Throttle!Configure
  <2>1. mn' \in ManagedNotifications /\ mn' # Nil
    <3>1. mn' \in ManagedNotifications
      <4>1. CASE Create(spec)
        <5>1. mn' = [notifications |-> spec, records |-> <<>>]
          BY <4>1, Zenon DEF Create, Write
        <5> QED BY <5>1, SpecsAssumption DEF ManagedNotifications
      <4>2. CASE Edit(spec)
        <5>1. mn' = [mn EXCEPT !.notifications = spec] /\ mn \in ManagedNotifications
          BY <4>2 DEF Edit, Write, Inv, TypeOK
        <5> QED BY <5>1, SpecsAssumption, Zenon DEF ManagedNotifications
      <4> QED BY <1>3, <4>1, <4>2, ZenonT(30)
    <3> QED BY <3>1, NilAssumption, SMTT(30)
  <2>2. \A n \in Names : history(mn', n) = history(mn, n)
    <3>1. CASE Create(spec)
      <4>1. mn = Nil /\ mn'.records = <<>>
        BY <3>1, Zenon DEF Create, Write
      <4> QED BY <4>1, <2>1, SMTT(30) DEF history, Range
    <3>2. CASE Edit(spec)
      <4>1. mn # Nil /\ mn'.records = mn.records
        BY <3>2, Zenon DEF Edit, Write, Inv, TypeOK, ManagedNotifications
      <4> QED BY <4>1, <2>1, Zenon DEF history
    <3> QED BY <1>3, <3>1, <3>2, Zenon
  <2>3. PhaseOf(mn') = PhaseOf(mn) /\ HoldOf(mn') = HoldOf(mn)
    <3>1. \A n \in Names : PhaseOf(mn')[n] = PhaseOf(mn)[n] /\ HoldOf(mn')[n] = HoldOf(mn)[n]
      BY <2>2, SameView, Zenon
    <3>2. \A m : /\ PhaseOf(m) = [n \in Names |-> PhaseOf(m)[n]]
                 /\ HoldOf(m) = [n \in Names |-> HoldOf(m)[n]]
      BY Zenon DEF PhaseOf, HoldOf
    <3> QED BY <3>1, <3>2, ZenonT(30)
  <2>4. WaitOf(mn') \in [Names -> Int \cup {Nil}] /\ ResolvableOf(mn') \in [Names -> BOOLEAN]
    BY <2>1, ViewTypes, ZenonT(30)
  <2> QED BY <1>1, <2>3, <2>4, ZenonT(30) DEF Throttle!Configure
<1> QED BY <1>2, <1>3, Zenon

\* A handler is given a permit when it is told that it may send.
LEMMA ReceiveRefines ==
    ASSUME Inv, NEW h \in Handlers, NEW n \in Names, NEW firing \in BOOLEAN,
           Receive(h, n, firing)
    PROVE  Throttle!Permit(h, n, firing)
<1>1. /\ Good(mn, now) /\ now \in Nat /\ handlers \in [Handlers -> HandlerStates]
      /\ handlers[h].pc = "idle"
  BY SMTT(30) DEF Inv, Sound, TypeOK, Receive
<1>2. /\ WaitOf(mn)[n] # Nil
      /\ IF firing THEN \A t \in HoldOf(mn)[n] : now >= t + WaitOf(mn)[n]
         ELSE PhaseOf(mn)[n] = "firing" /\ ResolvableOf(mn)[n]
  <2>1. Permits(mn, n, firing, now)
    BY <1>1, AnswerFacts, Zenon DEF Receive
  <2> QED BY <2>1, Zenon DEF Permits
<1>3. PICK x : /\ handlers' = [handlers EXCEPT ![h] = x]
               /\ PermitOf(x) = [name |-> n, firing |-> firing]
  <2>1. PICK x : x = [pc |-> "send", name |-> n, firing |-> firing, read |-> version,
                      ok |-> FALSE, draft |-> Nil]
    BY ZenonT(30)
  <2>2. handlers' = [handlers EXCEPT ![h] = x]
    BY <2>1, Zenon DEF Receive
  <2>3. PermitOf(x) = [name |-> n, firing |-> firing]
    BY <2>1, Zenon DEF PermitOf
  <2> QED BY <2>2, <2>3, ZenonT(30)
<1>4. /\ PermitsOf(handlers)[h] = Nil
      /\ PermitsOf(handlers') =
             [PermitsOf(handlers) EXCEPT ![h] = [name |-> n, firing |-> firing]]
  <2>1. /\ PermitsOf(handlers)[h] = PermitOf(handlers[h])
        /\ PermitsOf(handlers') = [PermitsOf(handlers) EXCEPT ![h] = PermitOf(x)]
    BY <1>1, <1>3, PermitsStep, Zenon
  <2> QED BY <1>1, <1>3, <2>1, ZenonT(30) DEF PermitOf
<1>5. mn' = mn /\ now' = now
  BY Zenon DEF Receive
<1> QED BY <1>2, <1>4, <1>5, ZenonT(30) DEF Throttle!Permit

\* A handler that gives up, with nothing written, lets its permit lapse; one
\* that only moves on keeps it.
LEMMA QuietRefines ==
    ASSUME Inv, NEW h \in Handlers, handlers[h].pc # "idle", NEW x,
           handlers' = [handlers EXCEPT ![h] = x], mn' = mn, now' = now,
           \/ x.pc = "idle"
           \/ x.pc # "idle" /\ x.name = handlers[h].name /\ x.firing = handlers[h].firing
    PROVE  Throttle!Lapse({h}) \/ UNCHANGED Throttle!vars
<1>1. PICK P, Q : P = PermitsOf(handlers) /\ Q = PermitsOf(handlers')
  BY Zenon
<1>2. handlers \in [Handlers -> HandlerStates]
  BY DEF Inv, TypeOK
<1>3. P[h] = PermitOf(handlers[h]) /\ Q = [P EXCEPT ![h] = PermitOf(x)]
  <2>1. /\ PermitsOf(handlers)[h] = PermitOf(handlers[h])
        /\ PermitsOf(handlers') = [PermitsOf(handlers) EXCEPT ![h] = PermitOf(x)]
    BY <1>2, PermitsStep, ZenonT(30)
  <2> QED BY <1>1, <2>1, Zenon
<1>4. P = [k \in Handlers |-> P[k]]
  BY <1>1 DEF PermitsOf
<1>5. CASE x.pc = "idle"
  <2>1. P[h] # Nil
    BY <1>3, PermitHeld, ZenonT(30)
  <2>2. Q = [k \in Handlers |-> IF k \in {h} THEN Nil ELSE P[k]]
    BY <1>3, <1>4, <1>5, Zenon DEF PermitOf
  <2> QED BY <1>1, <2>1, <2>2, ZenonT(30) DEF Throttle!Lapse
<1>6. CASE x.pc # "idle" /\ x.name = handlers[h].name /\ x.firing = handlers[h].firing
  <2>1. Q = P
    BY <1>3, <1>4, <1>6, Zenon DEF PermitOf
  <2> QED BY <1>1, <2>1, SMTT(30) DEF Throttle!vars
<1> QED BY <1>5, <1>6, Zenon

\* An update that is stored uses the permit up, and is seen as the record of
\* what was sent.
LEMMA StoreRefines ==
    ASSUME Inv, NEW h \in Handlers, handlers[h].pc = "update",
           handlers[h].read = version, mn' = handlers[h].draft, now' = now,
           handlers' = [handlers EXCEPT ![h] = Idle]
    PROVE  Throttle!Record(h)
<1>1. PICK a : a = handlers[h]
  OBVIOUS
<1>2. /\ handlers \in [Handlers -> HandlerStates] /\ a \in HandlerStates
      /\ Informed(a, Style[h], mn, version, now) /\ now \in Nat
  BY <1>1, Zenon DEF Inv, TypeOK
<1>3. PICK n \in Names, f \in BOOLEAN, ok \in BOOLEAN :
          n = a.name /\ f = a.firing /\ ok = a.ok
  BY <1>1, <1>2, Zenon DEF HandlerStates, Informed
<1>4. PICK u \in 0..now : Good(mn, u) /\ mn' = Recorded(mn, n, Style[h], f, ok, u)
  BY <1>1, <1>2, <1>3, ZenonT(30) DEF Informed
<1>5. PICK P : P = PermitsOf(handlers)
  BY Zenon
<1>6. /\ P[h] = [name |-> n, firing |-> f] /\ P[h] # Nil
      /\ PermitsOf(handlers') = [P EXCEPT ![h] = Nil]
  <2>1. /\ PermitsOf(handlers)[h] = PermitOf(handlers[h])
        /\ PermitsOf(handlers') = [PermitsOf(handlers) EXCEPT ![h] = PermitOf(Idle)]
    BY <1>2, PermitsStep, ZenonT(30)
  <2>2. PermitOf(handlers[h]) = [name |-> n, firing |-> f] /\ PermitOf(handlers[h]) # Nil
    BY <1>1, <1>3, PermitHeld, Zenon
  <2>3. PermitOf(Idle) = Nil
    BY Zenon DEF PermitOf, Idle
  <2> QED BY <1>5, <2>1, <2>2, <2>3, Zenon
<1>7. P[h].name = n /\ P[h].firing = f
  BY <1>6
<1>8. u \in Nat /\ u <= u
  BY <1>2, SMTT(30)
<1>9. Style[h] \in Styles
  BY StyleAssumption, Zenon
<1>10. Shows(mn', mn, n, Style[h], f, u)
  BY <1>4, <1>8, <1>9, RecordView, Zenon
<1>11. PICK rep : /\ rep = ReportsOf(Style)[h]
                  /\ rep.alert <=> "AlertFiring" \in Style[h].marks
                  /\ rep.log <=> "ServiceLogSent" \in Style[h].marks
                  /\ rep.anew <=> Style[h].anew
  <2>1. PICK rep : rep = ReportsOf(Style)[h]
    BY Zenon
  <2>2. rep = [alert |-> "AlertFiring" \in Style[h].marks,
               log   |-> "ServiceLogSent" \in Style[h].marks,
               anew  |-> Style[h].anew]
    BY <2>1, Zenon DEF ReportsOf
  <2>3. /\ rep.alert <=> "AlertFiring" \in Style[h].marks
        /\ rep.log <=> "ServiceLogSent" \in Style[h].marks
        /\ rep.anew <=> Style[h].anew
    BY <2>2, Zenon
  <2> QED BY <2>1, <2>3, Zenon
<1>12. PhaseOf(mn') = [PhaseOf(mn) EXCEPT ![n] =
           IF ~rep.alert
           THEN IF rep.anew \/ @ = "never" THEN "unknown" ELSE @
           ELSE IF f THEN "firing" ELSE "resolved"]
  BY <1>10, <1>11, Zenon DEF Shows
<1>13. \/ /\ rep.log \/ rep.anew
          /\ HoldOf(mn') = [HoldOf(mn) EXCEPT ![n] = {}]
       \/ /\ rep.log
          /\ \E t \in 0..now : /\ \A x \in HoldOf(mn)[n] : x <= t
                               /\ HoldOf(mn') = [HoldOf(mn) EXCEPT ![n] = {t}]
       \/ ~rep.log /\ ~rep.anew /\ HoldOf(mn') = HoldOf(mn)
  BY <1>10, <1>11, Zenon DEF Shows
<1>14. WaitOf(mn') = WaitOf(mn) /\ ResolvableOf(mn') = ResolvableOf(mn)
  BY <1>10, Zenon DEF Shows
<1> QED BY <1>5, <1>6, <1>7, <1>11, <1>12, <1>13, <1>14, ZenonT(30) DEF Throttle!Record

\* The handlers' permits lapse when the agent is restarted.
LEMMA CrashRefines ==
    ASSUME Inv, Crash
    PROVE  (\E P \in SUBSET Handlers : Throttle!Lapse(P)) \/ UNCHANGED Throttle!vars
<1> DEFINE B == {h \in Handlers : handlers[h].pc # "idle"}
<1>1. mn' = mn /\ now' = now /\ handlers' = [h \in Handlers |-> Idle]
  BY Zenon DEF Crash
<1>2. PermitsOf(handlers') = [h \in Handlers |-> Nil]
  BY <1>1, Zenon DEF PermitsOf, Idle
<1>3. \A h \in Handlers : PermitsOf(handlers)[h] = PermitOf(handlers[h])
  BY Zenon DEF PermitsOf, PermitOf
<1>4. \A h \in Handlers : h \notin B => PermitsOf(handlers)[h] = Nil
  BY <1>3, ZenonT(30) DEF PermitOf
<1>5. \A h \in B : PermitsOf(handlers)[h] # Nil
  BY <1>3, PermitHeld, ZenonT(30)
<1>6. CASE B = {}
  <2>1. PermitsOf(handlers) = [h \in Handlers |-> PermitsOf(handlers)[h]]
    BY DEF PermitsOf
  <2>2. PermitsOf(handlers') = PermitsOf(handlers)
    BY <1>2, <1>4, <1>6, <2>1, Zenon
  <2> QED BY <1>1, <2>2, Zenon DEF Throttle!vars
<1>7. CASE B # {}
  <2>1. PermitsOf(handlers') =
            [h \in Handlers |-> IF h \in B THEN Nil ELSE PermitsOf(handlers)[h]]
    BY <1>2, <1>4
  <2>2. B \in SUBSET Handlers
    BY Zenon
  <2> HIDE DEF B
  <2>3. Throttle!Lapse(B)
    BY <1>1, <1>5, <1>7, <2>1, Zenon DEF Throttle!Lapse
  <2> QED BY <2>2, <2>3, Zenon
<1> QED BY <1>6, <1>7, Zenon

\* Every step is a step of the throttle or is not seen by it.
LEMMA StepRefines ==
    ASSUME Inv, Inv', [Next]_vars
    PROVE  [Throttle!Next]_(Throttle!vars)
<1>1. ASSUME NEW h \in Handlers, NEW n \in Names, NEW firing \in BOOLEAN,
             Receive(h, n, firing)
      PROVE  Throttle!Next
  BY <1>1, ReceiveRefines, Zenon DEF Throttle!Next
<1>2. ASSUME NEW h \in Handlers, Throttle!Lapse({h})
      PROVE  Throttle!Next
  BY <1>2, Zenon DEF Throttle!Next
<1>3. handlers \in [Handlers -> HandlerStates]
  BY Zenon DEF Inv, TypeOK
<1>4. ASSUME NEW h \in Handlers, Send(h)
      PROVE  [Throttle!Next]_(Throttle!vars)
  <2>1. PICK ok \in BOOLEAN : handlers' = [handlers EXCEPT ![h].pc = "get", ![h].ok = ok]
    BY <1>4, ZenonT(30) DEF Send
  <2>2. PICK x : x = [handlers[h] EXCEPT !.pc = "get", !.ok = ok]
    BY Zenon
  <2>3. handlers' = [handlers EXCEPT ![h] = x]
    BY <1>3, <2>1, <2>2, ZenonT(30)
  <2>4. x.pc = "get" /\ x.name = handlers[h].name /\ x.firing = handlers[h].firing
    BY <1>3, <2>2 DEF HandlerStates
  <2>5. handlers[h].pc # "idle" /\ mn' = mn /\ now' = now
    BY <1>4, Zenon DEF Send
  <2>6. Throttle!Lapse({h}) \/ UNCHANGED Throttle!vars
    BY <2>3, <2>4, <2>5, QuietRefines, ZenonT(30)
  <2> QED BY <1>2, <2>6, Zenon
<1>5. ASSUME NEW h \in Handlers, Get(h)
      PROVE  [Throttle!Next]_(Throttle!vars)
  <2>1. handlers[h].pc # "idle" /\ mn' = mn /\ now' = now
    BY <1>5, Zenon DEF Get
  <2>2. PICK x : /\ handlers' = [handlers EXCEPT ![h] = x]
                 /\ x = IF mn = Nil THEN Idle
                        ELSE [handlers[h] EXCEPT
                                  !.pc = "update", !.read = version,
                                  !.draft = Recorded(mn, handlers[h].name, Style[h],
                                                     handlers[h].firing, handlers[h].ok, now)]
    BY <1>5, ZenonT(30) DEF Get
  <2>3. \/ x.pc = "idle"
        \/ x.pc # "idle" /\ x.name = handlers[h].name /\ x.firing = handlers[h].firing
    BY <1>3, <2>2, ZenonT(30) DEF HandlerStates, Idle
  <2>4. Throttle!Lapse({h}) \/ UNCHANGED Throttle!vars
    BY <2>1, <2>2, <2>3, QuietRefines, ZenonT(30)
  <2> QED BY <1>2, <2>4, Zenon
<1>6. ASSUME NEW h \in Handlers, Update(h)
      PROVE  [Throttle!Next]_(Throttle!vars)
  <2>1. handlers[h].pc = "update" /\ now' = now
    BY <1>6, Zenon DEF Update
  <2>2. CASE /\ handlers[h].read = version /\ mn' = handlers[h].draft
             /\ handlers' = [handlers EXCEPT ![h] = Idle]
    <3>1. Throttle!Record(h)
      BY <2>1, <2>2, StoreRefines, ZenonT(30)
    <3> QED BY <3>1, Zenon DEF Throttle!Next
  <2>3. CASE /\ handlers' = [handlers EXCEPT ![h].pc = "get", ![h].draft = Nil]
             /\ mn' = mn
    <3>1. PICK x : x = [handlers[h] EXCEPT !.pc = "get", !.draft = Nil]
      BY Zenon
    <3>2. handlers' = [handlers EXCEPT ![h] = x]
      BY <1>3, <2>3, <3>1, ZenonT(30)
    <3>3. x.pc = "get" /\ x.name = handlers[h].name /\ x.firing = handlers[h].firing
      BY <1>3, <3>1, Zenon DEF HandlerStates
    <3>4. Throttle!Lapse({h}) \/ UNCHANGED Throttle!vars
      BY <2>1, <2>3, <3>2, <3>3, QuietRefines, ZenonT(30)
    <3> QED BY <1>2, <3>4, Zenon
  <2>4. CASE handlers' = [handlers EXCEPT ![h] = Idle] /\ mn' = mn
    <3>1. Idle.pc = "idle"
      BY DEF Idle
    <3>2. Throttle!Lapse({h}) \/ UNCHANGED Throttle!vars
      BY <2>1, <2>4, <3>1, QuietRefines, ZenonT(30)
    <3> QED BY <1>2, <3>2, Zenon
  <2> QED BY <1>6, <2>2, <2>3, <2>4, SMTT(30) DEF Update, Write
<1>7. CASE Crash
  BY <1>7, CrashRefines, Zenon DEF Throttle!Next
<1>8. CASE Delete \/ \E spec \in Specs : Create(spec) \/ Edit(spec)
  BY <1>8, UserRefines, Zenon DEF Throttle!Next
<1>9. CASE Tick
  BY <1>9, Zenon DEF Tick, Throttle!Tick, Throttle!Next
<1>10. CASE UNCHANGED vars
  BY <1>10, Zenon DEF vars, Throttle!vars
<1> QED BY <1>1, <1>4, <1>5, <1>6, <1>7, <1>8, <1>9, <1>10, SMTT(30) DEF Next

\* The object as the handlers use it, with its lists, conditions, copies and
\* conflicts, implements the throttle.
THEOREM Refinement == Spec => ImplementsThrottle
<1>1. Init => Throttle!Init
  <2> SUFFICES ASSUME Init PROVE Throttle!Init
    BY Zenon
  <2>1. mn = Nil /\ now = 0 /\ handlers = [h \in Handlers |-> Idle]
    BY Zenon DEF Init
  <2>2. PermitsOf(handlers) = [h \in Handlers |-> Nil]
    BY <2>1, Zenon DEF PermitsOf, Idle
  <2> QED BY <2>1, <2>2, ViewTypes, Zenon DEF Throttle!Init
<1>2. Inv /\ Inv' /\ [Next]_vars => [Throttle!Next]_(Throttle!vars)
  BY StepRefines, Zenon
<1> QED BY <1>1, <1>2, Invariance, PTL DEF Spec, ImplementsThrottle, Throttle!Spec

=============================================================================
