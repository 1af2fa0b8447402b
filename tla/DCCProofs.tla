------------------------------- MODULE DCCProofs -------------------------------
(***************************************************************************)
(* The estop lock, the table with its consists, and the ramps, for any     *)
(* table size, any locos, consists and momentum and any sequence of        *)
(* commands, reminders and ticks.                                          *)
(***************************************************************************)
EXTENDS DCC, LocoSlotProofs, TLAPS

-----------------------------------------------------------------------------
(* Every way in which a speed is scheduled.  SomeScheduled is a call of    *)
(* setThrottleDCC for some slots, with any code; AllEstop is the broadcast.*)
SomeScheduled == \E t, cells, code : sched' = Scheduled(t, cells, code)

\* A step schedules nothing, or stops every loco, or goes through setThrottleDCC;
\* and the lock is only set together with the stop of every loco.
SchedStep ==
    \/ sched' = sched /\ estopIsLocked' \in {estopIsLocked, FALSE}
    \/ sched' = AllEstop
    \/ SomeScheduled /\ estopIsLocked' = estopIsLocked

LEMMA SetThrottle2Scheds ==
    ASSUME NEW t, NEW c, NEW code, setThrottle2(t, c, code)
    PROVE  SomeScheduled
  BY DEF setThrottle2, SomeScheduled

LEMMA ThrottleScheds ==
    ASSUME NEW t, NEW c, NEW code, Throttle(t, c, code)
    PROVE  sched' = sched \/ SomeScheduled
  BY SMTT(30), SetThrottle2Scheds DEF Throttle

LEMMA SetThrottleScheds ==
    ASSUME NEW cab, NEW v, NEW fwd, setThrottle(cab, v, fwd)
    PROVE  sched' = sched \/ sched' = AllEstop \/ SomeScheduled
  BY Zenon, ThrottleScheds DEF setThrottle, stopAll

LEMMA ReminderScheds ==
    ASSUME issueReminders
    PROVE  (sched' = sched \/ SomeScheduled) /\ estopIsLocked' = estopIsLocked
<1>1. ASSUME NEW t, NEW i, NEW st, RemindFrom(t, i, st)
      PROVE  sched' = sched \/ SomeScheduled
  <2>1. ASSUME NEW c, remindSpeed(t, c) PROVE SomeScheduled
    BY <2>1, SetThrottle2Scheds DEF remindSpeed
  <2>2. ASSUME NEW c, NEW g, remindFunctions(t, c, g) PROVE sched' = sched
    BY <2>2 DEF remindFunctions
  <2> QED
    BY <1>1, <2>1, <2>2 DEF RemindFrom
<1> QED
  BY <1>1 DEF issueReminders

LEMMA CommandScheds == Commands => SchedStep
<1>1. ASSUME NEW l, NEW v, NEW fwd, throttle(l, v, fwd) PROVE SchedStep
  <2>1. sched' = sched \/ sched' = AllEstop \/ SomeScheduled
    BY <1>1, SetThrottleScheds DEF throttle
  <2> QED
    BY <1>1, <2>1 DEF throttle, SchedStep
<1>2. ASSUME NEW l, saveSpeed(l) \/ restoreSpeed(l) PROVE SchedStep
  BY Zenon, <1>2, ThrottleScheds DEF saveSpeed, restoreSpeed, SchedStep
<1>3. ASSUME NEW a, NEW d, setDefaultMomentum(a, d) \/ \E l : setMomentum(l, a, d)
      PROVE  SchedStep
  BY Zenon, <1>3 DEF setDefaultMomentum, setMomentum, SchedStep
<1>4. ASSUME NEW on, setLinear(on) PROVE SchedStep
  BY <1>4 DEF setLinear, SchedStep
<1>5. ASSUME NEW l, NEW f, changeFn(l, f) \/ \E on : function(l, f, on) PROVE SchedStep
  BY Zenon, <1>5 DEF changeFn, function, FunctionCommand, SchedStep
<1>6. ASSUME NEW l, NEW p, parsef(l, p) PROVE SchedStep
  BY <1>6 DEF parsef, FunctionCommand, SchedStep
<1>7. ASSUME NEW l, NEW freq, setDCFreq(l, freq) PROVE SchedStep
  BY <1>7 DEF setDCFreq, SchedStep
<1>8. ASSUME NEW res, ConsistDone(res) PROVE SchedStep
  BY <1>8 DEF ConsistDone, SchedStep
<1>9. ASSUME NEW l, forgetLoco(l) PROVE SchedStep
  BY Zenon, <1>9 DEF forgetLoco, SchedStep, SomeScheduled
<1>10. ASSUME forgetAllLocos \/ estopAll PROVE SchedStep
  BY Zenon, <1>10 DEF forgetAllLocos, estopAll, stopAll, SchedStep
<1>11. ASSUME NEW lock \in BOOLEAN, estopLock(lock) PROVE SchedStep
  <2>1. CASE lock
    BY <1>11, <2>1 DEF estopLock, SchedStep
  <2>2. CASE ~lock
    BY Zenon, <1>11, <2>2 DEF estopLock, SchedStep
  <2> QED
    BY <2>1, <2>2
<1>12. ASSUME NEW l, setTrackModeDC(l) \/ setTrackModeMain PROVE SchedStep
  BY Zenon, <1>12 DEF setTrackModeDC, setTrackModeMain, SchedStep
<1> QED
  BY ZenonT(30), <1>1, <1>2, <1>3, <1>4, <1>5, <1>6, <1>7, <1>8, <1>9, <1>10, <1>11, <1>12
     DEF Commands, consistParse, consistDelete, consistAdd

\* While the lock is on, setThrottleDCC only makes emergency stops.
LEMMA LockedSchedules ==
    ASSUME estopIsLocked, LockHolds, SomeScheduled
    PROVE  \A l \in Locos : sched'[l].v = Estop
<1>1. PICK t, cells, code : sched' = Scheduled(t, cells, code)
  BY DEF SomeScheduled
<1>2. \A slot : SentCode(slot, code).v = Estop
  BY DEF SentCode, Code
<1> QED
  BY <1>1, <1>2 DEF Scheduled, LockHolds

\* While the estop is locked the last speed scheduled for every loco is the
\* emergency stop, whatever throttles, restored speeds, consists, momentum,
\* forgotten locos and reminders do (setThrottleDCC, estopLock).
THEOREM LockIsKept == Spec => []LockHolds
<1>1. Init => LockHolds
  BY DEF Init, LockHolds
<1>2. LockHolds /\ [Next]_vars => LockHolds'
  <2> SUFFICES ASSUME LockHolds, [Next]_vars, estopIsLocked' PROVE \A l \in Locos : sched'[l].v = Estop
    BY DEF LockHolds
  <2>1. CASE SchedStep
    <3>1. CASE sched' = sched /\ estopIsLocked' \in {estopIsLocked, FALSE}
      BY Zenon, <3>1 DEF LockHolds
    <3>2. CASE sched' = AllEstop
      BY <3>2 DEF AllEstop, Code
    <3>3. CASE SomeScheduled /\ estopIsLocked' = estopIsLocked
      BY <3>3, LockedSchedules
    <3> QED
      BY Zenon, <2>1, <3>1, <3>2, <3>3 DEF SchedStep
  <2>2. CASE UNCHANGED vars
    BY <2>2 DEF vars, LockHolds
  <2> QED
    BY Zenon, <2>1, <2>2, CommandScheds, ReminderScheds DEF Next, Tick, SchedStep
<1> QED
  BY <1>1, <1>2, PTL DEF Spec

-----------------------------------------------------------------------------
(* DCC: what the commands do to the slots. *)

\* The table stays well-formed, and so do the consists.
Served(t, u) == Keeps(t, u) /\ (Linked(t) => Linked(u))

LEMMA ServedTransitive ==
    ASSUME NEW t, NEW u, NEW v, Served(t, u), Served(u, v) PROVE Served(t, v)
  BY KeepsTransitive DEF Served

LEMMA ServedSelf ==
    ASSUME NEW t \in Table, TableWellFormed(t) PROVE Served(t, t)
  BY DEF Served, Keeps

LEMMA ServedTable ==
    ASSUME NEW t, NEW u, Served(t, u) PROVE u \in Table /\ TableWellFormed(u)
  BY DEF Served, Keeps

LEMMA RefilledServed ==
    ASSUME NEW t \in Table, TableWellFormed(t), NEW u, Refilled(t, u)
    PROVE  Served(t, u)
<1>1. SlotsOnly(t, u) /\ u \in Table
  BY DEF Refilled, SlotsOnly
<1>2. Keeps(t, u) /\ Listed(u) = Listed(t)
  BY <1>1, SlotsOnlyKeeps, SlotsOnlyFacts
<1>3. ASSUME Linked(t) PROVE Linked(u)
  <2>1. PICK r \in [Cells -> Nat] : Ranked(t, r)
    BY <1>3 DEF Linked
  <2>2. /\ Listed(t) \subseteq Listed(u)
        /\ \A d \in Cells : u.slot[d].lead = t.slot[d].lead /\ u.slot[d].next = t.slot[d].next
    BY <1>2 DEF Refilled
  <2>3. Ranked(u, r)
    BY <1>1, <2>1, <2>2, RankedKept
  <2> QED
    BY <2>3 DEF Linked
<1> QED
  BY <1>2, <1>3 DEF Served

LEMMA GetSlotServed ==
    ASSUME NEW t \in Table, TableWellFormed(t), NEW id \in Nat
    PROVE  Served(t, getSlot(t, id))
<1>1. Grown(t, getSlot(t, id), id)
  BY GetSlotGrows
<1>2. Keeps(t, getSlot(t, id))
  BY <1>1, GrownKeeps
<1>3. ASSUME Linked(t) PROVE Linked(getSlot(t, id))
  <2>1. PICK r \in [Cells -> Nat] : Ranked(t, r)
    BY <1>3 DEF Linked
  <2>2. Ranked(getSlot(t, id), r)
    BY <1>1, <2>1, GrownRanked
  <2> QED
    BY <2>2 DEF Linked
<1> QED
  BY <1>2, <1>3 DEF Served

\* Two slots of the same loco, with the same pointers.
Alike(s, q) == q \in Slot /\ q.loco = s.loco /\ q.lead = s.lead /\ q.next = s.next

LEMMA RefillSlots ==
    ASSUME NEW t \in Table, NEW f, DOMAIN f = Cells, f = [c \in Cells |-> f[c]],
           \A c \in Cells : Alike(t.slot[c], f[c])
    PROVE  Refilled(t, [t EXCEPT !.slot = f])
<1>1. f \in [Cells -> Slot]
  BY DEF Alike
<1>2. \A c \in Cells : f[c].loco = t.slot[c].loco /\ f[c].lead = t.slot[c].lead
                       /\ f[c].next = t.slot[c].next
  BY DEF Alike
<1>3. SlotsOnly(t, [t EXCEPT !.slot = f]) /\ [t EXCEPT !.slot = f].slot = f
  BY <1>1, <1>2, SlotsSet
<1> QED
  BY SMTT(30), <1>2, <1>3 DEF Refilled

LEMMA RefillSlot ==
    ASSUME NEW t \in Table, NEW c \in Cells, NEW s, Alike(t.slot[c], s)
    PROVE  Refilled(t, PutSlot(t, c, s))
<1>1. s \in Slot /\ s.loco = t.slot[c].loco /\ s.lead = t.slot[c].lead /\ s.next = t.slot[c].next
  BY DEF Alike
<1>2. /\ SlotsOnly(t, PutSlot(t, c, s)) /\ PutSlot(t, c, s).slot[c] = s
      /\ \A d \in Cells : d # c => PutSlot(t, c, s).slot[d] = t.slot[d]
  BY SMTT(30), <1>1, SlotSet
<1> QED
  BY <1>1, <1>2 DEF Refilled

LEMMA AlikeFields ==
    ASSUME NEW s \in Slot
    PROVE  /\ Alike(s, s)
           /\ \A code \in SpeedCode :
                 /\ Alike(s, [s EXCEPT !.speed = code]) /\ Alike(s, [s EXCEPT !.target = code])
                 /\ Alike(s, [s EXCEPT !.saved = code])
                 /\ Alike(s, [s EXCEPT !.speed = code, !.target = code])
           /\ \A n \in Nat : Alike(s, [s EXCEPT !.base = n])
           /\ \A a, d \in Nat : Alike(s, [s EXCEPT !.momA = a, !.momD = d])
           /\ \A f \in SUBSET Nat : Alike(s, [s EXCEPT !.functions = f])
           /\ \A f, g \in SUBSET Nat : Alike(s, [s EXCEPT !.functions = f, !.groups = g])
           /\ s.speed \in SpeedCode /\ s.target \in SpeedCode /\ s.saved \in SpeedCode
           /\ s.functions \in SUBSET Nat /\ s.groups \in SUBSET Nat
<1>1. Alike(s, s) /\ s.speed \in SpeedCode /\ s.target \in SpeedCode /\ s.saved \in SpeedCode
      /\ s.functions \in SUBSET Nat /\ s.groups \in SUBSET Nat
  BY DEF Slot, Alike
<1>2. ASSUME NEW code \in SpeedCode
      PROVE  /\ Alike(s, [s EXCEPT !.speed = code]) /\ Alike(s, [s EXCEPT !.target = code])
             /\ Alike(s, [s EXCEPT !.saved = code])
             /\ Alike(s, [s EXCEPT !.speed = code, !.target = code])
  BY Zenon DEF Slot, Alike
<1>3. ASSUME NEW n \in Nat PROVE Alike(s, [s EXCEPT !.base = n])
  BY DEF Slot, Alike
<1>4. ASSUME NEW a \in Nat, NEW d \in Nat PROVE Alike(s, [s EXCEPT !.momA = a, !.momD = d])
  BY Zenon DEF Slot, Alike
<1>5. ASSUME NEW f \in SUBSET Nat PROVE Alike(s, [s EXCEPT !.functions = f])
  BY DEF Slot, Alike
<1>6. ASSUME NEW f \in SUBSET Nat, NEW g \in SUBSET Nat
      PROVE  Alike(s, [s EXCEPT !.functions = f, !.groups = g])
  BY Zenon DEF Slot, Alike
<1> QED
  BY ZenonT(30), <1>1, <1>2, <1>3, <1>4, <1>5, <1>6

LEMMA SetFnServed ==
    ASSUME NEW u \in Table, TableWellFormed(u), NEW cab \in Nat, NEW f \in Nat, NEW on
    PROVE  Served(u, setFn(u, cab, f, on))
<1> DEFINE t == getSlot(u, cab)
           c == Find(t, cab)
           new == IF on THEN t.slot[c].functions \cup {f} ELSE t.slot[c].functions \ {f}
           g == IF f <= 28 THEN t.slot[c].groups \cup {Group(f)} ELSE t.slot[c].groups
           v == [t EXCEPT !.slot[c].functions = new, !.slot[c].groups = IF f <= 28 THEN @ \cup {Group(f)} ELSE @]
<1>1. setFn(u, cab, f, on) = IF f > 31 THEN u
                             ELSE IF c = Null \/ new = t.slot[c].functions THEN t
                             ELSE v
  BY Zenon DEF setFn
<1>2. Served(u, u) /\ Served(u, t) /\ t \in Table /\ TableWellFormed(t)
  BY ServedSelf, GetSlotServed, ServedTable
<1>3. c \in Cells \cup {Null}
  BY <1>2, FindFacts
<1> HIDE DEF t, c
<1>4. ASSUME c # Null PROVE Served(u, v)
  <2>1. c \in Cells
    BY <1>3, <1>4
  <2>2. t.slot[c] \in Slot
    BY <1>2, <2>1, SlotFacts
  <2>3. t.slot[c].functions \in SUBSET Nat /\ t.slot[c].groups \in SUBSET Nat
    BY ZenonT(30), <2>2, AlikeFields
  <2>4. Group(f) \in Nat
    BY DEF Group
  <2>5. new \in SUBSET Nat /\ g \in SUBSET Nat
    BY <2>3, <2>4
  <2> DEFINE s == [t.slot[c] EXCEPT !.functions = new, !.groups = g]
  <2>6. v = PutSlot(t, c, s)
    BY ZenonT(30), <1>2, <2>1, <2>2 DEF PutSlot, Table, Slot
  <2>7. Alike(t.slot[c], s)
    <3> HIDE DEF new, g
    <3> QED
      BY Zenon, <2>2, <2>5, AlikeFields
  <2> HIDE DEF s, v
  <2>8. Refilled(t, v)
    BY <1>2, <2>1, <2>6, <2>7, RefillSlot
  <2> QED
    BY <1>2, <2>8, RefilledServed, ServedTransitive
<1> HIDE DEF v, new
<1> QED
  BY <1>1, <1>2, <1>4

\* f is the function that funcmap defines, up to function n of the group.
IsMapping(f, t, cab, field, n) ==
    f = [i \in 0..n |->
            IF i = 0 THEN t
            ELSE setFn(f[i - 1], cab, field.first + i - 1, Bit(field.value, i - 1))]

LEMMA MappingExists ==
    ASSUME NEW t, NEW cab, NEW field PROVE \A n \in Nat : \E f : IsMapping(f, t, cab, field, n)
<1> DEFINE Step(u, i) == setFn(u, cab, field.first + i - 1, Bit(field.value, i - 1))
           T == {n \in Nat : \E f : IsMapping(f, t, cab, field, n)}
<1>0. \A f, n : IsMapping(f, t, cab, field, n)
                   <=> f = [i \in 0..n |-> IF i = 0 THEN t ELSE Step(f[i - 1], i)]
  BY DEF IsMapping
<1> HIDE DEF Step
<1>1. 0 \in T
  <2> DEFINE g == [i \in 0..0 |-> t]
  <2>1. \A i \in 0..0 : g[i] = IF i = 0 THEN t ELSE Step(g[i - 1], i)
    OBVIOUS
  <2>2. g = [i \in 0..0 |-> IF i = 0 THEN t ELSE Step(g[i - 1], i)]
    BY <2>1
  <2> QED
    BY ZenonT(30), <1>0, <2>2
<1>2. ASSUME NEW n \in Nat, n \in T PROVE n + 1 \in T
  <2>1. PICK f : f = [i \in 0..n |-> IF i = 0 THEN t ELSE Step(f[i - 1], i)]
    BY <1>0, <1>2
  <2> DEFINE g == [i \in 0..(n + 1) |-> IF i <= n THEN f[i] ELSE Step(f[n], n + 1)]
  <2>2. \A i \in 0..n : f[i] = IF i = 0 THEN t ELSE Step(f[i - 1], i)
    BY <2>1
  <2>3. ASSUME NEW i \in 0..(n + 1) PROVE g[i] = IF i = 0 THEN t ELSE Step(g[i - 1], i)
    <3>1. CASE i = n + 1
      <4>1. g[i] = Step(f[n], n + 1) /\ g[i - 1] = f[n] /\ i # 0
        BY <3>1
      <4> QED
        BY <3>1, <4>1
    <3>2. CASE i <= n /\ i # 0
      <4>1. g[i] = f[i] /\ g[i - 1] = f[i - 1] /\ i \in 0..n
        BY <3>2
      <4> QED
        BY <3>2, <4>1, <2>2
    <3>3. CASE i = 0
      BY <3>3, <2>2
    <3> QED
      BY SMTT(30), <3>1, <3>2, <3>3
  <2>4. g = [i \in 0..(n + 1) |-> IF i = 0 THEN t ELSE Step(g[i - 1], i)]
    <3> HIDE DEF g
    <3>1. DOMAIN g = 0..(n + 1) /\ g = [i \in 0..(n + 1) |-> g[i]]
      BY DEF g
    <3> QED
      BY <3>1, <2>3, Zenon
  <2>5. IsMapping(g, t, cab, field, n + 1)
    <3> HIDE DEF g
    <3> QED
      BY <1>0, <2>4
  <2> QED
    BY <2>5
<1> HIDE DEF T
<1>3. \A n \in Nat : n \in T
  BY <1>1, <1>2, SetInduction
<1> QED
  BY <1>3 DEF T

LEMMA FuncmapServed ==
    ASSUME NEW t \in Table, TableWellFormed(t), NEW cab \in Nat,
           NEW field \in [first : Nat, last : Nat, value : Nat], field.first <= field.last
    PROVE  Served(t, funcmap(t, cab, field))
<1> DEFINE n == field.last - field.first + 1
           f == CHOOSE f : IsMapping(f, t, cab, field, n)
           T == {k \in Nat : k <= n => Served(t, f[k])}
<1>1. field.first \in Nat /\ field.last \in Nat /\ n \in Nat
  OBVIOUS
<1>2. funcmap(t, cab, field) = f[n]
  BY Zenon DEF funcmap, IsMapping
<1> HIDE DEF n
<1>3. IsMapping(f, t, cab, field, n)
  <2>1. \E g : IsMapping(g, t, cab, field, n)
    BY <1>1, MappingExists
  <2> QED
    BY <2>1, Zenon DEF f
<1> HIDE DEF f
<1>4. \A i \in 0..n : f[i] = IF i = 0 THEN t
                             ELSE setFn(f[i - 1], cab, field.first + i - 1, Bit(field.value, i - 1))
  BY ZenonT(30), <1>3 DEF IsMapping
<1>5. 0 \in T
  <2>1. f[0] = t
    BY <1>1, <1>4
  <2>2. Served(t, f[0])
    BY <2>1, ServedSelf
  <2> QED
    BY <2>2
<1>6. ASSUME NEW k \in Nat, k \in T PROVE k + 1 \in T
  <2> SUFFICES ASSUME k + 1 <= n PROVE Served(t, f[k + 1])
    OBVIOUS
  <2>1. k + 1 \in 0..n /\ k + 1 # 0 /\ (k + 1) - 1 = k /\ k <= n /\ field.first + (k + 1) - 1 \in Nat
    BY <1>1
  <2>2. Served(t, f[k])
    BY <1>6, <2>1
  <2>3. f[k + 1] = setFn(f[k], cab, field.first + (k + 1) - 1, Bit(field.value, k))
    BY <1>4, <2>1
  <2>4. Served(f[k], f[k + 1])
    BY <2>1, <2>2, <2>3, ServedTable, SetFnServed
  <2> QED
    BY <2>2, <2>4, ServedTransitive
<1> HIDE DEF T
<1>7. n \in T
  BY <1>1, <1>5, <1>6, SetInduction
<1> QED
  BY <1>1, <1>2, <1>7 DEF T

-----------------------------------------------------------------------------
(* Speed codes stay speed codes. *)

LEMMA CodeFacts ==
    ASSUME NEW code \in SpeedCode, NEW rev \in BOOLEAN
    PROVE  /\ Flip(code, rev) \in SpeedCode /\ code.v \in 0..MaxSpeed /\ code.fwd \in BOOLEAN
           /\ normalize(code) \in Int
           /\ Code(Estop, code.fwd) \in SpeedCode
<1>1. code.v \in 0..MaxSpeed /\ code.fwd \in BOOLEAN
  BY DEF SpeedCode
<1>2. Flip(code, rev) \in SpeedCode
  BY ZenonT(30) DEF SpeedCode, Flip
<1>3. normalize(code) \in Int
  BY <1>1, SlotAssumption DEF normalize
<1>4. Estop \in 0..MaxSpeed
  BY SlotAssumption DEF Estop
<1> QED
  BY <1>1, <1>2, <1>3, <1>4 DEF Code, SpeedCode

LEMMA ThrottleCode ==
    ASSUME NEW v \in -1..MaxSpeed - 1, NEW fwd \in BOOLEAN
    PROVE  Code(DCCSpeed(v), fwd) \in SpeedCode
<1>1. DCCSpeed(v) \in 0..MaxSpeed
  BY SlotAssumption DEF DCCSpeed, Estop
<1> QED
  BY <1>1 DEF Code, SpeedCode

LEMMA DccalizeCode ==
    ASSUME NEW n \in Int PROVE dccalize(n) \in SpeedCode
<1>1. CASE n > MaxSpeed
  <2>1. ~(n < -MaxSpeed) /\ n \notin 0..MaxSpeed
    BY <1>1, SlotAssumption
  <2>2. dccalize(n) = Code(MaxSpeed, TRUE)
    BY <1>1, <2>1, Zenon DEF dccalize
  <2> QED
    BY <2>2, SlotAssumption DEF Code, SpeedCode
<1>2. CASE n < -MaxSpeed
  <2>1. ~(n > MaxSpeed) /\ n \notin 0..MaxSpeed
    BY <1>2, SlotAssumption
  <2>2. dccalize(n) = Code(MaxSpeed, FALSE)
    BY <1>2, <2>1, Zenon DEF dccalize
  <2> QED
    BY <2>2, SlotAssumption DEF Code, SpeedCode
<1>3. CASE n \in 0..MaxSpeed
  <2>1. ~(n > MaxSpeed) /\ ~(n < -MaxSpeed)
    BY <1>3, SlotAssumption
  <2>2. dccalize(n) = Code(n, TRUE)
    BY <1>3, <2>1, Zenon DEF dccalize
  <2> QED
    BY <1>3, <2>2, SlotAssumption DEF Code, SpeedCode
<1>4. CASE n < 0 /\ ~(n < -MaxSpeed)
  <2>1. ~(n > MaxSpeed) /\ n \notin 0..MaxSpeed /\ -1 - n \in 0..MaxSpeed
    BY <1>4, SlotAssumption
  <2>2. dccalize(n) = Code(-1 - n, FALSE)
    BY <1>4, <2>1, Zenon DEF dccalize
  <2> QED
    BY <2>1, <2>2, SlotAssumption DEF Code, SpeedCode
<1> QED
  BY <1>1, <1>2, <1>3, <1>4, SlotAssumption

\* The momentum values are numbers.
NumbersOK == now \in Nat /\ default.A \in Nat /\ default.D \in Nat

LEMMA MomentumFacts ==
    ASSUME NEW s \in Slot, NumbersOK PROVE getMomentum(s) \in Nat
<1>1. /\ s.momA \in Nat /\ s.momD \in Nat /\ s.target.v \in 0..MaxSpeed /\ s.speed.v \in 0..MaxSpeed
  BY DEF Slot, SpeedCode
<1>2. Own(s.momA, default.A) \in Nat /\ Own(s.momD, default.D) \in Nat
  BY <1>1 DEF Own, NumbersOK
<1> DEFINE m == Own(s.momA, default.A)
           e == Own(s.momD, default.D)
           p == (s.target.v - s.speed.v) \div PowerDiv
<1>3. p \in Int
  BY <1>1, DCCAssumption, SlotAssumption
<1>4. getMomentum(s) = CASE s.target.v <= s.speed.v -> e
                         [] s.target.v > s.speed.v /\ (m = 0 \/ linearAcceleration) -> m
                         [] OTHER -> IF m < p THEN 0 ELSE m - p
  BY DEF getMomentum
<1>5. m \in Nat /\ e \in Nat
  BY <1>2
<1>6. s.target.v > s.speed.v => p \in Nat
  BY <1>1, DCCAssumption, SlotAssumption
<1> HIDE DEF m, e, p
<1>7. (IF m < p THEN 0 ELSE m - p) \in Nat
  BY <1>3, <1>5
<1> QED
  BY <1>1, <1>4, <1>5, <1>7, SlotAssumption

LEMMA NotchesFacts ==
    ASSUME NEW s \in Slot, NumbersOK PROVE Notches(s) \in Nat
<1> DEFINE p == MOMENTUM_FACTOR * getMomentum(s)
           d == (now - s.base) % DelayMod
<1>1. getMomentum(s) \in Nat
  BY MomentumFacts
<1>2. p \in Nat
  BY SMTT(30), <1>1, DCCAssumption
<1>3. s.base \in Nat /\ now \in Nat
  BY DEF Slot, NumbersOK
<1>4. d \in Int
  BY SMTT(30), <1>3, DCCAssumption
<1>5. Delay(s) \in Int
  BY <1>4, DCCAssumption DEF Delay
<1>6. Notches(s) = IF p = 0 THEN 500 ELSE IF Delay(s) < 0 THEN 0 ELSE Delay(s) \div p
  BY DEF Notches
<1> HIDE DEF p, d
<1>7. ASSUME p # 0, ~(Delay(s) < 0) PROVE Delay(s) \div p \in Nat
  <2> DEFINE x == Delay(s)
  <2>1. x \in Nat /\ p \in Nat \ {0}
    BY <1>2, <1>5, <1>7
  <2> HIDE DEF x
  <2>2. x \div p \in Nat
    BY <2>1, Z3
  <2> QED
    BY <2>2 DEF x
<1> QED
  BY SMTT(30), <1>6, <1>7

-----------------------------------------------------------------------------
(* The commands on the slots of locos. *)

\* A part of a slot is assigned.
LEMMA FieldServed ==
    ASSUME NEW t \in Table, TableWellFormed(t), NEW c \in Cells, NEW s, Alike(t.slot[c], s)
    PROVE  Served(t, PutSlot(t, c, s)) /\ Refilled(t, PutSlot(t, c, s))
  BY RefillSlot, RefilledServed

LEMMA BaseRefilled ==
    ASSUME NEW t \in Table, NEW c \in Cells, NEW n \in Nat,
           NEW u, u = [t EXCEPT !.slot[c].base = n]
    PROVE  Refilled(t, u)
<1> DEFINE s == [t.slot[c] EXCEPT !.base = n]
<1>1. t.slot[c] \in Slot
  BY SMTT(30), SlotFacts
<1>2. Alike(t.slot[c], s)
  BY ZenonT(30), <1>1, AlikeFields
<1>3. u = PutSlot(t, c, s)
  BY DEF PutSlot
<1> QED
  BY <1>2, <1>3, RefillSlot

LEMMA RefilledTransitive ==
    ASSUME NEW t, NEW u, NEW v, Refilled(t, u), Refilled(u, v) PROVE Refilled(t, v)
<1>1. SlotsOnly(t, v)
  BY SlotsOnlyTransitive DEF Refilled
<1> QED
  BY <1>1 DEF Refilled

LEMMA SetThrottle2Refills ==
    ASSUME NEW t \in Table, NEW c, NEW code \in SpeedCode, setThrottle2(t, c, code)
    PROVE  Refilled(t, tab')
<1>1. PICK members : tab' = [t EXCEPT !.slot = [d \in Cells |->
                        IF d \in members THEN [t.slot[d] EXCEPT !.speed = code] ELSE t.slot[d]]]
  BY ZenonT(30) DEF setThrottle2
<1> DEFINE f == [d \in Cells |-> IF d \in members THEN [t.slot[d] EXCEPT !.speed = code] ELSE t.slot[d]]
<1>2. ASSUME NEW d \in Cells PROVE Alike(t.slot[d], f[d])
  <2>1. t.slot[d] \in Slot
    BY SlotFacts
  <2>2. Alike(t.slot[d], t.slot[d]) /\ Alike(t.slot[d], [t.slot[d] EXCEPT !.speed = code])
    BY Zenon, <2>1, AlikeFields
  <2> QED
    BY <2>2
<1>3. DOMAIN f = Cells /\ f = [d \in Cells |-> f[d]] /\ tab' = [t EXCEPT !.slot = f]
  BY <1>1
<1> HIDE DEF f
<1> QED
  BY SMTT(30), <1>2, <1>3, RefillSlots

LEMMA SetTargetsRefills ==
    ASSUME NEW t \in Table, NEW c, NEW code \in SpeedCode
    PROVE  Refilled(t, SetTargets(t, c, code))
<1> DEFINE followers == Range(Tail(Chain(t, c)))
           f == [d \in Cells |->
                   IF d = c THEN [t.slot[d] EXCEPT !.target = code]
                   ELSE IF d \in followers
                   THEN [t.slot[d] EXCEPT !.target = Flip(code, t.slot[d].rev)]
                   ELSE t.slot[d]]
<1>1. SetTargets(t, c, code) = [t EXCEPT !.slot = f]
  BY DEF SetTargets
<1> HIDE DEF followers
<1>2. ASSUME NEW d \in Cells PROVE Alike(t.slot[d], f[d])
  <2>1. t.slot[d] \in Slot
    BY SlotFacts
  <2>2. t.slot[d].rev \in BOOLEAN
    BY <2>1 DEF Slot
  <2>3. Flip(code, t.slot[d].rev) \in SpeedCode
    BY SMTT(30), <2>2, CodeFacts
  <2>4. /\ Alike(t.slot[d], t.slot[d]) /\ Alike(t.slot[d], [t.slot[d] EXCEPT !.target = code])
        /\ Alike(t.slot[d], [t.slot[d] EXCEPT !.target = Flip(code, t.slot[d].rev)])
    BY ZenonT(30), <2>1, <2>3, AlikeFields
  <2> QED
    BY <2>4
<1>3. DOMAIN f = Cells /\ f = [d \in Cells |-> f[d]]
  OBVIOUS
<1> HIDE DEF f
<1> QED
  BY <1>1, <1>2, <1>3, RefillSlots

LEMMA ThrottleServed ==
    ASSUME NEW t \in Table, TableWellFormed(t), NEW c \in Cells, NEW code \in SpeedCode,
           NumbersOK, Throttle(t, c, code)
    PROVE  Served(t, tab')
<1> DEFINE t1 == SetTargets(t, c, code)
<1>1. Refilled(t, t1) /\ t1 \in Table
  BY SetTargetsRefills DEF Refilled, SlotsOnly
<1>2. tab' = t \/ tab' = [t1 EXCEPT !.slot[c].base = now] \/ setThrottle2(t1, c, code)
  BY DEF Throttle
<1> HIDE DEF t1
<1>3. CASE tab' = t
  BY <1>3, ServedSelf
<1>4. CASE tab' = [t1 EXCEPT !.slot[c].base = now]
  <2>1. Refilled(t1, tab')
    BY <1>1, <1>4, BaseRefilled DEF NumbersOK
  <2> QED
    BY <1>1, <2>1, RefilledTransitive, RefilledServed
<1>5. CASE setThrottle2(t1, c, code)
  BY <1>1, <1>5, SetThrottle2Refills, RefilledTransitive, RefilledServed
<1> QED
  BY <1>2, <1>3, <1>4, <1>5

LEMMA StopAllServed ==
    ASSUME tab \in Table, TableWellFormed(tab), stopAll PROVE Served(tab, tab')
<1> DEFINE stop(c) == Code(Estop, tab.slot[c].target.fwd)
           f == [c \in Cells |->
                   IF c \notin Listed(tab) THEN tab.slot[c]
                   ELSE [tab.slot[c] EXCEPT !.speed = stop(c), !.target = stop(c)]]
<1>1. tab' = [tab EXCEPT !.slot = f]
  BY Zenon DEF stopAll
<1>2. ASSUME NEW c \in Cells PROVE Alike(tab.slot[c], f[c])
  <2>1. tab.slot[c] \in Slot
    BY SMTT(30), SlotFacts
  <2>2. tab.slot[c].target \in SpeedCode
    BY ZenonT(30), <2>1, AlikeFields
  <2>3. stop(c) \in SpeedCode
    BY ZenonT(30), <2>2, CodeFacts
  <2> HIDE DEF stop
  <2>4. /\ Alike(tab.slot[c], tab.slot[c])
        /\ Alike(tab.slot[c], [tab.slot[c] EXCEPT !.speed = stop(c), !.target = stop(c)])
    BY Zenon, <2>1, <2>3, AlikeFields
  <2> QED
    BY <2>4
<1>3. DOMAIN f = Cells /\ f = [c \in Cells |-> f[c]]
  OBVIOUS
<1> HIDE DEF f
<1>4. Refilled(tab, tab')
  BY <1>1, <1>2, <1>3, RefillSlots
<1> QED
  BY SMTT(30), <1>4, RefilledServed

LEMMA SetThrottleServed ==
    ASSUME tab \in Table, TableWellFormed(tab), NumbersOK, NEW cab \in Nat, NEW v, NEW fwd,
           Code(v, fwd) \in SpeedCode, setThrottle(cab, v, fwd)
    PROVE  Served(tab, tab')
<1> DEFINE t == getSlot(tab, cab)
           c == Find(t, cab)
<1>1. Served(tab, t) /\ t \in Table /\ TableWellFormed(t)
  BY GetSlotServed, ServedTable
<1>2. c \in Cells \cup {Null}
  BY <1>1, FindFacts
<1>3. stopAll \/ (c # Null /\ Throttle(t, c, Code(v, fwd))) \/ tab' = tab
  BY DEF setThrottle, Has
<1> HIDE DEF t, c
<1>4. CASE stopAll
  BY <1>4, StopAllServed
<1>5. CASE c # Null /\ Throttle(t, c, Code(v, fwd))
  BY <1>1, <1>2, <1>5, ThrottleServed, ServedTransitive
<1>6. CASE tab' = tab
  BY <1>6, ServedSelf
<1> QED
  BY <1>3, <1>4, <1>5, <1>6

-----------------------------------------------------------------------------
(* The invariant of the table.  Until a null pointer is written to, the    *)
(* pointers of the consists are Linked: TableOK alone does not say that no *)
(* slot outside the chain points into it.                                  *)
TableInv ==
    /\ tab \in Table /\ TableWellFormed(tab)
    /\ crashed \in BOOLEAN /\ (crashed \/ Linked(tab))
    /\ tab.modified \/ reminder = Null \/ reminder \in Listed(tab)
    /\ NumbersOK /\ session \in Range(Sessions)

LEMMA SessionFacts ==
    ASSUME session \in Range(Sessions)
    PROVE  /\ session \in Session /\ Used \subseteq Nat \ {0} /\ session.revs \subseteq BOOLEAN
           /\ session.speeds \subseteq -1..MaxSpeed - 1 /\ session.dirs \subseteq BOOLEAN
<1>1. PICK s \in DOMAIN Sessions : session = Sessions[s]
  BY DEF Range
<1>2. session \in Session
  BY <1>1, DCCAssumption
<1>3. /\ session.locos \subseteq Locos /\ session.revs \subseteq BOOLEAN
      /\ session.speeds \subseteq -1..MaxSpeed - 1 /\ session.dirs \subseteq BOOLEAN
  BY <1>2 DEF Session
<1> QED
  BY ZenonT(30), <1>2, <1>3, DCCAssumption DEF Used

LEMMA ServedStep ==
    ASSUME TableInv, Served(tab, tab'), NumbersOK', UNCHANGED <<reminder, crashed, session>>
    PROVE  TableInv'
<1>1. tab' \in Table /\ TableWellFormed(tab') /\ (crashed' \/ Linked(tab'))
  BY DEF Served, Keeps, TableInv
<1>2. tab'.modified \/ reminder' = Null \/ reminder' \in Listed(tab')
  BY DEF Served, Keeps, TableInv
<1>3. crashed' \in BOOLEAN /\ session' \in Range(Sessions)
  BY SMTT(30) DEF TableInv
<1>4. TableWellFormed(tab)' /\ Listed(tab)' = Listed(tab') /\ Linked(tab)' = Linked(tab')
  BY Zenon, <1>1 DEF TableWellFormed, Listed, Recycled, Linked, Ranked
<1> QED
  BY <1>1, <1>2, <1>3, <1>4 DEF TableInv

LEMMA CommandNumbers ==
    ASSUME NEW op, Command(op), NumbersOK
    PROVE  NumbersOK' /\ session' = session /\ ~crashed
  BY DEF Command, Given, NumbersOK

LEMMA SlotCommands ==
    ASSUME TableInv, NEW l \in Used
    PROVE  /\ saveSpeed(l) => Served(tab, tab')
           /\ restoreSpeed(l) => Served(tab, tab')
           /\ \A a, d \in Momenta : setMomentum(l, a, d) => Served(tab, tab')
           /\ \A freq \in {0, 2} : setDCFreq(l, freq) => Served(tab, tab')
<1>1. tab \in Table /\ TableWellFormed(tab) /\ NumbersOK /\ l \in Nat
  BY SessionFacts DEF TableInv
<1> DEFINE t == getSlot(tab, l)
<1>2. Served(tab, t) /\ t \in Table /\ TableWellFormed(t)
  BY <1>1, GetSlotServed, ServedTable
<1>3. ASSUME NEW u \in Table, TableWellFormed(u), Find(u, l) # Null
      PROVE  Find(u, l) \in Cells /\ u.slot[Find(u, l)] \in Slot
  BY <1>3, FindFacts, SlotFacts
<1>4. ASSUME saveSpeed(l) PROVE Served(tab, tab')
  <2> DEFINE c == Find(tab, l)
             s == [tab.slot[c] EXCEPT !.saved = tab.slot[c].target]
  <2>1. c \in Cells /\ tab.slot[c] \in Slot
    BY <1>1, <1>3, <1>4 DEF saveSpeed, Has
  <2>2. Alike(tab.slot[c], s)
    BY ZenonT(30), <2>1, AlikeFields
  <2>3. tab' = PutSlot(tab, c, s)
    BY <1>4 DEF saveSpeed, PutSlot
  <2> HIDE DEF c, s
  <2> QED
    BY <1>1, <2>1, <2>2, <2>3, FieldServed
<1>5. ASSUME restoreSpeed(l) PROVE Served(tab, tab')
  <2> DEFINE c == Find(tab, l)
  <2>1. c \in Cells /\ tab.slot[c] \in Slot /\ Throttle(tab, c, tab.slot[c].saved)
    BY SMTT(30), <1>1, <1>3, <1>5 DEF restoreSpeed, Has
  <2>2. tab.slot[c].saved \in SpeedCode
    BY ZenonT(30), <2>1, AlikeFields
  <2> HIDE DEF c
  <2> QED
    BY <1>1, <2>1, <2>2, ThrottleServed
<1>6. ASSUME NEW a \in Momenta, NEW d \in Momenta, setMomentum(l, a, d) PROVE Served(tab, tab')
  <2> DEFINE c == Find(t, l)
             s == [t.slot[c] EXCEPT !.momA = a, !.momD = d]
  <2>1. tab' = IF c = Null THEN t ELSE [t EXCEPT !.slot[c].momA = a, !.slot[c].momD = d]
    BY <1>6 DEF setMomentum
  <2>2. c = Null => Served(tab, tab')
    BY <1>2, <2>1
  <2>3. ASSUME c # Null PROVE Served(tab, tab')
    <3>1. c \in Cells /\ t.slot[c] \in Slot
      BY SMTT(30), <1>2, <1>3, <2>3
    <3>2. Alike(t.slot[c], s)
      BY ZenonT(30), <3>1, AlikeFields, DCCAssumption
    <3>3. tab' = PutSlot(t, c, s)
      BY ZenonT(30), <1>2, <2>1, <2>3, <3>1 DEF PutSlot, Table, Slot
    <3> HIDE DEF c, s, t
    <3> QED
      BY <1>2, <3>1, <3>2, <3>3, FieldServed, ServedTransitive
  <2> QED
    BY <2>2, <2>3
<1>7. ASSUME NEW freq \in {0, 2}, setDCFreq(l, freq) PROVE Served(tab, tab')
  <2> DEFINE c == Find(t, l)
             g == (t.slot[c].functions \ (29..31)) \cup (IF freq = 0 THEN {} ELSE {28 + freq})
             s == [t.slot[c] EXCEPT !.functions = g]
  <2>1. tab' = IF c = Null THEN t
               ELSE [t EXCEPT !.slot[c].functions =
                       (@ \ (29..31)) \cup (IF freq = 0 THEN {} ELSE {28 + freq})]
    BY <1>7 DEF setDCFreq
  <2>2. c = Null => Served(tab, tab')
    BY <1>2, <2>1
  <2>3. ASSUME c # Null PROVE Served(tab, tab')
    <3>1. c \in Cells /\ t.slot[c] \in Slot
      BY SMTT(30), <1>2, <1>3, <2>3
    <3>2. g \in SUBSET Nat
      <4> DEFINE F == t.slot[c].functions
                 more == IF freq = 0 THEN {} ELSE {28 + freq}
      <4>1. F \in SUBSET Nat
        BY ZenonT(30), <3>1, AlikeFields
      <4>2. more \in SUBSET Nat
        BY <1>7
      <4> HIDE DEF F, more
      <4>3. (F \ (29..31)) \cup more \in SUBSET Nat
        BY <4>1, <4>2, Zenon
      <4> QED
        BY SMTT(30), <4>3 DEF F, more
    <3>3. tab' = PutSlot(t, c, s)
      <4>1. tab' = [t EXCEPT !.slot[c].functions =
                      (@ \ (29..31)) \cup (IF freq = 0 THEN {} ELSE {28 + freq})]
        BY SMTT(30), <2>1, <2>3
      <4> HIDE DEF c, t
      <4> QED
        BY <4>1 DEF PutSlot
    <3> HIDE DEF g
    <3>4. Alike(t.slot[c], s)
      BY ZenonT(30), <3>1, <3>2, AlikeFields
    <3> HIDE DEF c, s, t
    <3> QED
      BY <1>2, <3>1, <3>3, <3>4, FieldServed, ServedTransitive
  <2> QED
    BY <2>2, <2>3
<1> QED
  BY <1>4, <1>5, <1>6, <1>7

LEMMA FunctionCommands ==
    ASSUME TableInv, NEW l \in Used
    PROVE  /\ \A f \in Fns, on \in BOOLEAN : function(l, f, on) => Served(tab, tab')
           /\ \A f \in Fns : changeFn(l, f) => Served(tab, tab')
           /\ \A p \in FnBytes : parsef(l, p) => Served(tab, tab')
<1>1. tab \in Table /\ TableWellFormed(tab) /\ l \in Nat
  BY SessionFacts DEF TableInv
<1>2. ASSUME NEW f \in Fns, NEW on PROVE Served(tab, setFn(tab, l, f, on))
  BY <1>1, SetFnServed, DCCAssumption
<1>3. ASSUME NEW p \in FnBytes PROVE Served(tab, funcmap(tab, l, FieldOf(p)))
  <2>1. FieldOf(p) \in [first : Nat, last : Nat, value : Nat] /\ FieldOf(p).first <= FieldOf(p).last
    BY GroupAssumption
  <2> QED
    BY <1>1, <2>1, FuncmapServed
<1>4. ASSUME NEW f \in Fns, NEW on \in BOOLEAN, function(l, f, on) PROVE Served(tab, tab')
  BY <1>2, <1>4 DEF function, FunctionCommand
<1>5. ASSUME NEW f \in Fns, changeFn(l, f) PROVE Served(tab, tab')
  <2> DEFINE on == f \notin tab.slot[Find(tab, l)].functions
  <2>1. tab' = setFn(tab, l, f, on)
    BY <1>5 DEF changeFn, FunctionCommand
  <2> HIDE DEF on
  <2> QED
    BY SMTT(30), <1>2, <2>1
<1>6. ASSUME NEW p \in FnBytes, parsef(l, p) PROVE Served(tab, tab')
  BY <1>3, <1>6 DEF parsef, FunctionCommand
<1> QED
  BY SMTT(30), <1>4, <1>5, <1>6

-----------------------------------------------------------------------------
(* Consists, forgetting and reminders. *)

LEMMA ConsistCommands ==
    ASSUME TableInv, NEW res, ~crashed, NumbersOK', session' = session, ConsistDone(res),
           Keeps(tab, res.tab), res.ub \in BOOLEAN, ~res.ub => Linked(res.tab)
    PROVE  TableInv'
<1>1. tab' = res.tab /\ crashed' = res.ub /\ reminder' = reminder
  BY DEF ConsistDone
<1>2. tab' \in Table /\ TableWellFormed(tab') /\ (crashed' \/ Linked(tab')) /\ crashed' \in BOOLEAN
  BY <1>1 DEF Keeps
<1>3. tab'.modified \/ reminder' = Null \/ reminder' \in Listed(tab')
  BY <1>1 DEF Keeps, TableInv
<1>4. session' \in Range(Sessions)
  BY DEF TableInv
<1> QED
  BY SMTT(30), <1>2, <1>3, <1>4 DEF TableInv

LEMMA ParamsFacts ==
    ASSUME session \in Range(Sessions), NEW p \in Params[session]
    PROVE  \E n : ConsistParams(p, n)
<1>1. /\ p \in UNION {[1..n -> [loco : session.locos, rev : session.revs]] : n \in 1..MaxConsist}
      /\ \A i, j \in DOMAIN p : p[i].loco = p[j].loco => i = j
  BY DEF Params
<1>2. PICK n \in 1..MaxConsist : p \in [1..n -> [loco : session.locos, rev : session.revs]]
  BY <1>1
<1>3. session.locos \subseteq Nat \ {0} /\ session.revs \subseteq BOOLEAN
  BY SessionFacts DEF Used
<1>4. p \in [1..n -> [loco : Nat \ {0}, rev : BOOLEAN]] /\ DOMAIN p = 1..n
  BY <1>2, <1>3
<1>5. n \in Nat /\ n >= 1
  BY DCCAssumption
<1> QED
  BY SMTT(30), <1>1, <1>4, <1>5 DEF ConsistParams

LEMMA ConsistParseStep ==
    ASSUME TableInv, NEW p \in Params[session], consistParse(p) PROVE TableInv'
<1>1. Command("consist") /\ ConsistDone(parse(tab, p))
  BY DEF consistParse
<1>2. NumbersOK' /\ session' = session /\ ~crashed
  BY SMTT(30), <1>1, CommandNumbers DEF TableInv
<1>3. tab \in Table /\ TableWellFormed(tab) /\ Linked(tab) /\ session \in Range(Sessions)
  BY <1>2 DEF TableInv
<1>4. PICK n : ConsistParams(p, n)
  BY SMTT(30), <1>3, ParamsFacts
<1> DEFINE res == parse(tab, p)
<1>5. Keeps(tab, res.tab) /\ res.ub \in BOOLEAN /\ (~res.ub => Linked(res.tab))
  BY <1>3, <1>4, ParseKeeps
<1> HIDE DEF res
<1> QED
  BY <1>1, <1>2, <1>5, ConsistCommands DEF res

LEMMA ConsistDeleteStep ==
    ASSUME TableInv, NEW l, consistDelete(l) PROVE TableInv'
<1> DEFINE res == Done(deleteAnyConsist(tab, l))
<1>1. Command("consist") /\ ConsistDone(res)
  BY DEF consistDelete
<1>2. NumbersOK' /\ session' = session /\ ~crashed
  BY <1>1, CommandNumbers DEF TableInv
<1>3. tab \in Table /\ TableWellFormed(tab) /\ Linked(tab)
  BY <1>2 DEF TableInv
<1>4. PICK r \in [Cells -> Nat] : Ranked(tab, r)
  BY <1>3 DEF Linked
<1>5. /\ SlotsOnly(tab, deleteAnyConsist(tab, l))
      /\ Ranked(deleteAnyConsist(tab, l), r)
  BY SMTT(30), <1>3, <1>4, DeleteKeeps
<1>6. Keeps(tab, deleteAnyConsist(tab, l)) /\ Linked(deleteAnyConsist(tab, l))
  BY <1>3, <1>5, SlotsOnlyKeeps DEF Linked
<1>7. res.tab = deleteAnyConsist(tab, l) /\ res.ub = FALSE
  BY DEF Done
<1> HIDE DEF res
<1> QED
  BY Zenon, <1>1, <1>2, <1>6, <1>7, ConsistCommands

LEMMA ConsistAddStep ==
    ASSUME TableInv, NEW c \in Used, NEW l \in Used, NEW rev \in session.revs, consistAdd(c, l, rev)
    PROVE  TableInv'
<1> DEFINE res == addLocoToConsist(tab, c, l, rev)
<1>1. Command("add") /\ ConsistDone(res)
  BY DEF consistAdd
<1>2. NumbersOK' /\ session' = session /\ ~crashed
  BY <1>1, CommandNumbers DEF TableInv
<1>3. tab \in Table /\ TableWellFormed(tab) /\ Linked(tab) /\ c \in Nat /\ l \in Nat /\ rev \in BOOLEAN
  BY <1>2, SessionFacts DEF TableInv
<1>4. Keeps(tab, res.tab) /\ Linked(res.tab) /\ res.ub = FALSE
  BY ZenonT(30), <1>3, AddKeeps
<1> HIDE DEF res
<1> QED
  BY Zenon, <1>1, <1>2, <1>4, ConsistCommands

LEMMA ForgetStep ==
    ASSUME TableInv, NEW l, forgetLoco(l) PROVE TableInv'
<1> DEFINE c == Find(tab, l)
           t == IF inConsist(tab, l) THEN deleteAnyConsist(tab, l) ELSE tab
<1>1. /\ Command("forget") /\ c # Null /\ tab' = forget(t, c) /\ crashed' = crashed
  BY DEF forgetLoco
<1>2. NumbersOK' /\ session' = session /\ ~crashed
  BY <1>1, CommandNumbers DEF TableInv
<1>3. tab \in Table /\ TableWellFormed(tab) /\ Linked(tab)
  BY <1>2 DEF TableInv
<1>4. PICK r \in [Cells -> Nat] : Ranked(tab, r)
  BY <1>3 DEF Linked
<1>5. c \in Listed(tab)
  BY <1>1, <1>3, FindFacts
<1>6. /\ t \in Table /\ TableWellFormed(t) /\ c \in Listed(t) /\ Ranked(t, r)
      /\ t.slot[c].lead = Null /\ t.slot[c].next = Null
  <2>1. CASE inConsist(tab, l)
    <3>1. /\ SlotsOnly(tab, t) /\ Ranked(t, r) /\ t.slot[c].lead = Null /\ t.slot[c].next = Null
      BY <1>1, <1>3, <1>4, <2>1, DeleteKeeps
    <3>2. t \in Table
      BY SMTT(30), <3>1 DEF SlotsOnly
    <3> HIDE DEF t
    <3> QED
      BY ZenonT(30), <1>3, <1>5, <3>1, <3>2, SlotsOnlyFacts
  <2>2. CASE ~inConsist(tab, l)
    <3>1. t = tab
      BY <2>2
    <3>2. tab.slot[c].lead = Null /\ tab.slot[c].next = Null
      BY <1>1, <2>2, AloneFacts
    <3> HIDE DEF t, c
    <3> QED
      BY <1>3, <1>4, <1>5, <3>1, <3>2
  <2> QED
    BY ZenonT(30), <2>1, <2>2
<1> HIDE DEF t, c
<1>7. tab' \in Table /\ TableWellFormed(tab') /\ tab'.modified /\ Ranked(tab', r)
  BY <1>1, <1>6, ForgetKeeps
<1>8. Linked(tab')
  BY <1>7 DEF Linked
<1>9. crashed' \in BOOLEAN /\ session' \in Range(Sessions)
  BY <1>1, <1>2 DEF TableInv
<1> QED
  BY <1>2, <1>7, <1>8, <1>9 DEF TableInv

\* A table without slots.
Empty(t) ==
    /\ t.list = <<>> /\ t.recycler = <<>> /\ t.count = 0
    /\ t.slot = [c \in Cells |-> Prepared(0)]

LEMMA EmptyFacts ==
    ASSUME NEW t \in Table, Empty(t) PROVE TableWellFormed(t) /\ Linked(t)
<1>1. Prepared(0).lead = Null /\ Prepared(0).next = Null
  BY PreparedFacts
<1>2. Listed(t) = {} /\ Recycled(t) = {}
  BY DEF Empty, Listed, Recycled, Range
<1>3. TableWellFormed(t)
  <2>1. DOMAIN t.list = {} /\ DOMAIN t.recycler = {} /\ Len(t.list) = 0 /\ Len(t.recycler) = 0
    BY DEF Empty
  <2>2. IsInjective(t.list) /\ IsInjective(t.recycler)
    BY <2>1 DEF IsInjective
  <2>3. t.count = 0 /\ 0 + 0 = 0 /\ 0 <= MAX_LOCOS
    BY SMTT(30), SlotAssumption DEF Empty
  <2> QED
    BY <1>2, <2>1, <2>2, <2>3, Zenon DEF TableWellFormed
<1>4. Ranked(t, [c \in Cells |-> 0])
  BY <1>1, <1>2, CellFacts DEF Ranked, Empty
<1>5. [c \in Cells |-> 0] \in [Cells -> Nat]
  BY SMTT(30)
<1> QED
  BY <1>3, <1>4, <1>5 DEF Linked

LEMMA EmptyRecord ==
    ASSUME NEW b \in BOOLEAN, NEW f \in [Cells -> Slot], NEW e \in Seq(Cells)
    PROVE  [list |-> e, recycler |-> e, count |-> 0, modified |-> b, slot |-> f] \in Table
  BY DEF Table

LEMMA EmptyTables ==
    /\ EmptyTable \in Table /\ Empty(EmptyTable)
    /\ forgetAll(tab) \in Table /\ Empty(forgetAll(tab))
<1> DEFINE f == [c \in Cells |-> Prepared(0)]
           e == <<>>
<1>1. f \in [Cells -> Slot]
  BY PreparedFacts
<1>2. e \in Seq(Cells)
  OBVIOUS
<1>3. EmptyTable = [list |-> e, recycler |-> e, count |-> 0, modified |-> FALSE, slot |-> f]
  BY DEF EmptyTable
<1>4. Empty(EmptyTable)
  BY DEF EmptyTable, Empty
<1> HIDE DEF e, f
<1>5. EmptyTable \in Table
  BY ZenonT(30), <1>1, <1>2, <1>3, EmptyRecord
<1>6. ASSUME NEW t \in Table, Empty(t)
      PROVE  [t EXCEPT !.modified = TRUE] \in Table /\ Empty([t EXCEPT !.modified = TRUE])
  <2>1. [t EXCEPT !.modified = TRUE] \in Table
    BY ZenonT(30) DEF Table
  <2>2. Empty([t EXCEPT !.modified = TRUE])
    BY <1>6 DEF Table, Empty
  <2> QED
    BY <2>1, <2>2
<1> QED
  BY <1>4, <1>5, <1>6 DEF forgetAll

LEMMA ForgetAllStep ==
    ASSUME TableInv, forgetAllLocos PROVE TableInv'
<1>1. /\ Command("forget") /\ tab' = forgetAll(tab) /\ reminder' = Null
      /\ crashed' = crashed
  BY DEF forgetAllLocos
<1>2. NumbersOK' /\ session' = session /\ crashed' \in BOOLEAN /\ session' \in Range(Sessions)
  BY SMTT(30), <1>1, CommandNumbers DEF TableInv
<1>3. tab' \in Table /\ TableWellFormed(tab') /\ Linked(tab')
  BY <1>1, EmptyTables, EmptyFacts
<1> QED
  BY <1>1, <1>2, <1>3 DEF TableInv

-----------------------------------------------------------------------------
(* The reminder loop. *)

LEMMA NextOfFacts ==
    ASSUME NEW t \in Table, NEW c \in Listed(t) PROVE NextOf(t, c) \in Listed(t) \cup {Null}
<1>1. DOMAIN t.list = 1..Len(t.list) /\ Len(t.list) \in Nat
  BY ListedFacts
<1>2. \E k \in DOMAIN t.list : t.list[k] = c
  BY DEF Listed, Range
<1>3. Index(t, c) \in DOMAIN t.list
  BY <1>2, Zenon DEF Index
<1> DEFINE k == Index(t, c)
           n == Len(t.list)
<1>4. k \in 1..n /\ n \in Nat
  BY SMTT(30), <1>1, <1>3
<1>5. NextOf(t, c) = IF k = n THEN Null ELSE t.list[k + 1]
  BY DEF NextOf
<1> HIDE DEF k, n
<1>6. k # n => k + 1 \in 1..n
  BY <1>4
<1>7. k # n => k + 1 \in DOMAIN t.list
  BY <1>1, <1>6 DEF n
<1> QED
  BY <1>5, <1>7 DEF Listed, Range

LEMMA RampedCode ==
    ASSUME NEW s \in Slot, NumbersOK PROVE Ramped(s) \in SpeedCode
<1>1. Notches(s) \in Nat
  BY NotchesFacts
<1>2. s.speed \in SpeedCode /\ s.target \in SpeedCode
  BY ZenonT(30), AlikeFields
<1> DEFINE cur == normalize(s.speed)
           goal == normalize(s.target)
           n == Notches(s)
           to == IF cur < goal THEN (IF cur + n > goal THEN goal ELSE cur + n)
                               ELSE (IF cur - n < goal THEN goal ELSE cur - n)
<1>3. cur \in Int /\ goal \in Int /\ n \in Nat
  BY Zenon, <1>1, <1>2, CodeFacts
<1>4. Ramped(s) = dccalize(to)
  BY DEF Ramped
<1> HIDE DEF cur, goal, n
<1>5. to \in Int
  BY <1>3
<1> HIDE DEF to
<1> QED
  BY <1>4, <1>5, DccalizeCode

LEMMA RemindRefills ==
    ASSUME NEW t \in Table, NumbersOK, NEW c \in Cells, NEW st,
           IF st % 2 = 0 THEN remindSpeed(t, c) ELSE remindFunctions(t, c, GroupOfStatus(st))
    PROVE  tab' = t \/ Refilled(t, tab')
<1>1. t.slot[c] \in Slot
  BY SMTT(30), SlotFacts
<1>2. t.slot[c].speed \in SpeedCode
  BY ZenonT(30), <1>1, AlikeFields
<1>3. CASE remindSpeed(t, c)
  <2> DEFINE u == [t EXCEPT !.slot[c].base = now]
  <2>1. setThrottle2(u, c, Ramped(t.slot[c])) \/ setThrottle2(t, c, t.slot[c].speed)
    BY <1>3 DEF remindSpeed
  <2>2. Refilled(t, u) /\ u \in Table
    <3>1. Refilled(t, u)
      BY BaseRefilled DEF NumbersOK
    <3> HIDE DEF u
    <3> QED
      BY <3>1 DEF Refilled, SlotsOnly
  <2>3. Ramped(t.slot[c]) \in SpeedCode
    BY SMTT(30), <1>1, RampedCode
  <2> HIDE DEF u
  <2> QED
    BY <1>2, <2>1, <2>2, <2>3, SetThrottle2Refills, RefilledTransitive
<1>4. CASE remindFunctions(t, c, GroupOfStatus(st))
  BY SMTT(30), <1>4 DEF remindFunctions
<1> QED
  BY SMTT(30), <1>3, <1>4

LEMMA RemindFromServed ==
    ASSUME NEW t \in Table, TableWellFormed(t), NumbersOK, NEW i \in Nat \ {0}, NEW st, RemindFrom(t, i, st)
    PROVE  Served(t, tab') /\ (reminder' = Null \/ reminder' \in Listed(t))
           /\ (tab' = t \/ Refilled(t, tab'))
<1>1. CASE \E k \in i..Len(t.list) :
              /\ IF st % 2 = 0 THEN remindSpeed(t, t.list[k])
                               ELSE remindFunctions(t, t.list[k], GroupOfStatus(st))
              /\ reminder' = NextOf(t, t.list[k])
  <2>1. PICK k \in i..Len(t.list) :
              /\ IF st % 2 = 0 THEN remindSpeed(t, t.list[k])
                               ELSE remindFunctions(t, t.list[k], GroupOfStatus(st))
              /\ reminder' = NextOf(t, t.list[k])
    BY <1>1
  <2>2. k \in DOMAIN t.list
    BY ListedFacts
  <2>3. t.list[k] \in Listed(t) /\ t.list[k] \in Cells
    BY SMTT(30), <2>2, ListedFacts DEF Listed, Range
  <2>4. tab' = t \/ Refilled(t, tab')
    BY <2>1, <2>3, RemindRefills
  <2>5. Served(t, tab')
    BY <2>4, RefilledServed, ServedSelf
  <2> QED
    BY SMTT(30), <2>1, <2>3, <2>4, <2>5, NextOfFacts
<1>2. CASE tab' = t /\ reminder' = Null
  BY <1>2, ServedSelf
<1> QED
  BY SMTT(30), <1>1, <1>2 DEF RemindFrom

LEMMA UnmodifiedFacts ==
    ASSUME NEW t \in Table, TableWellFormed(t), NEW u, u = [t EXCEPT !.modified = FALSE]
    PROVE  /\ u \in Table /\ TableWellFormed(u) /\ (Linked(t) => Linked(u))
           /\ u.slot = t.slot /\ u.list = t.list /\ Listed(u) = Listed(t)
<1>1. u \in Table
  BY Zenon DEF Table
<1>2. u.list = t.list /\ u.recycler = t.recycler /\ u.count = t.count /\ u.slot = t.slot
  BY DEF Table
<1>3. Listed(u) = Listed(t) /\ Recycled(u) = Recycled(t)
  BY <1>2 DEF Listed, Recycled
<1>4. TableWellFormed(u)
  BY ZenonT(30), <1>2, <1>3 DEF TableWellFormed
<1>5. ASSUME NEW r \in [Cells -> Nat], Ranked(t, r) PROVE Ranked(u, r)
  <2>1. /\ Listed(t) \subseteq Listed(u)
        /\ \A d \in Cells : u.slot[d].lead = t.slot[d].lead /\ u.slot[d].next = t.slot[d].next
    BY SMTT(30), <1>2, <1>3
  <2> QED
    BY Zenon, <1>1, <1>5, <2>1, RankedKept
<1> QED
  BY ZenonT(30), <1>1, <1>2, <1>3, <1>4, <1>5 DEF Linked

\* A call of issueReminders: the table it looks at, and what it does to it.
LEMMA ReminderFacts ==
    ASSUME TableInv, issueReminders
    PROVE  \E t \in {tab, [tab EXCEPT !.modified = FALSE]}, i \in Nat \ {0} :
              \E st : RemindFrom(t, i, st)
<1>1. CASE Restart(tab) /\ RemindFrom([tab EXCEPT !.modified = FALSE], 1, loopStatus')
  BY <1>1
<1>2. CASE \E i \in DOMAIN tab.list : RemindFrom(tab, i, loopStatus)
  <2>1. DOMAIN tab.list = 1..Len(tab.list)
    BY ListedFacts DEF TableInv
  <2> QED
    BY <1>2, <2>1
<1> QED
  BY ZenonT(30), <1>1, <1>2 DEF issueReminders

LEMMA ReminderStep ==
    ASSUME TableInv, issueReminders PROVE TableInv'
<1>0. PICK t \in {tab, [tab EXCEPT !.modified = FALSE]}, i \in Nat \ {0} :
            \E st : RemindFrom(t, i, st)
  BY Zenon, ReminderFacts
<1>1. PICK st : RemindFrom(t, i, st)
  BY <1>0
<1>2. ~crashed /\ UNCHANGED <<default, now, crashed, session>>
  BY DEF issueReminders
<1>3. NumbersOK /\ NumbersOK' /\ session' \in Range(Sessions) /\ crashed' \in BOOLEAN
  BY <1>2 DEF TableInv, NumbersOK
<1>4. tab \in Table /\ TableWellFormed(tab) /\ Linked(tab)
  BY <1>2 DEF TableInv
<1>5. t \in Table /\ TableWellFormed(t) /\ Linked(t)
  BY <1>1, <1>4, UnmodifiedFacts
<1>6. Served(t, tab') /\ (reminder' = Null \/ reminder' \in Listed(t)) /\ (tab' = t \/ Refilled(t, tab'))
  BY <1>1, <1>3, <1>5, RemindFromServed
<1>7. Listed(tab') = Listed(t)
  <2>1. tab' = t \/ SlotsOnly(t, tab')
    BY <1>6 DEF Refilled
  <2>2. \A u : SlotsOnly(t, u) => Listed(u) = Listed(t)
    BY <1>5, SlotsOnlyFacts
  <2>3. CASE tab' = t
    BY <2>3
  <2>4. CASE SlotsOnly(t, tab')
    BY <2>2, <2>4
  <2> QED
    BY <2>1, <2>3, <2>4
<1>8. tab' \in Table /\ TableWellFormed(tab') /\ Linked(tab')
  BY SMTT(30), <1>5, <1>6 DEF Served, Keeps
<1> QED
  BY <1>3, <1>6, <1>7, <1>8 DEF TableInv

LEMMA CommandStep ==
    ASSUME TableInv, Commands PROVE TableInv'
<1>0. tab \in Table /\ TableWellFormed(tab) /\ NumbersOK /\ session \in Range(Sessions)
  BY SMTT(30) DEF TableInv
<1>1. ASSUME NEW l \in Used \cup {0}, NEW v \in session.speeds, NEW fwd \in session.dirs,
             throttle(l, v, fwd)
      PROVE  TableInv'
  <2>1. Command("throttle") /\ setThrottle(l, DCCSpeed(v), fwd) /\ UNCHANGED <<reminder, crashed>>
    BY <1>1 DEF throttle
  <2>2. l \in Nat /\ v \in -1..MaxSpeed - 1 /\ fwd \in BOOLEAN
    BY SMTT(30), <1>0, SessionFacts
  <2>3. Code(DCCSpeed(v), fwd) \in SpeedCode
    BY <2>2, ThrottleCode
  <2>4. Served(tab, tab')
    BY SMTT(30), <1>0, <2>1, <2>2, <2>3, SetThrottleServed
  <2> QED
    BY SMTT(30), <1>0, <2>1, <2>4, CommandNumbers, ServedStep
<1>2. ASSUME NEW l \in Used, saveSpeed(l) \/ restoreSpeed(l) PROVE TableInv'
  <2>1. Command("save") /\ UNCHANGED <<reminder, crashed>>
    BY <1>2 DEF saveSpeed, restoreSpeed
  <2> QED
    BY <1>0, <1>2, <2>1, SlotCommands, CommandNumbers, ServedStep
<1>3. ASSUME NEW a \in Momenta, NEW d \in Momenta, setDefaultMomentum(a, d) PROVE TableInv'
  <2>1. default' = [A |-> a, D |-> d] /\ UNCHANGED <<tab, reminder, crashed, now, session>>
    BY <1>3 DEF setDefaultMomentum, Given
  <2>2. NumbersOK'
    BY <1>0, <2>1, DCCAssumption DEF NumbersOK
  <2> QED
    BY <1>0, <2>1, <2>2, ServedSelf, ServedStep
<1>4. ASSUME NEW a \in Momenta, NEW d \in Momenta, NEW l \in Used, setMomentum(l, a, d) PROVE TableInv'
  <2>1. Command("momentum") /\ UNCHANGED <<reminder, crashed>>
    BY <1>4 DEF setMomentum
  <2> QED
    BY <1>0, <1>4, <2>1, SlotCommands, CommandNumbers, ServedStep
<1>5. ASSUME NEW l \in Used, NEW f \in Fns, changeFn(l, f) \/ \E on \in BOOLEAN : function(l, f, on)
      PROVE  TableInv'
  <2>1. Command("function") /\ UNCHANGED <<reminder, crashed>>
    BY <1>5 DEF changeFn, function, FunctionCommand
  <2>2. Served(tab, tab')
    BY <1>5, FunctionCommands
  <2> QED
    BY SMTT(30), <1>0, <2>1, <2>2, CommandNumbers, ServedStep
<1>6. ASSUME NEW l \in Used, NEW p \in FnBytes, parsef(l, p) PROVE TableInv'
  <2>1. Command("group") /\ UNCHANGED <<reminder, crashed>>
    BY <1>6 DEF parsef, FunctionCommand
  <2>2. Served(tab, tab')
    BY SMTT(30), <1>6, FunctionCommands
  <2> QED
    BY <1>0, <2>1, <2>2, CommandNumbers, ServedStep
<1>7. ASSUME NEW l \in Used, NEW freq \in {0, 2}, setDCFreq(l, freq) PROVE TableInv'
  <2>1. Command("freq") /\ UNCHANGED <<reminder, crashed>>
    BY <1>7 DEF setDCFreq
  <2> QED
    BY SMTT(30), <1>0, <1>7, <2>1, SlotCommands, CommandNumbers, ServedStep
<1>8. ASSUME estopAll PROVE TableInv'
  <2>1. Command("estop") /\ stopAll /\ UNCHANGED <<reminder, crashed>>
    BY <1>8 DEF estopAll
  <2> QED
    BY <1>0, <2>1, StopAllServed, CommandNumbers, ServedStep
<1>9. ASSUME UNCHANGED <<tab, reminder, crashed, session, now, default>> PROVE TableInv'
  <2>1. NumbersOK'
    BY SMTT(30), <1>0, <1>9 DEF NumbersOK
  <2> QED
    BY <1>0, <1>9, <2>1, ServedSelf, ServedStep
<1>10. ASSUME \/ \E on \in BOOLEAN : setLinear(on)
              \/ \E lock \in BOOLEAN : estopLock(lock)
              \/ \E l \in Used : setTrackModeDC(l)
              \/ setTrackModeMain
       PROVE  UNCHANGED <<tab, reminder, crashed, session, now, default>>
  BY Zenon, <1>10 DEF setLinear, estopLock, setTrackModeDC, setTrackModeMain, Command, Given
<1> QED
  BY <1>1, <1>2, <1>3, <1>4, <1>5, <1>6, <1>7, <1>8, <1>9, <1>10,
     ConsistParseStep, ConsistDeleteStep, ConsistAddStep, ForgetStep, ForgetAllStep
     DEF Commands

LEMMA TableInvIsInvariant == Spec => []TableInv
<1>1. Init => TableInv
  <2> SUFFICES ASSUME Init PROVE TableInv
    OBVIOUS
  <2>1. /\ tab = EmptyTable /\ reminder = Null /\ crashed = FALSE /\ session \in Range(Sessions)
        /\ now = 0 /\ default = [A |-> 0, D |-> 0]
    BY DEF Init
  <2>2. tab \in Table /\ TableWellFormed(tab) /\ Linked(tab)
    BY <2>1, EmptyTables, EmptyFacts
  <2>3. NumbersOK
    BY <2>1 DEF NumbersOK
  <2> QED
    BY Zenon, <2>1, <2>2, <2>3 DEF TableInv
<1>2. TableInv /\ [Next]_vars => TableInv'
  <2> SUFFICES ASSUME TableInv, [Next]_vars PROVE TableInv'
    OBVIOUS
  <2>0. tab \in Table /\ TableWellFormed(tab) /\ NumbersOK
    BY DEF TableInv
  <2>1. CASE Tick
    <3>1. now' = (now + 1) % DelayMod /\ UNCHANGED <<tab, reminder, crashed, session, default>>
      BY <2>1 DEF Tick
    <3>2. NumbersOK'
      BY SMTT(30), <2>0, <3>1, DCCAssumption DEF NumbersOK
    <3> QED
      BY SMTT(30), <2>0, <3>1, <3>2, ServedSelf, ServedStep
  <2>2. CASE UNCHANGED vars
    <3>1. UNCHANGED <<tab, reminder, crashed, session, now, default>>
      BY <2>2 DEF vars
    <3>2. NumbersOK'
      BY <2>0, <3>1 DEF NumbersOK
    <3> QED
      BY SMTT(30), <2>0, <3>1, <3>2, ServedSelf, ServedStep
  <2> QED
    BY <2>1, <2>2, CommandStep, ReminderStep DEF Next
<1> QED
  BY <1>1, <1>2, PTL DEF Spec

\* Through every order of creating, recycling and forgetting slots and of creating,
\* adding to, deleting and running out of room for consists: no slot is leaked,
\* listed twice or of a loco that has one, consists are chains of slots in use until
\* parse writes to a null pointer, and unless issueReminders is about to start over
\* nextLocoReminder is a slot of the table (LocoSlot, DCCConsist, issueReminders).
THEOREM TableStays == Spec => []TableOK
<1>1. TableInv => TableOK
  <2> SUFFICES ASSUME TableInv PROVE TableOK
    OBVIOUS
  <2>1. crashed \/ ConsistsWellFormed(tab)
    BY LinkedConsists DEF TableInv
  <2> QED
    BY <2>1 DEF TableInv, TableOK
<1> QED
  BY <1>1, TableInvIsInvariant, PTL

-----------------------------------------------------------------------------
(* Ramps.  On the scale of normalize, a speed reminder moves the speed     *)
(* towards the target and stops at it.                                     *)
Between(old, new, goal) == (old <= new /\ new <= goal) \/ (goal <= new /\ new <= old)

LEMMA DccalizeInverse ==
    ASSUME NEW n \in (-1 - MaxSpeed)..MaxSpeed PROVE normalize(dccalize(n)) = n
<1>0. MaxSpeed \in Nat /\ MaxSpeed > 1 /\ n \in Int
  BY SlotAssumption
<1>1. CASE n < -MaxSpeed
  <2>1. n = -1 - MaxSpeed /\ ~(n > MaxSpeed) /\ n \notin 0..MaxSpeed
    BY <1>0, <1>1
  <2>2. dccalize(n) = Code(MaxSpeed, FALSE)
    BY <1>1, <2>1, Zenon DEF dccalize
  <2> QED
    BY <2>1, <2>2 DEF Code, normalize
<1>2. CASE n \in 0..MaxSpeed
  <2>1. ~(n > MaxSpeed) /\ ~(n < -MaxSpeed)
    BY <1>0, <1>2
  <2>2. dccalize(n) = Code(n, TRUE)
    BY <1>2, <2>1, Zenon DEF dccalize
  <2> QED
    BY <2>2 DEF Code, normalize
<1>3. CASE n < 0 /\ ~(n < -MaxSpeed)
  <2>1. ~(n > MaxSpeed) /\ n \notin 0..MaxSpeed
    BY SMTT(30), <1>0, <1>3
  <2>2. dccalize(n) = Code(-1 - n, FALSE)
    BY <1>3, <2>1, ZenonT(30) DEF dccalize
  <2>3. normalize(dccalize(n)) = -1 - (-1 - n)
    BY <2>2 DEF Code, normalize
  <2> QED
    BY <1>0, <2>3
<1> QED
  BY <1>0, <1>1, <1>2, <1>3

LEMMA NormalizeFacts ==
    ASSUME NEW code \in SpeedCode PROVE normalize(code) \in (-1 - MaxSpeed)..MaxSpeed
<1>1. code.v \in 0..MaxSpeed /\ code.fwd \in BOOLEAN
  BY DEF SpeedCode
<1> QED
  BY <1>1, SlotAssumption DEF normalize

LEMMA RampedBetween ==
    ASSUME NEW s \in Slot, NumbersOK
    PROVE  Between(normalize(s.speed), normalize(Ramped(s)), normalize(s.target))
<1>1. Notches(s) \in Nat
  BY NotchesFacts
<1>2. s.speed \in SpeedCode /\ s.target \in SpeedCode
  BY Zenon, AlikeFields
<1> DEFINE cur == normalize(s.speed)
           goal == normalize(s.target)
           n == Notches(s)
           to == IF cur < goal THEN (IF cur + n > goal THEN goal ELSE cur + n)
                               ELSE (IF cur - n < goal THEN goal ELSE cur - n)
<1>3. cur \in (-1 - MaxSpeed)..MaxSpeed /\ goal \in (-1 - MaxSpeed)..MaxSpeed /\ n \in Nat
  BY SMTT(30), <1>1, <1>2, NormalizeFacts
<1>4. Ramped(s) = dccalize(to)
  BY DEF Ramped
<1> HIDE DEF cur, goal, n
<1>5. to \in (-1 - MaxSpeed)..MaxSpeed /\ Between(cur, to, goal)
  BY <1>3, SlotAssumption DEF Between
<1> HIDE DEF to
<1>6. normalize(Ramped(s)) = to
  BY SMTT(30), <1>4, <1>5, DccalizeInverse
<1> QED
  BY SMTT(30), <1>5, <1>6 DEF cur, goal

\* setThrottle2 for a slot that follows nobody reaches that slot and its followers.
LEMMA SetThrottle2Speeds ==
    ASSUME NEW t \in Table, Linked(t), NEW k \in Cells, t.slot[k].lead = Null, NEW code,
           setThrottle2(t, k, code), NEW c \in Cells, t.slot[c].lead = Null
    PROVE  tab'.slot[c].speed = IF c = k THEN code ELSE t.slot[c].speed
<1> DEFINE members == Range(Chain(t, k))
           f == [d \in Cells |-> IF d \in members THEN [t.slot[d] EXCEPT !.speed = code] ELSE t.slot[d]]
<1>1. tab' = [t EXCEPT !.slot = f]
  BY DEF setThrottle2
<1>2. PICK r \in [Cells -> Nat] : Ranked(t, r)
  BY SMTT(30) DEF Linked
<1>3. members = {d \in Cells : d = k \/ t.slot[d].lead = k}
  BY SMTT(30), <1>2, ChainMembers
<1> HIDE DEF members
<1>4. c \in members <=> c = k
  BY <1>3, CellFacts
<1>5. t.slot[c] \in Slot
  BY SlotFacts
<1>6. f[c].speed = IF c \in members THEN code ELSE t.slot[c].speed
  BY <1>5 DEF Slot
<1> HIDE DEF f
<1>7. tab'.slot = f
  BY SMTT(30), <1>1 DEF Table
<1> QED
  BY <1>4, <1>6, <1>7

LEMMA RemindSpeedBetween ==
    ASSUME NEW t \in Table, TableWellFormed(t), Linked(t), NumbersOK, NEW k \in Cells,
           t.slot[k].lead = Null, remindSpeed(t, k), NEW c \in Cells, t.slot[c].lead = Null
    PROVE  Between(normalize(t.slot[c].speed), normalize(tab'.slot[c].speed),
                   normalize(t.slot[c].target))
<1> DEFINE u == [t EXCEPT !.slot[k].base = now]
           s == t.slot[k]
<1>1. s \in Slot /\ t.slot[c] \in Slot
  BY SlotFacts
<1>2. setThrottle2(u, k, Ramped(s)) \/ setThrottle2(t, k, s.speed)
  BY DEF remindSpeed
<1>3. Refilled(t, u) /\ u \in Table
  <2>1. Refilled(t, u)
    BY BaseRefilled DEF NumbersOK
  <2> HIDE DEF u
  <2> QED
    BY <2>1 DEF Refilled, SlotsOnly
<1>4. u.slot[c].speed = t.slot[c].speed
  BY SMTT(30), <1>1 DEF Table, Slot
<1> HIDE DEF u
<1>5. Linked(u)
  BY <1>3, RefilledServed DEF Served
<1>6. u.slot[k].lead = Null /\ u.slot[c].lead = Null
  BY SMTT(30), <1>3 DEF Refilled
<1>7. \/ tab'.slot[c].speed = t.slot[c].speed
      \/ c = k /\ tab'.slot[c].speed = Ramped(s)
  <2>1. CASE setThrottle2(u, k, Ramped(s))
    <3>1. tab'.slot[c].speed = IF c = k THEN Ramped(s) ELSE u.slot[c].speed
      BY SMTT(30), <1>3, <1>5, <1>6, <2>1, SetThrottle2Speeds
    <3> QED
      BY ZenonT(30), <1>4, <3>1
  <2>2. CASE setThrottle2(t, k, s.speed)
    <3>1. tab'.slot[c].speed = IF c = k THEN s.speed ELSE t.slot[c].speed
      BY SMTT(30), <2>2, SetThrottle2Speeds
    <3> QED
      BY SMTT(30), <3>1
  <2> QED
    BY ZenonT(30), <1>2, <2>1, <2>2
<1>8. CASE tab'.slot[c].speed = t.slot[c].speed
  <2>1. t.slot[c].speed \in SpeedCode /\ t.slot[c].target \in SpeedCode
    BY ZenonT(30), <1>1, AlikeFields
  <2>2. normalize(t.slot[c].speed) \in Int /\ normalize(t.slot[c].target) \in Int
    BY ZenonT(30), <2>1, CodeFacts
  <2> QED
    BY SMTT(30), <1>8, <2>2 DEF Between
<1>9. CASE c = k /\ tab'.slot[c].speed = Ramped(s)
  BY <1>1, <1>9, RampedBetween
<1> QED
  BY ZenonT(30), <1>7, <1>8, <1>9

\* What a reminder does to the speed of a loco that follows nobody.
LEMMA ReminderBetween ==
    ASSUME TableInv, issueReminders, NEW c \in Listed(tab), ~isConsistFollower(tab.slot[c])
    PROVE  Between(normalize(tab.slot[c].speed), normalize(tab'.slot[c].speed),
                   normalize(tab.slot[c].target))
<1>0. PICK t \in {tab, [tab EXCEPT !.modified = FALSE]}, i \in Nat \ {0} :
            \E st : RemindFrom(t, i, st)
  BY Zenon, ReminderFacts
<1>1. PICK st : RemindFrom(t, i, st)
  BY <1>0
<1>2. tab \in Table /\ TableWellFormed(tab) /\ Linked(tab) /\ NumbersOK
  BY DEF TableInv, issueReminders
<1>3. t \in Table /\ TableWellFormed(t) /\ Linked(t) /\ t.slot = tab.slot
  BY <1>1, <1>2, UnmodifiedFacts
<1>4. c \in Cells /\ t.slot[c].lead = Null /\ t.slot[c] \in Slot
  BY SMTT(30), <1>2, <1>3, ListedFacts, SlotFacts DEF isConsistFollower
<1>5. tab' = t \/ \E k \in Cells : t.slot[k].lead = Null /\ remindSpeed(t, k)
  <2>1. CASE \E k \in i..Len(t.list) :
                /\ Reminds(t.slot[t.list[k]], st)
                /\ IF st % 2 = 0 THEN remindSpeed(t, t.list[k])
                                 ELSE remindFunctions(t, t.list[k], GroupOfStatus(st))
    <3>1. PICK k \in i..Len(t.list) :
                /\ Reminds(t.slot[t.list[k]], st)
                /\ IF st % 2 = 0 THEN remindSpeed(t, t.list[k])
                                 ELSE remindFunctions(t, t.list[k], GroupOfStatus(st))
      BY <2>1
    <3>2. k \in DOMAIN t.list
      BY SMTT(30), <1>3, ListedFacts
    <3>3. t.list[k] \in Cells
      BY <1>3, <3>2, ListedFacts DEF Listed, Range
    <3>4. CASE st % 2 = 0
      <4>1. t.slot[t.list[k]].lead = Null /\ remindSpeed(t, t.list[k])
        BY SMTT(30), <3>1, <3>4 DEF Reminds, isConsistFollower
      <4> QED
        BY SMTT(30), <3>3, <4>1
    <3>5. CASE st % 2 # 0
      BY ZenonT(30), <3>1, <3>5 DEF remindFunctions
    <3> QED
      BY <3>4, <3>5
  <2>2. CASE tab' = t
    BY SMTT(30), <2>2
  <2> QED
    BY <1>1, <2>1, <2>2 DEF RemindFrom
<1>6. CASE tab' = t
  <2>1. t.slot[c].speed \in SpeedCode /\ t.slot[c].target \in SpeedCode
    BY ZenonT(30), <1>4, AlikeFields
  <2>2. normalize(t.slot[c].speed) \in Int /\ normalize(t.slot[c].target) \in Int
    BY ZenonT(30), <2>1, CodeFacts
  <2>3. tab'.slot[c].speed = t.slot[c].speed /\ tab.slot[c] = t.slot[c]
    BY <1>3, <1>6
  <2> QED
    BY <2>2, <2>3 DEF Between
<1>7. ASSUME NEW k \in Cells, t.slot[k].lead = Null, remindSpeed(t, k)
      PROVE  Between(normalize(t.slot[c].speed), normalize(tab'.slot[c].speed),
                     normalize(t.slot[c].target))
  BY <1>2, <1>3, <1>4, <1>7, RemindSpeedBetween
<1> QED
  BY <1>3, <1>5, <1>6, <1>7

\* Commands and ticks are counted, which tells them from reminders.
Counted == cmds \in Nat /\ gap \in Nat

LEMMA CommandsAreGiven == Commands => \E op : Given(op)
  BY ZenonT(30) DEF Commands, throttle, saveSpeed, restoreSpeed, setMomentum, setDefaultMomentum, setLinear,
         changeFn, function, parsef, FunctionCommand, setDCFreq, consistParse, consistDelete,
         consistAdd, forgetLoco, forgetAllLocos, estopAll, estopLock, setTrackModeDC,
         setTrackModeMain, Command

LEMMA CountedIsInvariant == Spec => []Counted
<1>1. Init => Counted
  BY DEF Init, Counted
<1>2. Counted /\ [Next]_vars => Counted'
  <2> SUFFICES ASSUME Counted, [Next]_vars PROVE Counted'
    OBVIOUS
  <2>1. CASE Commands
    BY SMTT(30), <2>1, CommandsAreGiven DEF Counted, Given
  <2>2. CASE issueReminders
    BY <2>2 DEF issueReminders, Counted
  <2>3. CASE Tick
    BY <2>3 DEF Tick, Counted
  <2>4. CASE UNCHANGED vars
    BY <2>4 DEF vars, Counted
  <2> QED
    BY SMTT(30), <2>1, <2>2, <2>3, <2>4 DEF Next
<1> QED
  BY <1>1, <1>2, PTL DEF Spec

\* Through any table, consists, momentum and delays, a reminder moves the speed of
\* a loco that follows nobody towards its target and never past it, and leaves the
\* speeds of all others that follow nobody alone (issueReminders, setThrottle2).
THEOREM RampsStayInside == Spec => RampInside
<1>1. TableInv /\ Counted /\ [Next]_vars =>
        [Reminded =>
          \A c \in Listed(tab) :
            ~isConsistFollower(tab.slot[c]) =>
                LET old == normalize(tab.slot[c].speed)
                    new == normalize(tab'.slot[c].speed)
                    goal == normalize(tab.slot[c].target)
                IN  (old <= new /\ new <= goal) \/ (goal <= new /\ new <= old)]_vars
  <2> SUFFICES ASSUME TableInv, Counted, Next, Reminded, NEW c \in Listed(tab),
                      ~isConsistFollower(tab.slot[c])
               PROVE  Between(normalize(tab.slot[c].speed), normalize(tab'.slot[c].speed),
                              normalize(tab.slot[c].target))
    BY DEF Between
  <2>1. ~Commands
    BY SMTT(30), CommandsAreGiven DEF Given, Counted, Reminded
  <2>2. ~Tick
    BY DEF Tick, Counted, Reminded
  <2> QED
    BY SMTT(30), <2>1, <2>2, ReminderBetween DEF Next
<1> QED
  BY <1>1, TableInvIsInvariant, CountedIsInvariant, PTL DEF Spec, RampInside
=============================================================================
