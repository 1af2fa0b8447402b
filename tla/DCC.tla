---------------------------------- MODULE DCC ----------------------------------
(***************************************************************************)
(* DCC.cpp: throttle commands, momentum, functions, the reminder loop and  *)
(* the estop functions, on the table of LocoSlot, with one track that can  *)
(* be switched to DC (TrackManager), and the commands <t>, <f> and <m> of  *)
(* DCCEXParser that reach them.                                            *)
(*                                                                         *)
(* What is handed to DCCQueue is kept per loco: sched[l] is the last speed *)
(* code scheduled for loco l.  millis() is only used to form the int16     *)
(* delay since momentum_base, so time is kept modulo the width of that.    *)
(***************************************************************************)
EXTENDS LocoSlot, FiniteSetsExt

CONSTANTS
    Locos,          \* loco addresses in use
    Fns,            \* function numbers in use
    FnBytes,        \* the parameters of <f> after the cab
    Momenta,        \* momentum values a command may set, UseDefault included
    MOMENTUM_FACTOR,
    PowerDiv,       \* the 8 of getMomentum
    DelayMod,       \* 2^16, the width of delay
    MaxConsist,     \* bound: parameters of a consist command
    Sessions        \* bound: the kinds of behaviour, see below

\* A behaviour is one session: its users keep to some operations, locos, signs
\* in a consist, speeds and directions and give at most cmds commands; gap is the longest
\* time between two reminders.  Speeds are those of <t>: -1 is the emergency stop.
Session == [ops : SUBSET STRING, locos : SUBSET Locos, revs : SUBSET BOOLEAN,
            speeds : SUBSET (-1..MaxSpeed - 1), dirs : SUBSET BOOLEAN, cmds : Nat, gap : Nat]

ASSUME DCCAssumption ==
    /\ Locos \subseteq Nat \ {0} /\ Fns \subseteq Nat /\ Momenta \subseteq Nat
    /\ MOMENTUM_FACTOR \in Nat /\ PowerDiv \in Nat \ {0} /\ DelayMod \in Nat \ {0}
    /\ MaxConsist \in Nat
    /\ \A s \in DOMAIN Sessions :
          /\ Sessions[s] \in Session
          \* a loco's speed is reminded well within the range of delay
          /\ 2 * Sessions[s].gap * (2 * MAX_LOCOS + 2) <= DelayMod

VARIABLES
    tab,            \* the LocoSlot table
    reminder,       \* nextLocoReminder
    loopStatus,
    estopIsLocked,
    default,        \* defaultMomentumA and defaultMomentumD
    linearAcceleration,
    now,            \* millis()
    gap,            \* time since the last reminder
    dcLoco,         \* trackDCAddr of the track in DC mode, 0 when there is none
    dcSignal,       \* the speed code the DC track was last given
    crashed,        \* a null pointer was dereferenced
    session,        \* the session this behaviour is
    cmds,           \* commands so far, for the bound
    sched,          \* history: the last speed code scheduled for each loco
    fnSched         \* history: the bytes last scheduled for each loco and function group

vars == <<tab, reminder, loopStatus, estopIsLocked, default, linearAcceleration, now,
          gap, dcLoco, dcSignal, crashed, session, cmds, sched, fnSched>>

Init ==
    /\ tab = EmptyTable /\ reminder = Null /\ loopStatus = 0
    /\ estopIsLocked = FALSE /\ now = 0 /\ gap = 0
    /\ default = [A |-> 0, D |-> 0] /\ linearAcceleration = FALSE
    /\ dcLoco = 0 /\ dcSignal = Code(0, TRUE)
    /\ crashed = FALSE /\ session \in Range(Sessions) /\ cmds = 0
    /\ sched = [l \in Locos |-> Code(0, TRUE)]
    /\ fnSched = [l \in Locos |-> [g \in 1..5 |-> <<>>]]

-----------------------------------------------------------------------------
\* Mutant: the lock is not looked at.
SentCode_NoLock(slot, code) == Flip(code, slot.rev)

\* The speed code setThrottleDCC puts in the packet for a slot.
SentCode(slot, code) ==
    LET c == Flip(code, slot.rev) IN IF estopIsLocked THEN Code(Estop, c.fwd) ELSE c

\* sched after setThrottleDCC for the slots of the cells in S.
Scheduled(t, S, code) ==
    [l \in Locos |-> IF Find(t, l) \in S THEN SentCode(t.slot[Find(t, l)], code)
                                         ELSE sched[l]]

\* sched after setThrottleDCC(nullptr, 1), the broadcast.
AllEstop == [l \in Locos |-> Code(Estop, sched[l].fwd)]

\* Mutant: only the lead is driven.
setThrottle2_LeadOnly(t, c, code) ==
    /\ tab' = [t EXCEPT !.slot[c].speed = code]
    /\ sched' = Scheduled(t, {c}, code)

\* The slot and its followers get the speed code and a packet each.
setThrottle2(t, c, code) ==
    \E members \in {Range(Chain(t, c))} :
        /\ tab' = [t EXCEPT !.slot = [d \in Cells |->
                     IF d \in members THEN [t.slot[d] EXCEPT !.speed = code]
                                      ELSE t.slot[d]]]
        /\ sched' = Scheduled(t, members, code)

\* TrackManager::setDCSignal; cab 0 is every track.
setDCSignal(cab, code) ==
    dcSignal' = IF dcLoco # 0 /\ cab \in {0, dcLoco} THEN code ELSE dcSignal

\* The call is guarded by !estopIsLocked.
setDCSignalUnlessLocked(cab, code) ==
    IF estopIsLocked THEN UNCHANGED dcSignal ELSE setDCSignal(cab, code)

Own(m, d) == IF m = UseDefault THEN d ELSE m

getMomentum(s) ==
    LET m == Own(s.momA, default.A)
        powerDifference == (s.target.v - s.speed.v) \div PowerDiv
    IN  CASE s.target.v <= s.speed.v -> Own(s.momD, default.D)
          [] s.target.v > s.speed.v /\ (m = 0 \/ linearAcceleration) -> m
          [] OTHER -> IF m < powerDifference THEN 0 ELSE m - powerDifference

Given(op) ==
    /\ op \in session.ops /\ ~crashed /\ cmds < session.cmds
    /\ cmds' = cmds + 1
    /\ UNCHANGED <<loopStatus, now, gap, session>>

Command(op) == Given(op) /\ UNCHANGED <<default, linearAcceleration>>

\* The loco has a slot, or has been given one.
Has(t, id) == Find(t, id) # Null

\* The slot and its followers get the new target, each in its direction.
SetTargets(t, c, code) ==
    LET followers == Range(Tail(Chain(t, c)))
    IN  [t EXCEPT !.slot = [d \in Cells |->
            IF d = c THEN [t.slot[d] EXCEPT !.target = code]
            ELSE IF d \in followers
            THEN [t.slot[d] EXCEPT !.target = Flip(code, t.slot[d].rev)]
            ELSE t.slot[d]]]

\* setThrottle once the slot is known to be c of table t.
Throttle(t, c, code) ==
    LET t1 == SetTargets(t, c, code)
        ramp == getMomentum(t1.slot[c]) # 0 /\ code.v # Estop
    IN  \/ /\ isConsistFollower(t.slot[c]) \/ t.slot[c].target = code
           /\ tab' = t
           /\ UNCHANGED <<sched, dcSignal>>
        \/ /\ ~isConsistFollower(t.slot[c]) /\ t.slot[c].target # code
           /\ IF ramp
              THEN /\ tab' = [t1 EXCEPT !.slot[c].base = now]
                   /\ UNCHANGED <<sched, dcSignal>>
              ELSE /\ setThrottle2(t1, c, code)
                   /\ setDCSignalUnlessLocked(t.slot[c].loco, code)

stopAll ==
    /\ sched' = AllEstop
    /\ setDCSignal(0, Code(Estop, FALSE))
    /\ tab' = [tab EXCEPT !.slot = [c \in Cells |->
                 IF c \notin Listed(tab) THEN tab.slot[c]
                 ELSE LET stop == Code(Estop, tab.slot[c].target.fwd)
                      IN [tab.slot[c] EXCEPT !.speed = stop, !.target = stop]]]

setThrottle(cab, v, fwd) ==
    LET t == getSlot(tab, cab)
    IN  \/ cab = 0 /\ v = Estop /\ stopAll
        \/ Has(t, cab) /\ Throttle(t, Find(t, cab), Code(v, fwd))
        \/ /\ ~Has(t, cab) /\ ~(cab = 0 /\ v = Estop)
           /\ UNCHANGED <<tab, sched, dcSignal>>

\* Speeds of the protocol, -1 to 126, as DCC speeds, 0 to 127.
DCCSpeed(tspeed) == IF tspeed < 0 THEN Estop ELSE IF tspeed > 0 THEN tspeed + 1 ELSE 0

\* <t cab speed direction>; cab 0 is every loco, and can only be stopped.
throttle(cab, tspeed, fwd) ==
    /\ Command("throttle") /\ (cab = 0 => DCCSpeed(tspeed) <= 1)
    /\ setThrottle(cab, DCCSpeed(tspeed), fwd)
    /\ UNCHANGED <<reminder, estopIsLocked, dcLoco, crashed, fnSched>>

saveSpeed(cab) ==
    /\ Command("save") /\ Has(tab, cab)
    /\ LET c == Find(tab, cab)
       IN  tab' = [tab EXCEPT !.slot[c].saved = tab.slot[c].target]
    /\ UNCHANGED <<reminder, estopIsLocked, dcLoco, dcSignal, crashed, sched, fnSched>>

restoreSpeed(cab) ==
    /\ Command("save") /\ Has(tab, cab)
    /\ LET c == Find(tab, cab) IN Throttle(tab, c, tab.slot[c].saved)
    /\ UNCHANGED <<reminder, estopIsLocked, dcLoco, crashed, fnSched>>

\* <m cab a d>
setMomentum(cab, a, d) ==
    LET t == getSlot(tab, cab)
        c == Find(t, cab)
    IN  /\ Command("momentum")
        /\ tab' = IF c = Null THEN t
                  ELSE [t EXCEPT !.slot[c].momA = a, !.slot[c].momD = d]
        /\ UNCHANGED <<reminder, estopIsLocked, dcLoco, dcSignal, crashed, sched, fnSched>>

\* <m 0 a d>, and the UseDefault of a loco is not a default.
setDefaultMomentum(a, d) ==
    /\ Given("default") /\ UseDefault \notin {a, d}
    /\ default' = [A |-> a, D |-> d]
    /\ UNCHANGED <<tab, reminder, estopIsLocked, linearAcceleration, dcLoco, dcSignal,
                   crashed, sched, fnSched>>

\* <m LINEAR> and <m POWER>
setLinear(on) ==
    /\ Given("default") /\ linearAcceleration # on
    /\ linearAcceleration' = on
    /\ UNCHANGED <<tab, reminder, estopIsLocked, default, dcLoco, dcSignal, crashed, sched,
                   fnSched>>

-----------------------------------------------------------------------------
\* updateGroupflags: the group of a function that is reminded.
Group(f) == CASE f <= 4 -> 1 [] f \in 5..8 -> 2 [] f \in 9..12 -> 3
              [] f \in 13..20 -> 4 [] OTHER -> 5

\* Functions 29..31 are kept without a group; higher ones have no slot.
setFn(u, cab, f, on) ==
    LET t == getSlot(u, cab)
        c == Find(t, cab)
        new == IF on THEN t.slot[c].functions \cup {f} ELSE t.slot[c].functions \ {f}
    IN  IF f > 31 THEN u
        ELSE IF c = Null \/ new = t.slot[c].functions THEN t
        ELSE [t EXCEPT !.slot[c].functions = new,
                       !.slot[c].groups = IF f <= 28 THEN @ \cup {Group(f)} ELSE @]

FunctionCommand(op, t) ==
    /\ Command(op)
    /\ tab' = t
    /\ UNCHANGED <<reminder, estopIsLocked, dcLoco, dcSignal, crashed, sched, fnSched>>

\* <F cab f on>
function(cab, f, on) == FunctionCommand("function", setFn(tab, cab, f, on))

changeFn(cab, f) ==
    LET c == Find(tab, cab)
    IN  /\ c # Null /\ f <= 31
        /\ FunctionCommand("function", setFn(tab, cab, f, f \notin tab.slot[c].functions))

Bit(value, i) == (value \div 2^i) % 2 = 1

\* What the bytes of a function group say: functions first to last by the bits of
\* value.  F0 is the highest bit of its group.
Field(first, last, value) == [first |-> first, last |-> last, value |-> value]
FieldOf(p) ==
    CASE Len(p) = 1 /\ p[1] \div 32 = 4 ->
            Field(0, 4, 2 * (p[1] % 16) + ((p[1] \div 16) % 2))
      [] Len(p) = 1 /\ p[1] \div 32 = 5 ->
            IF Bit(p[1], 4) THEN Field(5, 8, p[1]) ELSE Field(9, 12, p[1])
      [] Len(p) = 2 /\ p[1] = 222 -> Field(13, 20, p[2])
      [] Len(p) = 2 /\ p[1] = 223 -> Field(21, 28, p[2])

\* The parser accepts the bytes of a function group only.
ASSUME GroupAssumption ==
    \A p \in FnBytes : /\ FieldOf(p) \in [first : Nat, last : Nat, value : Nat]
                       /\ FieldOf(p).first <= FieldOf(p).last

funcmap(t, cab, field) ==
    LET n == field.last - field.first + 1
        upTo[i \in 0..n] ==
            IF i = 0 THEN t
            ELSE setFn(upTo[i - 1], cab, field.first + i - 1, Bit(field.value, i - 1))
    IN  upTo[n]

\* <f cab byte1 [byte2]>
parsef(cab, p) == FunctionCommand("group", funcmap(tab, cab, FieldOf(p)))

setDCFreq(cab, freq) ==
    LET t == getSlot(tab, cab)
        c == Find(t, cab)
    IN  /\ Command("freq")
        /\ tab' = IF c = Null THEN t
                  ELSE [t EXCEPT !.slot[c].functions =
                          (@ \ (29..31)) \cup (IF freq = 0 THEN {} ELSE {28 + freq})]
        /\ UNCHANGED <<reminder, estopIsLocked, dcLoco, dcSignal, crashed, sched, fnSched>>

-----------------------------------------------------------------------------
ConsistDone(res) ==
    /\ tab' = res.tab /\ crashed' = res.ub
    /\ UNCHANGED <<reminder, estopIsLocked, dcLoco, dcSignal, sched, fnSched>>

consistParse(p) == Command("consist") /\ ConsistDone(parse(tab, p))
consistDelete(id) == Command("consist") /\ ConsistDone(Done(deleteAnyConsist(tab, id)))
consistAdd(c, id, rev) ==
    Command("add") /\ ConsistDone(addLocoToConsist(tab, c, id, rev))

\* The cell after c on the chain of slots.
NextOf(t, c) ==
    IF Index(t, c) = Len(t.list) THEN Null ELSE t.list[Index(t, c) + 1]

\* Mutant: the reminder loop is not told.
forgetLoco_KeepReminder(cab) ==
    LET c == Find(tab, cab)
    IN  /\ Command("forget") /\ c # Null
        /\ sched' = Scheduled(tab, {c}, Code(Estop, FALSE))
        /\ tab' = [forget(deleteAnyConsist(tab, cab), c) EXCEPT !.modified = tab.modified]
        /\ UNCHANGED <<reminder, estopIsLocked, dcLoco, dcSignal, crashed, fnSched>>

forgetLoco(cab) ==
    LET c == Find(tab, cab)
    IN  /\ Command("forget") /\ c # Null
        /\ sched' = Scheduled(tab, {c}, Code(Estop, FALSE))
        /\ reminder' = IF reminder = c THEN NextOf(tab, c) ELSE reminder
        /\ tab' = forget(IF inConsist(tab, cab) THEN deleteAnyConsist(tab, cab) ELSE tab, c)
        /\ UNCHANGED <<estopIsLocked, dcLoco, dcSignal, crashed, fnSched>>

forgetAllLocos ==
    /\ Command("forget")
    /\ sched' = AllEstop
    /\ tab' = forgetAll(tab)
    /\ reminder' = Null
    /\ UNCHANGED <<estopIsLocked, dcLoco, dcSignal, crashed, fnSched>>

-----------------------------------------------------------------------------
estopAll ==
    /\ Command("estop")
    /\ stopAll
    /\ UNCHANGED <<reminder, estopIsLocked, dcLoco, crashed, fnSched>>

estopLock(lock) ==
    /\ Command("lock") /\ estopIsLocked # lock
    /\ estopIsLocked' = lock
    /\ IF lock THEN sched' = AllEstop /\ setDCSignal(0, Code(Estop, FALSE))
               ELSE UNCHANGED <<sched, dcSignal>>
    /\ UNCHANGED <<tab, reminder, dcLoco, crashed, fnSched>>

getLocoSpeedByte(cab) == IF Has(tab, cab) THEN tab.slot[Find(tab, cab)].speed ELSE Code(0, TRUE)

\* setTrackMode to DC for a loco (applyDCSpeed), and back to DCC.
setTrackModeDC(cab) ==
    /\ Command("dc")
    /\ dcLoco' = cab
    /\ dcSignal' = getLocoSpeedByte(cab)
    /\ UNCHANGED <<tab, reminder, estopIsLocked, crashed, sched, fnSched>>

setTrackModeMain ==
    /\ Command("dc") /\ dcLoco # 0
    /\ dcLoco' = 0 /\ dcSignal' = Code(0, TRUE)
    /\ UNCHANGED <<tab, reminder, estopIsLocked, crashed, sched, fnSched>>

-----------------------------------------------------------------------------
\* Speed codes on one scale, with two zeros: reverse 0 is -1, reverse 1 is -2.
normalize(code) == IF code.fwd THEN code.v ELSE -1 - code.v
dccalize(n) ==
    CASE n > MaxSpeed -> Code(MaxSpeed, TRUE)
      [] n < -MaxSpeed -> Code(MaxSpeed, FALSE)
      [] n \in 0..MaxSpeed -> Code(n, TRUE)
      [] OTHER -> Code(-1 - n, FALSE)

\* int16_t delay: the difference of two times, in two's complement.
Delay(s) ==
    LET d == (now - s.base) % DelayMod
    IN  IF 2 * d >= DelayMod THEN d - DelayMod ELSE d

\* The number of notches the loco may move by; 500 without momentum.  C++
\* division truncates, so that a negative delay gives zero or less.
Notches(s) ==
    LET perNotch == MOMENTUM_FACTOR * getMomentum(s)
    IN  IF perNotch = 0 THEN 500
        ELSE IF Delay(s) < 0 THEN 0 ELSE Delay(s) \div perNotch

\* Mutant: the ramp is not clamped to the target.
Ramped_NoClamp(s) ==
    LET current == normalize(s.speed)
        target == normalize(s.target)
    IN  dccalize(IF current < target THEN current + Notches(s) ELSE current - Notches(s))

\* The speed code a speed reminder arrives at.
Ramped(s) ==
    LET current == normalize(s.speed)
        target == normalize(s.target)
        up == current + Notches(s)
        down == current - Notches(s)
    IN  dccalize(IF current < target THEN (IF up > target THEN target ELSE up)
                                     ELSE (IF down < target THEN target ELSE down))

\* Loop states 0, 2, .. 8 remind speeds; 1, 3, .. 9 one function group each.
GroupOfStatus(st) == (st + 1) \div 2
Reminds(s, st) ==
    IF st % 2 = 0 THEN ~isConsistFollower(s) ELSE GroupOfStatus(st) \in s.groups

remindSpeed(t, c) ==
    LET s == t.slot[c]
    IN  /\ \/ /\ s.target # s.speed /\ Notches(s) > 0
              /\ \E code \in {Ramped(s)} :
                    /\ setThrottle2([t EXCEPT !.slot[c].base = now], c, code)
                    /\ setDCSignalUnlessLocked(s.loco, code)
           \/ /\ ~(s.target # s.speed /\ Notches(s) > 0)
              /\ setThrottle2(t, c, s.speed)
              /\ UNCHANGED dcSignal
        /\ UNCHANGED fnSched

\* The functions first to last as the bits of a byte.
BitsOf(functions, first, last) ==
    MapThenSumSet(LAMBDA f : 2^(f - first), functions \cap (first..last))

\* The bytes of the packet for a group.
GroupBytes(g, functions) ==
    CASE g = 1 -> <<128 + BitsOf(functions, 1, 4) + 16 * BitsOf(functions, 0, 0)>>
      [] g = 2 -> <<176 + BitsOf(functions, 5, 8)>>
      [] g = 3 -> <<160 + BitsOf(functions, 9, 12)>>
      [] g = 4 -> <<222, BitsOf(functions, 13, 20)>>
      [] g = 5 -> <<223, BitsOf(functions, 21, 28)>>

\* setFunctionInternal: the functions of the group are scheduled as one packet.
remindFunctions(t, c, g) ==
    /\ tab' = t
    /\ fnSched' = [fnSched EXCEPT ![t.slot[c].loco][g] = GroupBytes(g, t.slot[c].functions)]
    /\ UNCHANGED <<sched, dcSignal>>

\* The loop over the slots from position i, in loop state st.
RemindFrom(t, i, st) ==
    LET due == {k \in i..Len(t.list) : Reminds(t.slot[t.list[k]], st)}
    IN  \/ \E k \in due :
              /\ \A j \in due : k <= j
              /\ IF st % 2 = 0 THEN remindSpeed(t, t.list[k])
                               ELSE remindFunctions(t, t.list[k], GroupOfStatus(st))
              /\ reminder' = NextOf(t, t.list[k])
        \/ /\ due = {}
           /\ tab' = t /\ reminder' = Null
           /\ UNCHANGED <<sched, dcSignal, fnSched>>

\* issueReminders begins again at the first slot.
Restart(t) == t.modified \/ reminder = Null

NextStatus(st) == IF st = 9 THEN 0 ELSE st + 1

\* DCC::loop in a reminder window with nothing queued.
issueReminders ==
    /\ ~crashed
    /\ \/ /\ Restart(tab)
          /\ loopStatus' = IF tab.list = <<>> THEN loopStatus ELSE NextStatus(loopStatus)
          /\ RemindFrom([tab EXCEPT !.modified = FALSE], 1, loopStatus')
       \/ /\ ~Restart(tab)
          /\ loopStatus' = loopStatus
          /\ \E i \in DOMAIN tab.list : tab.list[i] = reminder /\ RemindFrom(tab, i, loopStatus)
    /\ gap' = 0
    /\ UNCHANGED <<estopIsLocked, default, linearAcceleration, now, dcLoco, crashed, session, cmds>>

\* Time passes, up to the session's gap between two reminders.
Tick ==
    /\ ~crashed /\ gap < session.gap
    /\ gap' = gap + 1 /\ now' = (now + 1) % DelayMod
    /\ UNCHANGED <<tab, reminder, loopStatus, estopIsLocked, default, linearAcceleration,
                   dcLoco, dcSignal, crashed, session, cmds, sched, fnSched>>

Used == session.locos

\* The parameters of a consist command: locos and signs, none repeated.
Params ==
    [s \in Range(Sessions) |->
        {p \in UNION {[1..n -> [loco : s.locos, rev : s.revs]] :
                          n \in 1..MaxConsist} :
            \A i, j \in DOMAIN p : p[i].loco = p[j].loco => i = j}]

Commands ==
    \/ \E l \in Used \cup {0}, v \in session.speeds, fwd \in session.dirs :
          throttle(l, v, fwd)
    \/ \E l \in Used : saveSpeed(l) \/ restoreSpeed(l)
    \/ \E a, d \in Momenta : setDefaultMomentum(a, d) \/ \E l \in Used : setMomentum(l, a, d)
    \/ \E on \in BOOLEAN : setLinear(on)
    \/ \E l \in Used, f \in Fns : changeFn(l, f) \/ \E on \in BOOLEAN : function(l, f, on)
    \/ \E l \in Used, p \in FnBytes : parsef(l, p)
    \/ \E l \in Used, freq \in {0, 2} : setDCFreq(l, freq)
    \/ \E p \in Params[session] : consistParse(p)
    \/ \E l \in Used : consistDelete(l)
    \/ \E c, l \in Used, rev \in session.revs : consistAdd(c, l, rev)
    \/ \E l \in Used : forgetLoco(l)
    \/ forgetAllLocos
    \/ estopAll
    \/ \E lock \in BOOLEAN : estopLock(lock)
    \/ \E l \in Used : setTrackModeDC(l)
    \/ setTrackModeMain

Next == Commands \/ issueReminders \/ Tick

Spec == Init /\ [][Next]_vars

\* A step is one of issueReminders: commands count, and ticks lengthen the gap.
Reminded == gap' = 0 /\ cmds' = cmds

\* The main loop keeps running and the clock keeps ticking.  With a slot in the
\* table issueReminders is always enabled and always a change.
FairSpec ==
    /\ Spec /\ WF_vars(Tick)
    /\ []<>(crashed \/ tab.list = <<>>) \/ []<><<Reminded>>_vars

-----------------------------------------------------------------------------
\* Through creation, recycling and forgetting no slot is leaked, on two lists or
\* of a loco that has one; consists stay chains of slots in use through every
\* order of create, add, delete, forget and running out of slots, until a null
\* pointer is written to; and issueReminders never follows a stale pointer:
\* unless it is about to start over, nextLocoReminder is a slot of the table ("so
\* we dont accidentally follow a stale pointer").
TableOK ==
    /\ TableWellFormed(tab)
    /\ crashed \/ ConsistsWellFormed(tab)
    /\ tab.modified \/ reminder = Null \/ reminder \in Listed(tab)

\* While the estop is locked the last speed scheduled for every loco is the
\* emergency stop, whatever throttles, consists, momentum and reminders do.
LockHolds == estopIsLocked => \A l \in Locos : sched[l].v = Estop

\* A reminder moves a loco's speed towards its target and never past it.
RampInside ==
    [][Reminded =>
        \A c \in Listed(tab) :
            ~isConsistFollower(tab.slot[c]) =>
                LET old == normalize(tab.slot[c].speed)
                    new == normalize(tab'.slot[c].speed)
                    goal == normalize(tab.slot[c].target)
                IN  (old <= new /\ new <= goal) \/ (goal <= new /\ new <= old)]_vars

\* What a loco ends up being sent: the speed of its lead, or its own, in its
\* direction, or the stop while the lock is on.
Settled ==
    \A c \in Listed(tab) :
        ~isConsistFollower(tab.slot[c]) =>
            /\ tab.slot[c].speed = tab.slot[c].target
            /\ \A d \in Range(Chain(tab, c)) :
                  sched[tab.slot[d].loco] = SentCode(tab.slot[d], tab.slot[c].target)

\* Every group that was touched has been scheduled, with bytes that, read the way
\* <f> reads them, say which of its functions are on.
FunctionsSent ==
    \A c \in Listed(tab) : \A g \in tab.slot[c].groups :
        LET p == fnSched[tab.slot[c].loco][g]
        IN  p # <<>> /\ \A f \in FieldOf(p).first..FieldOf(p).last :
                /\ Group(f) = g
                /\ Bit(FieldOf(p).value, f - FieldOf(p).first) = (f \in tab.slot[c].functions)

\* Once commands stop, every loco and every member of a consist is sent the
\* speed last asked for, in its direction, and keeps being sent it: every ramp
\* ends.  Its functions are sent too, and as the bytes that mean them.
Settles == <>[]((crashed \/ Settled) /\ FunctionsSent)
=============================================================================
