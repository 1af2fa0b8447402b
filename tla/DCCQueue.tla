------------------------------- MODULE DCCQueue -------------------------------
(***************************************************************************)
(* DCCQueue.cpp: the two queues of packets waiting for the main track.     *)
(*                                                                         *)
(* A queue is the sequence of its PendingSlots, head first.  The slots of  *)
(* recycleList are interchangeable (getSlot overwrites every field), so    *)
(* only their number is kept.  The union of locoId, delayOff and startTime *)
(* is the one number u: locoId and delayOff are its low 16 bits, startTime *)
(* is all of it.                                                           *)
(*                                                                         *)
(* A packet is a record: what it is, the loco it addresses (0: broadcast   *)
(* or no loco) and its content.  The content of a speed packet is the DCC  *)
(* speed code without direction: 0 stop, 1 emergency stop, 2.. moving.     *)
(***************************************************************************)
EXTENDS Integers, Sequences

CONSTANTS
    Locos,          \* DCC loco addresses in use
    Speeds,         \* speed codes a throttle may send besides the estop
    Groups,         \* function groups: a subset of 1..5
    Accs,           \* accessories driven by a coil pulse
    EstopRepeats,   \* repeats given by setThrottleDCC (4)
    AccRepeats,     \* repeats given by setAccessory (3)
    PacketRepeats,  \* repeats given by the callers of scheduleDCCPacket
    Delay,          \* pulse length given by setAccessory (100 ms)
    LocoMod,        \* 2^16, the width of locoId and delayOff
    TimeMod,        \* 2^32, the width of startTime and millis()
    StartTicks,     \* ms since boot when the behaviour begins
    MaxCmds         \* bound: commands accepted in one behaviour

Estop == 1

ASSUME QueueAssumption ==
    /\ LocoMod \in Nat \ {0} /\ TimeMod \in Nat \ {0} /\ Delay \in Nat
    /\ StartTicks \in Nat
    /\ Locos \subseteq 1..(LocoMod - 1)
    /\ Speeds \subseteq Nat \ {Estop}
    /\ Groups \subseteq 1..5 /\ Accs \subseteq Nat
    /\ EstopRepeats \in Nat /\ AccRepeats \in Nat /\ PacketRepeats \subseteq Nat
    /\ MaxCmds \in Nat

VARIABLES
    high,       \* highPriorityQueue
    low,        \* lowPriorityQueue
    free,       \* length of recycleList
    created,    \* slots ever allocated
    lastSent,   \* lastSentPacketLocoId
    ticks,      \* time in ms since boot; millis() is its low 32 bits
    sent,       \* what this step gave to mainTrack.schedulePacket: <<>> or <<x>>
    cmds,       \* number of commands accepted, for the bound
    \* history
    cmd,        \* cmd[l]: the speed last commanded for loco l
    lastTx,     \* lastTx[l]: the speed last handed over for loco l
    coilOn      \* accessories whose last packet handed over was the coil-on

code == <<high, low, free, created, lastSent>>
history == <<cmd, lastTx, coilOn>>
vars == <<code, ticks, sent, cmds, history>>

jumpQueue(p, queue) == <<p>> \o queue
remove(queue, i) == SubSeq(queue, 1, i - 1) \o SubSeq(queue, i + 1, Len(queue))

FunctionType(group) ==
    <<"FUNCTION1", "FUNCTION2", "FUNCTION3", "FUNCTION4", "FUNCTION5">>[group]

PendingType ==
    {"NORMAL", "SPEED", "ACC_ON", "ACC_OFF"} \cup {FunctionType(g) : g \in 1..5}

Packet == [kind : {"speed", "function", "other", "accOn", "accOff", "idle"},
           loco : Nat, val : Nat]

SpeedPacket(l, v) == [kind |-> "speed", loco |-> l, val |-> v]
IdlePacket == [kind |-> "idle", loco |-> 0, val |-> 0]

\* due is history: the tick before which an ACC_OFF slot must not be sent.
Slot == [type : PendingType, u : Nat, repeat : Nat, pkt : Packet, due : Nat]

millis == ticks % TimeMod
LocoId(s) == s.u % LocoMod
delayOff(s) == s.u % LocoMod

Init ==
    /\ high = <<>> /\ low = <<>> /\ free = 0 /\ created = 0 /\ lastSent = 0
    /\ ticks = StartTicks /\ sent = <<>> /\ cmds = 0
    /\ cmd = [l \in Locos |-> 0] /\ lastTx = [l \in Locos |-> 0]
    /\ coilOn = {}

-----------------------------------------------------------------------------
\* The slot getSlot fills in; its place comes from recycleList or from new.
NewSlot(type, pkt, repeats, loco) ==
    [type |-> type, u |-> loco, repeat |-> repeats, pkt |-> pkt, due |-> 0]

\* Mutant: a slot taken from recycleList is left on it.
getSlot_NoPop(avail) ==
    /\ free' = avail
    /\ created' = IF avail > 0 THEN created ELSE created + 1

\* getSlot's effect on recycleList and created, with avail slots on the list.
getSlot(avail) ==
    /\ free' = IF avail > 0 THEN avail - 1 ELSE 0
    /\ created' = IF avail > 0 THEN created ELSE created + 1

Accept ==
    /\ cmds < MaxCmds
    /\ cmds' = cmds + 1
    /\ sent' = <<>>
    /\ UNCHANGED <<lastSent, ticks, lastTx, coilOn>>

scheduleDCCPacket(l, repeats) ==
    /\ Accept
    /\ low' = Append(low, NewSlot("NORMAL",
                    [kind |-> "other", loco |-> l, val |-> 0], repeats, l))
    /\ getSlot(free)
    /\ UNCHANGED <<high, cmd>>

\* The slot that the first match in queue q becomes.
Overwrite(q, i, pkt, repeats) ==
    [q EXCEPT ![i] = [@ EXCEPT !.pkt = pkt, !.repeat = repeats]]

\* The first slot of the high queue that reads as this loco is overwritten,
\* whatever its type; without one, a new slot joins the end.
scheduleDCCSpeedPacket(l, v) ==
    /\ Accept
    /\ \/ \E i \in DOMAIN high :
            /\ LocoId(high[i]) = l
            /\ \A j \in 1..(i - 1) : LocoId(high[j]) # l
            /\ high' = Overwrite(high, i, SpeedPacket(l, v), 0)
            /\ UNCHANGED <<free, created>>
       \/ /\ \A i \in DOMAIN high : LocoId(high[i]) # l
          /\ high' = Append(high, NewSlot("SPEED", SpeedPacket(l, v), 0, l))
          /\ getSlot(free)
    /\ cmd' = [cmd EXCEPT ![l] = v]
    /\ UNCHANGED low

FunctionSlot(s, l, g) == LocoId(s) = l /\ s.type = FunctionType(g)

scheduleDCCFunctionPacket(l, g, v) ==
    LET pkt == [kind |-> "function", loco |-> l, val |-> v]
    IN  /\ Accept
        /\ \/ \E i \in DOMAIN low :
                /\ FunctionSlot(low[i], l, g)
                /\ \A j \in 1..(i - 1) : ~FunctionSlot(low[j], l, g)
                /\ low' = Overwrite(low, i, pkt, 0)
                /\ UNCHANGED <<free, created>>
           \/ /\ \A i \in DOMAIN low : ~FunctionSlot(low[i], l, g)
              /\ low' = Append(low, NewSlot(FunctionType(g), pkt, 0, l))
              /\ getSlot(free)
        /\ UNCHANGED <<high, cmd>>

\* Mutants: nothing is discarded; the coil-off slots are discarded too.
Survives_All(s, l) == TRUE
Survives_NotAccOff(s, l) == l # 0 /\ LocoId(s) # l

\* l = 0 is the broadcast.  The estop itself is queued as a packet of loco 0.
Survives(s, l) == s.type = "ACC_OFF" \/ (l # 0 /\ LocoId(s) # l)

\* The elements of q at the positions K, in their order: what is left of a list
\* after a loop has unlinked the others.  It is SelectSeq with the positions for its
\* test, written with a recursive function so that proofs can say what it returns.
SubSeqAt(q, K) ==
    LET upTo[n \in 0..Len(q)] ==
            IF n = 0 THEN <<>>
            ELSE IF n \in K THEN Append(upTo[n - 1], q[n]) ELSE upTo[n - 1]
    IN  upTo[Len(q)]

scheduleEstopPacket(l) ==
    LET kept == SubSeqAt(high, {i \in DOMAIN high : Survives(high[i], l)})
    IN  /\ Accept
        /\ high' = jumpQueue(NewSlot("SPEED", SpeedPacket(l, Estop), EstopRepeats, 0), kept)
        /\ getSlot(free + Len(high) - Len(kept))
        /\ cmd' = [k \in Locos |-> IF l \in {0, k} THEN Estop ELSE cmd[k]]
        /\ UNCHANGED low

scheduleAccOnOffPacket(a) ==
    /\ Accept
    /\ low' = Append(low, [NewSlot("ACC_ON", [kind |-> "accOn", loco |-> 0, val |-> a],
                                   AccRepeats, 0) EXCEPT !.u = Delay])
    /\ getSlot(free)
    /\ UNCHANGED <<high, cmd>>

-----------------------------------------------------------------------------
\* What history records of a packet handed to the waveform.
Record(pkt) ==
    /\ lastTx' = [l \in Locos |->
                    IF pkt.kind = "speed" /\ pkt.loco \in {0, l}
                    THEN pkt.val ELSE lastTx[l]]
    /\ coilOn' = CASE pkt.kind = "accOn"  -> coilOn \cup {pkt.val}
                   [] pkt.kind = "accOff" -> coilOn \ {pkt.val}
                   [] OTHER -> coilOn

\* A slot scheduleNextInternal does not skip.
Eligible(s) ==
    /\ ~(s.type = "ACC_OFF" /\ millis < s.u)
    /\ ~(LocoId(s) # 0 /\ LocoId(s) = lastSent)

\* Position i of q holds the first slot that is not skipped.
Candidate(q, i) == Eligible(q[i]) /\ \A j \in 1..(i - 1) : ~Eligible(q[j])
NoCandidate(q) == \A i \in DOMAIN q : ~Eligible(q[i])

\* Loco packets stay in the queue for their repeats.
Stays(p) == LocoId(p) # 0 /\ p.repeat > 0

OneRepeatLess(p) == [p EXCEPT !.repeat = p.repeat - 1]

\* The coil-off slot a sent coil-on slot is turned into.
CoilOff(p) ==
    [p EXCEPT !.type = "ACC_OFF",
              !.pkt.kind = "accOff",
              !.u = (millis + delayOff(p)) % TimeMod,
              !.due = ticks + delayOff(p)]

\* q is the queue scheduleNextInternal is called on, isHigh tells which one,
\* i is where its loop stops.
SendFrom(q, i, isHigh) ==
    LET p == q[i]
        rest == IF Stays(p) THEN [q EXCEPT ![i] = OneRepeatLess(p)]
                            ELSE remove(q, i)
        convert == ~Stays(p) /\ p.type = "ACC_ON"
        others == IF isHigh THEN rest ELSE high
    IN  /\ sent' = <<[pkt |-> p.pkt, due |-> p.due,
                      repeats |-> IF LocoId(p) # 0 THEN 0 ELSE p.repeat]>>
        /\ lastSent' = LocoId(p)
        /\ high' = IF convert THEN jumpQueue(CoilOff(p), others) ELSE others
        /\ low' = IF isHigh THEN low ELSE rest
        /\ free' = IF Stays(p) \/ convert THEN free ELSE free + 1
        /\ Record(p.pkt)
        /\ UNCHANGED <<created, ticks, cmds, cmd>>

scheduleNextInternal(q, isHigh) ==
    \E i \in DOMAIN q : Candidate(q, i) /\ SendFrom(q, i, isHigh)

\* Mutant: the idle packet does not count as a packet in between.
scheduleIdle_KeepLast ==
    /\ sent' = <<[pkt |-> IdlePacket, due |-> 0, repeats |-> 0]>>
    /\ Record(IdlePacket)
    /\ UNCHANGED <<high, low, free, created, lastSent, ticks, cmds, cmd>>

scheduleIdle ==
    /\ sent' = <<[pkt |-> IdlePacket, due |-> 0, repeats |-> 0]>>
    /\ lastSent' = 0
    /\ Record(IdlePacket)
    /\ UNCHANGED <<high, low, free, created, ticks, cmds, cmd>>

\* force: send an idle packet when neither queue has a candidate.
scheduleNext(force) ==
    \/ scheduleNextInternal(high, TRUE)
    \/ NoCandidate(high) /\ scheduleNextInternal(low, FALSE)
    \/ NoCandidate(high) /\ NoCandidate(low) /\ force /\ scheduleIdle

\* Time passes; in the model only while a coil-off slot waits for it.
Tick ==
    /\ \E i \in DOMAIN high : high[i].type = "ACC_OFF" /\ ticks < high[i].due
    /\ ticks' = ticks + 1
    /\ sent' = <<>>
    /\ UNCHANGED <<code, cmds, history>>

Command ==
    \/ \E l \in Locos \cup {0}, r \in PacketRepeats : scheduleDCCPacket(l, r)
    \/ \E l \in Locos, v \in Speeds : scheduleDCCSpeedPacket(l, v)
    \/ \E l \in Locos, g \in Groups, v \in {0, 1} : scheduleDCCFunctionPacket(l, g, v)
    \/ \E l \in Locos \cup {0} : scheduleEstopPacket(l)
    \/ \E a \in Accs : scheduleAccOnOffPacket(a)

Next == Command \/ (\E force \in BOOLEAN : scheduleNext(force)) \/ Tick

Spec == Init /\ [][Next]_vars

\* DCC::loop calls scheduleNext(false) and, when that sends nothing,
\* scheduleNext(true), each time the waveform opens its window.
FairSpec == Spec /\ WF_vars(scheduleNext(TRUE)) /\ WF_vars(Tick)

-----------------------------------------------------------------------------
\* Every variable has its type: both queues hold slots of the types DCCQueue.h
\* names, with repeats that never go below 0, and one call sends at most one packet.
TypeOK ==
    /\ high \in Seq(Slot) /\ low \in Seq(Slot)
    /\ free \in Nat /\ created \in Nat /\ cmds \in 0..MaxCmds
    /\ lastSent \in 0..(LocoMod - 1) /\ ticks \in Nat
    /\ sent \in Seq([pkt : Packet, due : Nat, repeats : Nat]) /\ Len(sent) <= 1
    /\ cmd \in [Locos -> Nat] /\ lastTx \in [Locos -> Nat]
    /\ coilOn \subseteq Nat

\* Every slot ever allocated is on exactly one of the three lists: what the
\* leak test in getSlot (q1+q2 against created, with recycleList empty) looks
\* for never happens, through replacements, repeats, estops and conversions.
SlotConservation == Len(high) + Len(low) + free = created

\* A speed packet that leaves the queue carries the speed last commanded for
\* its loco.  In particular no speed commanded before an estop (of that loco or
\* of all) is sent after it: "eliminate any outstanding speed commands that
\* would later undo the stop" (DCCQueue.cpp, note 3).
SentSpeedIsLatest ==
    \A i \in DOMAIN sent :
        LET pkt == sent[i].pkt
        IN  pkt.kind = "speed" /\ pkt.val # Estop => pkt.val = cmd[pkt.loco]

\* No coil-off slot has a start time whose low 16 bits read as one of the locos:
\* locoId shares its storage with startTime.
NoAlias ==
    \A i \in DOMAIN high : high[i].type = "ACC_OFF" => LocoId(high[i]) \notin Locos

\* A coil that was switched on has a slot queued that will switch it off, and
\* that slot is not sent before the requested pulse length has passed: other
\* commands, estops and full repeats do not lose or hurry it.
CoilPulsed ==
    /\ \A a \in coilOn :
          \/ \E i \in DOMAIN high : high[i].pkt = [kind |-> "accOff", loco |-> 0, val |-> a]
          \/ \E i \in DOMAIN low : low[i].pkt = [kind |-> "accOn", loco |-> 0, val |-> a]
    /\ \A i \in DOMAIN sent : sent[i].pkt.kind = "accOff" => ticks >= sent[i].due

\* Once commands stop coming both queues empty, coil-offs included: a lone
\* loco is not blocked by its own last packet and no slot is skipped for ever.
QueuesDrain == []<>(high = <<>> /\ low = <<>>)
=============================================================================
