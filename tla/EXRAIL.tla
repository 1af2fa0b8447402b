------------------------------- MODULE EXRAIL -------------------------------
(***************************************************************************)
(* EXRAIL, the scripting language of the command station (EXRAIL2.cpp,     *)
(* EXRAIL2Parser.cpp, EXRAILSensor.cpp, Stash.cpp and the code the macros  *)
(* of EXRAILMacros.h lay out).  A script is a sequence of instructions     *)
(* [op, v] of one opcode and one operand; tasks stand in a ring and every  *)
(* call of loop() runs one instruction of the next one.                    *)
(*                                                                         *)
(* Everything the interpreter changes is one record, rail, because one     *)
(* instruction does many things in order (kill, start tasks, write pins):  *)
(* an operator of the code is an operator from rail to rail.  ring[1] is   *)
(* loopTask.  Where the code reads a clock for a random number, or memory  *)
(* that was never written, the value comes from the choice g of the step:  *)
(* g.rnd, g.busy, and g.heap, what a new task's memory held before.        *)
(* Time is counted in ticks: a delay is the ticks left, and u, the union   *)
(* of waitAfter, timeoutStart and blinkPin, the ticks since, or the pin.   *)
(***************************************************************************)
EXTENDS Integers, Sequences, FiniteSets, SequencesExt, FiniteSetsExt

CONSTANTS Sessions,         \* named scripts with their inputs and bounds
          MAX_FLAGS,        \* size of the flag table, hence of the task ids
          MAX_STACK_DEPTH,  \* nested CALLs of a task
          minReadCount,     \* scans an input must differ before it is believed
          MaxTasks          \* tasks the fairness of the ring is asked for

ASSUME ExrailAssumption == /\ MAX_FLAGS \in Nat \ {0}
                           /\ MAX_STACK_DEPTH \in Nat
                           /\ minReadCount \in Nat
                           /\ MaxTasks \in Nat

VARIABLES session, rail, sensors, reading, scanDue, held, ran, beat, left

vars == <<session, rail, sensors, reading, scanDue, held, ran, beat, left>>

S == Sessions[session]

-----------------------------------------------------------------------------
(* The script.  A macro of several operands is its opcode followed by PADs. *)

Instr(op, args) ==
    [i \in 1..Len(args) |-> [op |-> IF i = 1 THEN op ELSE "PAD", v |-> args[i]]]

AFTER(pin, ticks) ==
    Instr("AT", <<pin>>) \o Instr("AFTER", <<pin, ticks>>)

ATTIMEOUT(pin, ticks) ==
    Instr("ATTIMEOUT1", <<0>>) \o Instr("ATTIMEOUT2", <<pin, ticks>>)

READ_LOCO == Instr("READ_LOCO1", <<0>>) \o Instr("READ_LOCO2", <<0>>)

getOperand(pc, n) == S.code[pc + n].v

\* LookListLoader: the places of an opcode in the script, in order.
Places(ops) == SelectSeq([p \in DOMAIN S.code |-> p], LAMBDA p : S.code[p].op \in ops)
Lookup(op) == Places({op})

\* routeLookup->find(): routes and automations, then the chained sequences; 0 is "not found".
routeFind(id) ==
    LET here == SelectSeq(Places({"ROUTE", "AUTOMATION"}) \o Lookup("SEQUENCE"),
                          LAMBDA p : S.code[p].v = id)
    IN  IF here = <<>> THEN 0 ELSE here[1]

IfOpcodes == {"IF", "IFNOT", "IFGTE", "IFLT", "IFRE", "IFRANDOM", "IFRESERVE", "IFRED", "IFAMBER", "IFGREEN",
              "IFTHROWN", "IFCLOSED", "IFTIMEOUT", "IFSTASH", "IFSTASHED_HERE", "IFLOCO",
              "IF_ROUTE_HIDDEN", "IF_ROUTE_INACTIVE", "IF_ROUTE_ACTIVE", "IF_ROUTE_DISABLED"}

\* Where skipIfBlock stops: at the matching ENDIF, or at the ELSE of the same level; 0 runs off the script.
skipTo(pc) ==
    LET nest(p) == 1 + Cardinality({q \in pc + 1..p : S.code[q].op \in IfOpcodes})
                     - Cardinality({q \in pc + 1..p : S.code[q].op = "ENDIF"})
        ends    == {p \in pc + 1..Len(S.code) :
                       nest(p) = 0 \/ (S.code[p].op = "ELSE" /\ nest(p) = 1)}
    IN  IF ends = {} THEN 0 ELSE Min(ends)

-----------------------------------------------------------------------------
(* The ring of tasks and what the interpreter drives. *)

Cur(r) == r.ring[1]
Addrs(r) == {r.ring[i].addr : i \in DOMAIN r.ring}
PosOf(r, a) == CHOOSE i \in DOMAIN r.ring : r.ring[i].addr = a
TaskAt(r, a) == r.ring[PosOf(r, a)]
Update(r, t) == [r EXCEPT !.ring = [i \in DOMAIN @ |-> IF @[i].addr = t.addr THEN t ELSE @[i]]]

Stopped(spd) == [spd EXCEPT !.v = 1]

\* DCC::estopAll as EXRAIL sees it.
estopAll(r) == [r EXCEPT !.speed = [l \in DOMAIN @ |-> Stopped(@[l])]]

\* DCC::setThrottle: cab 0 with speed 1 is the emergency stop of all, cab 0 otherwise has no slot.
setThrottle(r, cab, v, fwd) ==
    IF cab = 0 THEN (IF v = 1 THEN estopAll(r) ELSE r)
    ELSE [r EXCEPT !.speed[cab] = [v |-> v, fwd |-> fwd]]

\* The constructor: the lowest free task id (the last one when there is none), next in the ring.
newTask(r, g, pc, loco, inv, on) ==
    LET free == (0..MAX_FLAGS - 1) \ r.taken
        t == [addr |-> Min((1..Len(r.ring) + 1) \ Addrs(r)),
              id |-> IF free = {} THEN MAX_FLAGS - 1 ELSE Min(free),
              pc |-> pc, loco |-> loco, invert |-> inv, delay |-> 0, blink |-> "no",
              u |-> g.heap.u, stack |-> <<>>, on |-> on, pauseSpeed |-> g.heap.speed]
    IN  [r EXCEPT !.ring = IF @ = <<>> THEN <<t>> ELSE <<@[1], t>> \o Tail(@),
                  !.taken = @ \cup {t.id}]

\* kill() and the destructor: stop my loco unless I am an ON handler; loopTask is the next one.
kill(r, a) ==
    LET t == TaskAt(r, a)
        i == PosOf(r, a)
        q == IF t.loco > 0 /\ t.on = 0 THEN setThrottle(r, t.loco, 1, r.speed[t.loco].fwd) ELSE r
    IN  [q EXCEPT !.taken = @ \ {t.id},
                  !.ring = SubSeq(@, i + 1, Len(@)) \o SubSeq(@, 1, i - 1)]

killAll(r) == FoldLeft(kill, r, [i \in DOMAIN r.ring |-> r.ring[i].addr])

IsBlink(t) == t.blink \in {"low", "high"}

\* Mutant: a blink task that is in its low phase is overlooked.
killBlinkOnVpin_HighOnly(r, pin, count) ==
    LET victims == SelectSeq(r.ring, LAMBDA t : t.blink = "high" /\ t.u \in pin..pin + count - 1)
    IN  FoldLeft(kill, r, [i \in DOMAIN victims |-> victims[i].addr])

\* The walk stops when it is back at the task it began with.  When that task is itself one
\* it kills, and not alone, it never comes back: the station hangs.
killBlinkOnVpin(r, pin, count) ==
    LET victims == SelectSeq(r.ring, LAMBDA t : IsBlink(t) /\ t.u \in pin..pin + count - 1)
    IN  IF victims # <<>> /\ Len(r.ring) > 1 /\ victims[1] = Cur(r)
        THEN [r EXCEPT !.hung = TRUE]
        ELSE FoldLeft(kill, r, [i \in DOMAIN victims |-> victims[i].addr])

\* IODevice::write on an output that is meant to stay as written.
writePin(r, pin, val) == [r EXCEPT !.pin[pin] = val, !.still = @ \cup {pin}]

startNonRecursiveTask(r, g, pc, loco) ==
    IF \E i \in DOMAIN r.ring : r.ring[i].on = pc /\ r.ring[i].loco = loco THEN r
    ELSE newTask(r, g, pc, loco, FALSE, pc)

\* LookList::handleEvent: every handler of the event is started.
handleEvent(r, g, op, id, loco) ==
    FoldLeft(LAMBDA q, pc : startNonRecursiveTask(q, g, pc, loco), r,
             SelectSeq(Lookup(op), LAMBDA pc : S.code[pc].v = id))

readSensor(r, sid) ==
    LET pin == IF sid < 0 THEN -sid ELSE sid
    IN  pin \in r.latched \/ ((r.input[pin] # 0) # (sid < 0))

\* Signals.  slot is the place of a signal in the table; the state of a signal is kept by slot.
signalSlot(id) ==
    LET here == {n \in DOMAIN S.signals : S.signals[n].id = id}
    IN  IF here = {} THEN 0 ELSE Min(here)

isSignal(r, id, rag) == signalSlot(id) # 0 /\ r.signal[signalSlot(id)] = rag

\* The three pins of a lamp signal, each freed from its blink task before it is written.
\* No amber pin: amber is red and green together.  Only SIGNALH lamps are on when HIGH.
lampSignal(r, sig, rag) ==
    LET both == rag = "amber" /\ sig.amber = 0
        set(q, pin, on) == IF pin = 0 \/ q.hung THEN q
                           ELSE LET k == killBlinkOnVpin(q, pin, 1)
                                IN  IF k.hung THEN k ELSE writePin(k, pin, on = (sig.type = "SIGNALH"))
    IN  set(set(set(r, sig.red, rag = "red" \/ both), sig.amber, rag = "amber"),
            sig.green, rag = "green" \/ both)

\* The handlers of the aspect are started first, even without a definition of the signal.
doSignal(r, g, id, rag) ==
    LET on == CASE rag = "red" -> "ONRED" [] rag = "amber" -> "ONAMBER" [] OTHER -> "ONGREEN"
        q  == handleEvent(r, g, on, id, 0)
        n  == signalSlot(id)
    IN  IF n = 0 THEN q
        ELSE LET k == [q EXCEPT !.signal[n] = rag]
             IN  IF S.signals[n].type \in {"SIGNAL", "SIGNALH"} THEN lampSignal(k, S.signals[n], rag) ELSE k

\* An aspect of a DCCX signal is turned into its colour; anything else is left to the DCC packet.
signalAspectEvent(r, g, address, aspect) ==
    LET n == signalSlot(address)
    IN  IF n = 0 \/ S.signals[n].type # "DCCX" THEN r
        ELSE CASE aspect = S.signals[n].red   -> doSignal(r, g, address, "red")
               [] aspect = S.signals[n].amber -> doSignal(r, g, address, "amber")
               [] aspect = S.signals[n].green -> doSignal(r, g, address, "green")
               [] OTHER -> r

\* turnoutEvent, activateEvent, blockEvent, changeEvent, rotateEvent, clockEvent (the time, and every
\* hour at that minute), powerEvent and railsyncEvent: what other parts of the station report.
event(r, g, on, id, loco) ==
    LET q == handleEvent(r, g, on, id, loco)
    IN  IF on = "ONTIME" THEN handleEvent(q, g, on, (25 * 60) + (id % 60), loco) ELSE q

\* Turnout::setClosed for a turnout that exists.
setClosed(r, g, id, closed) ==
    IF id \notin DOMAIN r.closed THEN r
    ELSE event([r EXCEPT !.closed[id] = closed], g, IF closed THEN "ONCLOSE" ELSE "ONTHROW", id, 0)

manageRouteState(r, id, state) == IF routeFind(id) = 0 THEN r ELSE [r EXCEPT !.route[id] = state]

\* Stash::set, ::clearAll and ::clearAny on the list of stashes, as the function it represents.
stashSet(r, id, loco) == [r EXCEPT !.stash[id] = loco]
stashClear(r, locos) == [r EXCEPT !.stash = [id \in DOMAIN @ |-> IF @[id] \in locos THEN 0 ELSE @[id]]]

\* Mutant: the speed is noted when the loco has already been stopped.
pauseTask_Late(r, a) ==
    LET t == TaskAt(r, a)
    IN  IF t.loco = 0 THEN r ELSE Update(r, [t EXCEPT !.pauseSpeed = Stopped(r.speed[t.loco])])

pauseTask(r, a) ==
    LET t == TaskAt(r, a)
    IN  IF t.loco = 0 THEN r ELSE Update(r, [t EXCEPT !.pauseSpeed = r.speed[t.loco]])

resumeTask(r, a) ==
    LET t == TaskAt(r, a)
    IN  IF t.loco = 0 THEN r ELSE setThrottle(r, t.loco, t.pauseSpeed.v, t.pauseSpeed.fwd)

OverRing(F(_, _), r) == FoldLeft(F, r, [i \in DOMAIN r.ring |-> r.ring[i].addr])

-----------------------------------------------------------------------------
(* loop2(), by groups of opcodes.  An instruction ends in break (on to the next one),    *)
(* in return (run it again next time, or elsewhere), or with skipIf set (skip the block). *)

Break(r) == [how |-> "break", rail |-> r]
Return(r) == [how |-> "return", rail |-> r]
If(r, cond) == [how |-> IF cond THEN "break" ELSE "skip", rail |-> r]
delayMe(r, t, ticks) == Update(r, [t EXCEPT !.delay = ticks])
Wait(r, t) == Return(delayMe(r, t, 1))
WaitFor(r, t, cond) == IF cond THEN Break(Update(r, [t EXCEPT !.blink = "no"]))
                       ELSE Wait(r, [t EXCEPT !.blink = "no"])

blinkStep(r, t) ==
    LET up == t.blink = "low"
        q  == [r EXCEPT !.pin[t.u] = up]
    IN  Return(Update(q, [t EXCEPT !.blink = IF up THEN "high" ELSE "low",
                                   !.delay = getOperand(t.pc, IF up THEN 1 ELSE 2)]))

turnoutOps(r, t, g, op, v) ==
    Break(CASE op = "THROW" -> setClosed(r, g, v, FALSE)
            [] op = "CLOSE" -> setClosed(r, g, v, TRUE)
            [] OTHER        -> setClosed(r, g, v, v \in DOMAIN r.closed /\ ~r.closed[v]))

\* Speeds of my loco: absolute, saved, relative.  1 is never reached by sums, nor left by them.
speedOps(r, t, g, op, v) ==
    LET now == r.speed[t.loco]
        to(spd) == setThrottle(r, t.loco, spd, now.fwd)
        rel == (now.v * v) \div 100
        cap(n, one) == IF n > 127 THEN 127 ELSE IF n = 1 THEN one ELSE n
    IN  IF t.loco = 0 THEN Break(r)
        ELSE Break(CASE op = "REV"   -> setThrottle(r, t.loco, v, t.invert)
                     [] op = "FWD"   -> setThrottle(r, t.loco, v, ~t.invert)
                     [] op = "SPEED" -> to(v)
                     [] op = "SAVE_SPEED" -> [r EXCEPT !.saved[t.loco] = now]
                     [] op = "RESTORE_SPEED" -> setThrottle(r, t.loco, r.saved[t.loco].v, r.saved[t.loco].fwd)
                     [] op = "SPEEDUP" -> IF now.v = 1 THEN r ELSE to(cap(now.v + v, 2))
                     [] op = "SPEED_REL" -> IF now.v < 2 THEN r ELSE to(cap(rel, 0))
                     [] OTHER -> IF now.v = 1 THEN r ELSE to(IF now.v - v < 2 THEN 0 ELSE now.v - v))

\* ESTOPALL (0 stops all; 1 and 2 lock and unlock, which leaves the throttles), FORGET, INVERT_DIRECTION.
locoOps(r, t, g, op, v) ==
    Break(CASE op = "ESTOPALL" -> IF v = 0 THEN estopAll(r) ELSE r
            [] op = "FORGET" -> IF t.loco = 0 THEN r
                                ELSE Update([r EXCEPT !.speed[t.loco] = [v |-> 0, fwd |-> TRUE]],
                                            [t EXCEPT !.loco = 0])
            [] OTHER -> Update(r, [t EXCEPT !.invert = ~@]))

\* Mutant: the loco is stopped but the section is entered all the same.
sectionOps_NoReturn(r, t, g, op, v) ==
    CASE op = "RESERVE" -> Break([setThrottle(r, t.loco, 1, TRUE) EXCEPT !.sections = @ \cup {v}])
      [] op = "FREE"    -> Break([r EXCEPT !.sections = @ \ {v}])
      [] OTHER          -> Break([r EXCEPT !.sections = {}])

\* A section that is taken stops my loco and is tried again later.
sectionOps(r, t, g, op, v) ==
    CASE op = "RESERVE" /\ v \in r.sections ->
             Wait(IF t.loco = 0 THEN r ELSE setThrottle(r, t.loco, 1, r.speed[t.loco].fwd), t)
      [] op = "RESERVE" -> Break([r EXCEPT !.sections = @ \cup {v}])
      [] op = "FREE"    -> Break([r EXCEPT !.sections = @ \ {v}])
      [] OTHER          -> Break([r EXCEPT !.sections = {}])

\* AT, ATGTE, ATLT; ATTIMEOUT in two parts and the test of its outcome; AFTER and AFTEROVERLOAD.
waitOps(r, t, g, op, v) ==
    LET quiet(hit, ticks) == IF hit THEN Wait(r, [t EXCEPT !.u = 0])
                             ELSE IF t.u < ticks THEN Return(r) ELSE Break(r)
    IN  CASE op = "AT"    -> WaitFor(r, t, readSensor(r, v))
          [] op = "ATGTE" -> WaitFor(r, t, r.input[v] >= getOperand(t.pc, 1))
          [] op = "ATLT"  -> WaitFor(r, t, r.input[v] < getOperand(t.pc, 1))
          [] op = "ATTIMEOUT1" -> Break(Update(r, [t EXCEPT !.u = 0, !.blink = "no"]))
          [] op = "ATTIMEOUT2" -> IF readSensor(r, v) THEN Break(r)
                                  ELSE IF t.u > getOperand(t.pc, 1)
                                  THEN Break(Update(r, [t EXCEPT !.blink = "timeout"]))
                                  ELSE Wait(r, t)
          [] op = "IFTIMEOUT" -> If(r, t.blink = "timeout")
          [] op = "AFTER" -> quiet(readSensor(r, v), getOperand(t.pc, 1))
          [] OTHER        -> quiet(~r.power, 1)

\* LATCH, UNLATCH; SET and RESET of a row of pins; BLINK, a task of its own at this instruction.
outputOps(r, t, g, op, v) ==
    LET one(q, pin) == IF q.hung THEN q
                       ELSE LET k == killBlinkOnVpin(q, pin, 1)
                            IN  IF k.hung THEN k ELSE writePin(k, pin, op = "SET")
        k == killBlinkOnVpin(r, v, 1)
        b == newTask(k, g, t.pc, 0, FALSE, 0)
        new == b.ring[IF k.ring = <<>> THEN 1 ELSE 2]
    IN  Break(CASE op = "LATCH"   -> [r EXCEPT !.latched = @ \cup {v}]
                [] op = "UNLATCH" -> [r EXCEPT !.latched = @ \ {v}]
                [] op = "BLINK"   -> IF k.hung THEN k
                                     ELSE [Update(b, [new EXCEPT !.u = v, !.blink = "low"]) EXCEPT !.still = @ \ {v}]
                [] OTHER -> FoldLeft(one, r, [i \in 1..getOperand(t.pc, 1) |-> v + i - 1]))

\* PAUSE stops every loco and lets only this task run; RESUME gives every task's loco its pauseSpeed.
pauseOps(r, t, g, op, v) ==
    Break(IF op = "PAUSE" THEN [estopAll(r) EXCEPT !.pausing = t.addr]
          ELSE OverRing(resumeTask, [r EXCEPT !.pausing = 0]))

ifOps(r, t, g, op, v) ==
    LET kept == r.stash[v]
    IN  CASE op = "IF"        -> If(r, readSensor(r, v))
          [] op = "IFNOT"     -> If(r, ~readSensor(r, v))
          [] op = "ELSE"      -> If(r, FALSE)
          [] op = "IFGTE"     -> If(r, r.input[v] >= getOperand(t.pc, 1))
          [] op = "IFLT"      -> If(r, r.input[v] < getOperand(t.pc, 1))
          [] op = "IFRE"      -> If(r, r.input[v] = getOperand(t.pc, 1))
          [] op = "IFRANDOM"  -> If(r, g.rnd # 0)
          [] op = "IFRESERVE" -> If([r EXCEPT !.sections = @ \cup {v}], v \notin r.sections)
          [] op = "IFRED"     -> If(r, isSignal(r, v, "red"))
          [] op = "IFAMBER"   -> If(r, isSignal(r, v, "amber"))
          [] op = "IFGREEN"   -> If(r, isSignal(r, v, "green"))
          [] op = "IFTHROWN"  -> If(r, ~(v \in DOMAIN r.closed /\ r.closed[v]))
          [] op = "IFCLOSED"  -> If(r, v \in DOMAIN r.closed /\ r.closed[v])
          [] op = "IFSTASH"   -> If(r, kept # 0)
          [] op = "IFSTASHED_HERE" -> If(r, (IF kept < 0 THEN kept + 32768 ELSE kept) = t.loco)
          [] OTHER            -> If(r, t.loco = v)   \* IFLOCO

\* WAIT_WHILE_RED, and the waits for a servo or a turntable that is still moving (g.busy).
redOps(r, t, g, op, v) ==
    IF op = "WAITFOR" THEN (IF g.busy THEN Wait(r, t) ELSE Break(r))
    ELSE IF ~isSignal(r, v, "red") THEN Break(r)
    ELSE Wait(IF t.loco # 0 /\ r.speed[t.loco].v > 1
              THEN setThrottle(r, t.loco, 0, r.speed[t.loco].fwd) ELSE r, t)

\* DELAY, DELAYMS and DELAYMINS; RANDWAIT.
delayOps(r, t, g, op, v) == Break(delayMe(r, t, IF op = "DELAY" THEN v ELSE IF v = 0 THEN 0 ELSE g.rnd % v))

signalOps(r, t, g, op, v) ==
    Break(CASE op = "RED"   -> doSignal(r, g, v, "red")
            [] op = "AMBER" -> doSignal(r, g, v, "amber")
            [] op = "GREEN" -> doSignal(r, g, v, "green")
            [] OTHER        -> signalAspectEvent(r, g, v \div 32, v % 32))

\* XFWD and XREV, which name their loco.
crossOps(r, t, g, op, v) == Break(setThrottle(r, v, getOperand(t.pc, 1), op = "XFWD"))

\* FOLLOW, CALL and their random forms, RETURN.  The return place of RANDOM_CALL is after its operands.
flowOps(r, t, g, op, v) ==
    LET random == op \in {"RANDOM_CALL", "RANDOM_FOLLOW"}
        target == routeFind(IF random THEN getOperand(t.pc, 1 + (g.rnd % v)) ELSE v)
        back   == t.pc + IF random THEN v + 1 ELSE 1
        call   == op \in {"CALL", "RANDOM_CALL"}
        stack  == IF call THEN <<back>> \o t.stack ELSE t.stack
    IN  Return(IF op = "RETURN"
               THEN IF t.stack = <<>> THEN kill(r, t.addr)
                    ELSE Update(r, [t EXCEPT !.pc = Head(t.stack), !.stack = Tail(t.stack)])
               ELSE IF (call /\ Len(t.stack) = MAX_STACK_DEPTH) \/ target = 0 THEN kill(r, t.addr)
               ELSE Update(r, [t EXCEPT !.pc = target, !.stack = stack]))

\* ENDTASK, the end of the script and KILLALL.
endOps(r, t, g, op, v) == Return(IF op = "KILLALL" THEN killAll(r) ELSE kill(r, t.addr))

\* READ_LOCO1 asks the programming track, READ_LOCO2 waits for readLocoCallback.
readLocoOps(r, t, g, op, v) ==
    CASE op = "READ_LOCO1" -> Break([r EXCEPT !.progLoco = -1, !.asked = TRUE])
      [] r.progLoco = -1   -> Wait(r, t)
      [] OTHER             -> Break(Update(r, [t EXCEPT !.loco = r.progLoco, !.invert = FALSE]))

\* START, START_SHARED, START_SEND (my loco goes with it), SENDLOCO, SETLOCO.
startOps(r, t, g, op, v) ==
    LET pc == routeFind(IF op = "SENDLOCO" THEN getOperand(t.pc, 1) ELSE v)
    IN  Break(CASE op = "SETLOCO" -> Update(r, [t EXCEPT !.loco = v, !.invert = FALSE])
                [] pc = 0 -> r
                [] op = "START"    -> newTask(r, g, pc, 0, FALSE, 0)
                [] op = "SENDLOCO" -> newTask(r, g, pc, v, FALSE, 0)
                [] op = "START_SHARED" -> newTask(r, g, pc, t.loco, t.invert, 0)
                [] OTHER -> Update(newTask(r, g, pc, t.loco, t.invert, 0), [t EXCEPT !.loco = 0]))

RouteState == [ROUTE_HIDDEN |-> 2, ROUTE_INACTIVE |-> 0, ROUTE_ACTIVE |-> 1, ROUTE_DISABLED |-> 4,
               IF_ROUTE_HIDDEN |-> 2, IF_ROUTE_INACTIVE |-> 0, IF_ROUTE_ACTIVE |-> 1, IF_ROUTE_DISABLED |-> 4]

routeOps(r, t, g, op, v) ==
    IF op \in IfOpcodes THEN If(r, routeFind(v) # 0 /\ r.route[v] = RouteState[op])
    ELSE Break(manageRouteState(r, v, RouteState[op]))

\* STASH keeps my loco, negative when inverted; PICKUP_STASH takes it over.
stashOps(r, t, g, op, v) ==
    LET x == r.stash[v]
    IN  Break(CASE op = "STASH" -> stashSet(r, v, IF t.invert THEN -t.loco ELSE t.loco)
                [] op = "CLEAR_STASH" -> stashSet(r, v, 0)
                [] op = "CLEAR_ALL_STASH" -> stashClear(r, {r.stash[id] : id \in DOMAIN r.stash})
                [] op = "CLEAR_ANY_STASH" -> IF t.loco = 0 THEN r
                                             ELSE stashClear(r, {t.loco, -t.loco})
                [] OTHER -> Update(r, [t EXCEPT !.loco = IF x >= 0 THEN x ELSE -x, !.invert = x < 0]))

execute(r, t, g) ==
    LET op == S.code[t.pc].op
        v  == getOperand(t.pc, 0)
    IN  CASE op \in {"THROW", "CLOSE", "TOGGLE_TURNOUT"} -> turnoutOps(r, t, g, op, v)
          [] op \in {"REV", "FWD", "SPEED", "SAVE_SPEED", "RESTORE_SPEED", "SPEEDUP", "SPEED_REL", "SLOWDOWN"}
                 -> speedOps(r, t, g, op, v)
          [] op \in {"ESTOPALL", "FORGET", "INVERT_DIRECTION"} -> locoOps(r, t, g, op, v)
          [] op \in {"RESERVE", "FREE", "FREEALL"} -> sectionOps(r, t, g, op, v)
          [] op \in {"AT", "ATGTE", "ATLT", "ATTIMEOUT1", "ATTIMEOUT2", "IFTIMEOUT", "AFTER", "AFTEROVERLOAD"}
                 -> waitOps(r, t, g, op, v)
          [] op \in {"LATCH", "UNLATCH", "SET", "RESET", "BLINK"} -> outputOps(r, t, g, op, v)
          [] op \in {"PAUSE", "RESUME"} -> pauseOps(r, t, g, op, v)
          [] op \in DOMAIN RouteState -> routeOps(r, t, g, op, v)
          [] op \in (IfOpcodes \cup {"ELSE"}) \ (DOMAIN RouteState \cup {"IFTIMEOUT"}) -> ifOps(r, t, g, op, v)
          [] op \in {"WAIT_WHILE_RED", "WAITFOR"} -> redOps(r, t, g, op, v)
          [] op \in {"DELAY", "RANDWAIT"} -> delayOps(r, t, g, op, v)
          [] op \in {"RED", "AMBER", "GREEN", "ASPECT"} -> signalOps(r, t, g, op, v)
          [] op \in {"XFWD", "XREV"} -> crossOps(r, t, g, op, v)
          [] op \in {"FOLLOW", "CALL", "RANDOM_FOLLOW", "RANDOM_CALL", "RETURN"} -> flowOps(r, t, g, op, v)
          [] op \in {"ENDTASK", "ENDEXRAIL", "KILLALL"} -> endOps(r, t, g, op, v)
          [] op \in {"READ_LOCO1", "READ_LOCO2"} -> readLocoOps(r, t, g, op, v)
          [] op \in {"START", "START_SHARED", "START_SEND", "SENDLOCO", "SETLOCO"} -> startOps(r, t, g, op, v)
          [] op \in {"STASH", "CLEAR_STASH", "CLEAR_ALL_STASH", "CLEAR_ANY_STASH", "PICKUP_STASH"}
                 -> stashOps(r, t, g, op, v)
          [] OTHER -> Break(r)   \* PAD, labels, ON handlers, and what only other parts of the station see

\* SKIPOP, or skipIfBlock and then SKIPOP; a block without its ENDIF kills the task.
advance(x, a) ==
    IF x.how = "return" \/ x.rail.hung THEN x.rail
    ELSE LET t  == TaskAt(x.rail, a)
             to == IF x.how = "skip" THEN skipTo(t.pc) ELSE t.pc
         IN  IF to = 0 THEN kill(x.rail, a) ELSE Update(x.rail, [t EXCEPT !.pc = to + 1])

loop2(r, g) ==
    LET t == Cur(r)
    IN  IF t.delay > 0 THEN r
        ELSE IF IsBlink(t) THEN blinkStep(r, t).rail
        ELSE advance(execute(r, t, g), t.addr)

-----------------------------------------------------------------------------
(* EXRAILSensor: inputs watched by ONSENSOR, ONBITMAP and ONBUTTON, read in turn. *)

inputState(r, n) ==
    IF n.analog THEN r.input[n.pin] ELSE IF readSensor(r, n.pin) THEN 1 ELSE 0

\* check(): the change is believed once it was seen minReadCount times before.
check(r, n) ==
    LET now == inputState(r, n)
    IN  CASE now = n.active -> [n EXCEPT !.latchDelay = minReadCount]
          [] now # n.active /\ n.latchDelay > 0 -> [n EXCEPT !.latchDelay = @ - 1]
          [] OTHER -> [n EXCEPT !.active = now, !.latchDelay = minReadCount]

Starts(r, n) ==
    /\ inputState(r, n) # n.active
    /\ n.latchDelay = 0
    /\ n.onChange \/ inputState(r, n) # 0

MaxPerEntry == 16

\* checkAll(): from where the scan stands to the first one that starts a task, at most 16, or to the end.
checkAll(r, g) ==
    LET from == IF reading # 0 THEN reading ELSE IF scanDue /\ sensors # <<>> THEN 1 ELSE 0
        stop == Min({i \in from..Len(sensors) : Starts(r, sensors[i])} \cup {from + MaxPerEntry - 1, Len(sensors)})
    IN  IF from = 0 THEN [rail |-> r, sensors |-> sensors, reading |-> 0, due |-> scanDue]
        ELSE [rail |-> IF Starts(r, sensors[stop]) THEN newTask(r, g, sensors[stop].pc, 0, FALSE, 0) ELSE r,
              sensors |-> [i \in DOMAIN sensors |-> IF i \in from..stop THEN check(r, sensors[i]) ELSE sensors[i]],
              reading |-> IF stop = Len(sensors) THEN 0 ELSE stop + 1,
              due |-> scanDue /\ reading # 0]

-----------------------------------------------------------------------------
(* begin(): flags cleared, every signal red, then the watched inputs, turnouts and AUTOSTARTs in order. *)

begin(g) ==
    LET empty == [ring |-> <<>>, taken |-> {}, sections |-> {}, latched |-> {},
                  signal |-> [n \in DOMAIN S.signals |-> "none"],
                  speed |-> [l \in S.locos |-> [v |-> 0, fwd |-> TRUE]],
                  saved |-> [l \in S.locos |-> [v |-> 0, fwd |-> TRUE]],
                  pin |-> [o \in S.outs |-> FALSE], still |-> {},
                  closed |-> [id \in {S.code[p].v : p \in {q \in DOMAIN S.code : S.code[q].op = "TURNOUT"}} |-> FALSE],
                  route |-> [id \in S.routes |-> 0], stash |-> [id \in S.stashes |-> 0],
                  input |-> [i \in S.inputs |-> 0], power |-> TRUE,
                  pausing |-> 0, progLoco |-> 0, asked |-> FALSE, hung |-> FALSE]
        red == FoldLeft(LAMBDA r, sig : doSignal(r, g, sig.id, "red"), empty, S.signals)
    IN  FoldLeft(LAMBDA r, pc : newTask(r, g, pc, 0, FALSE, 0), red, Lookup("AUTOSTART"))

\* The constructor puts each one at the head of the list.
watched ==
    LET at == Reverse(Places({"ONSENSOR", "ONBITMAP", "ONBUTTON"}))
    IN  [i \in DOMAIN at |->
            [pin |-> S.code[at[i]].v, pc |-> at[i] + 1, onChange |-> S.code[at[i]].op # "ONBUTTON",
             analog |-> S.code[at[i]].op = "ONBITMAP", active |-> 0, latchDelay |-> minReadCount]]

Init ==
    /\ session \in DOMAIN Sessions
    /\ \E g \in S.choices : rail = begin(g)
    /\ sensors = watched
    /\ reading = 0
    /\ scanDue = FALSE
    /\ held = {}
    /\ ran = 0
    /\ beat = FALSE
    /\ left = S.limit

\* What the pausing user's tasks were driving, while those tasks last.
StillHeld(r) == {h \in held : h.addr \in Addrs(r) /\ TaskAt(r, h.addr).loco = h.loco}

nextTask_WhenWaiting(r) == IF Cur(r).delay = 0 THEN r ELSE [r EXCEPT !.ring = Tail(@) \o <<Head(@)>>]

mayRun(r) == r.pausing \in {0, Cur(r).addr}
nextTask(r) == [r EXCEPT !.ring = Tail(@) \o <<Head(@)>>]

\* loop(): scan, move on in the ring, run one instruction unless another task pauses the station.
loop ==
    /\ ~rail.hung
    /\ \E g \in S.choices : \E c \in {checkAll(rail, g)} :
         /\ sensors' = c.sensors
         /\ reading' = c.reading
         /\ scanDue' = c.due
         /\ IF c.rail.ring = <<>> THEN rail' = c.rail /\ ran' = 0
            ELSE LET r == nextTask(c.rail)
                 IN  /\ rail' = IF mayRun(r) THEN loop2(r, g) ELSE r
                     /\ ran' = IF mayRun(r) THEN Cur(r).addr ELSE 0
         /\ held' = StillHeld(rail')
    /\ beat' = ~beat
    /\ UNCHANGED <<session, left>>

Tick ==
    /\ ~rail.hung
    /\ rail' = [rail EXCEPT !.ring = [i \in DOMAIN @ |->
                   [@[i] EXCEPT !.delay = IF @ > 0 THEN @ - 1 ELSE 0,
                                !.u = IF IsBlink(rail.ring[i]) THEN @ ELSE Min({@ + 1, S.maxAge})]]]
    /\ scanDue' = TRUE
    /\ ran' = 0
    /\ UNCHANGED <<session, sensors, reading, held, beat, left>>

-----------------------------------------------------------------------------
(* What reaches EXRAIL from outside between two calls of loop(). *)

\* parseSlash(): the </ ...> commands of a user.  An unknown task or route is refused.
parseSlash(r, g, c) ==
    LET tasks == {a \in Addrs(r) : TaskAt(r, a).id = c.n}
        first == r.ring[Min({i \in DOMAIN r.ring : r.ring[i].id = c.n})].addr
    IN  CASE c.cmd = "PAUSE"   -> [estopAll(OverRing(pauseTask, r)) EXCEPT !.pausing = -1]
          [] c.cmd = "RESUME"  -> OverRing(resumeTask, [r EXCEPT !.pausing = 0])
          [] c.cmd = "FREEALL" -> [r EXCEPT !.sections = {}]
          [] c.cmd = "START"   -> IF routeFind(c.n) = 0 THEN r ELSE newTask(r, g, routeFind(c.n), c.cab, FALSE, 0)
          [] c.cmd = "KILLALL" -> killAll(r)
          [] c.cmd = "KILL"    -> IF tasks = {} THEN r ELSE kill(r, first)
          [] c.cmd = "RESERVE" -> [r EXCEPT !.sections = @ \cup {c.n}]
          [] c.cmd = "FREE"    -> [r EXCEPT !.sections = @ \ {c.n}]
          [] c.cmd = "LATCH"   -> [r EXCEPT !.latched = @ \cup {c.n}]
          [] c.cmd = "UNLATCH" -> [r EXCEPT !.latched = @ \ {c.n}]
          [] OTHER             -> doSignal(r, g, c.n, c.cmd)   \* red, amber, green

userCommand(c) ==
    /\ ~rail.hung
    /\ left > 0
    /\ left' = left - 1
    /\ \E g \in S.choices : rail' = parseSlash(rail, g, c)
    /\ held' = IF c.cmd = "PAUSE"
               THEN {[addr |-> t.addr, loco |-> t.loco, speed |-> rail.speed[t.loco]] :
                        t \in {rail.ring[i] : i \in {j \in DOMAIN rail.ring : rail.ring[j].loco # 0}}}
               ELSE StillHeld(rail')
    /\ ran' = 0
    /\ UNCHANGED <<session, sensors, reading, scanDue, beat>>

\* Another part of the station reports a turnout, an accessory, a block, the time, an overload.
outsideEvent(e) ==
    /\ ~rail.hung
    /\ left > 0
    /\ left' = left - 1
    /\ \E g \in S.choices : rail' = event(rail, g, e.on, e.id, e.loco)
    /\ ran' = 0
    /\ UNCHANGED <<session, sensors, reading, scanDue, held, beat>>

\* readLocoCallback(): no answer, a short address, a long one with its marker; a long one in the short range is refused.
readLocoCallback(cv) ==
    /\ rail.asked
    /\ rail' = [rail EXCEPT !.asked = FALSE,
                            !.progLoco = IF cv <= 0 THEN 0
                                         ELSE IF cv < 16384 THEN cv
                                         ELSE IF cv - 16384 <= 127 THEN 0 ELSE cv - 16384]
    /\ ran' = 0
    /\ UNCHANGED <<session, sensors, reading, scanDue, held, beat, left>>

\* The layout: an input turns (at most left times where S.scarce bounds it), the power comes or goes.
field(i) ==
    /\ ~rail.hung
    /\ S.scarce => left > 0
    /\ left' = IF S.scarce THEN left - 1 ELSE left
    /\ rail' = [rail EXCEPT !.input[i] = 1 - @]
    /\ ran' = 0
    /\ UNCHANGED <<session, sensors, reading, scanDue, held, beat>>

trackPower ==
    /\ S.cuts /\ ~rail.hung
    /\ rail' = [rail EXCEPT !.power = ~@]
    /\ ran' = 0
    /\ UNCHANGED <<session, sensors, reading, scanDue, held, beat, left>>

Next ==
    \/ loop
    \/ Tick
    \/ \E c \in S.commands : userCommand(c)
    \/ \E e \in S.events : outsideEvent(e)
    \/ \E cv \in S.cvs : readLocoCallback(cv)
    \/ \E i \in S.flips : field(i)
    \/ trackPower

\* The main loop calls loop() again and again: the steps that turn beat are the steps of loop().
Fairness == WF_beat(~rail.hung /\ beat' = ~beat)

Spec == Init /\ [][Next]_vars /\ Fairness

-----------------------------------------------------------------------------
(* Properties. *)

Tasks == {rail.ring[i] : i \in DOMAIN rail.ring}

\* RESERVE and FREE keep trains apart: of the tasks, never two are in the part of their routes that runs
\* between the RESERVE and the FREE of one section, whoever is killed, paused or started meanwhile.  The ring
\* holds each task once and the task ids that are flagged are those in use, each by one task.
Exclusive ==
    /\ \A sec \in DOMAIN S.regions : Cardinality({t \in Tasks : t.pc \in S.regions[sec]}) <= 1
    /\ rail.taken = {t.id : t \in Tasks} /\ Cardinality(rail.taken) = Len(rail.ring)

\* A user's </ PAUSE> stops every loco and nothing a task, a handler or a sensor does moves one until RESUME,
\* which gives each loco the speed and direction it had at the PAUSE, if the tasks that drive it are those that
\* drove it then.
PauseHolds ==
    /\ [](rail.pausing = -1 => \A l \in S.locos : rail.speed[l].v \in {0, 1})
    /\ [][(rail.pausing = -1 /\ rail'.pausing = 0) =>
             \A h \in held : (\A t \in Tasks : t.loco = h.loco => \E k \in held : k.addr = t.addr)
                                 => rail'.speed[h.loco] = h.speed]_vars

\* A pin has at most one blink task, and none once SET, RESET or a signal has put it to a fixed state.
BlinkOwned ==
    \A t \in {x \in Tasks : IsBlink(x)} :
        /\ t.u \notin rail.still
        /\ \A x \in Tasks : IsBlink(x) /\ x.u = t.u => x = t

\* Every task of the ring gets its turn again and again, unless it ends or the station is paused: killing and
\* starting tasks moves loopTask, but never past the same task for ever.
Served ==
    \A a \in 1..MaxTasks : [](a \in Addrs(rail) => <>(ran = a \/ a \notin Addrs(rail) \/ rail.pausing # 0))

=============================================================================
