------------------------------ MODULE Layout ------------------------------
(***************************************************************************)
(* The layout objects of the command station: turnouts (Turnouts.cpp),     *)
(* outputs (Outputs.cpp), sensors (Sensors.cpp, SensorGroup.cpp) and       *)
(* turntables (Turntables.cpp, IO_EXTurntable.cpp); the EEPROM they are    *)
(* stored in (EEStore.cpp); the parser commands <T>, <Z>, <S>, <I>, <E>,   *)
(* <e> and <D TT> and the LCN messages that create, change and remove      *)
(* them (DCCEXParser.cpp, LCN.cpp); power cuts and restarts.               *)
(*                                                                         *)
(* The EEPROM is a row of cells, one per stored field, so a record is      *)
(* read back from the addresses it was written to and a write to a stale   *)
(* address lands in whatever record is there by now.                       *)
(***************************************************************************)
EXTENDS Integers, Sequences, FiniteSets, SequencesExt

CONSTANTS
  Sessions,    \* name |-> the commands, pins and bounds of one scenario
  SensorIds,   \* every sensor id a session may create
  TableIds     \* every turntable id a session may create

VARIABLES
  session,   \* the scenario, chosen at the start
  lay,       \* the objects in RAM, the EEPROM and the output pins
  input,     \* the level of every input pin (external)
  port,      \* the level the GPIO driver saw last on a notifying pin
  busy,      \* the EX-Turntable is turning (external)
  last,      \* the operation of the last step
  shift,     \* "removed": a stored turnout was removed since power-up; "moved": then <E>
  spoilt,    \* the EEPROM holds a wrong count, or a byte written astray, since <E>
  apart,     \* turnouts whose state was set without moving or storing them
  unseen,    \* sensors on a notifying pin whose last change did not reach them
  beat,      \* flips with every scan that is due (only fairness uses it)
  pulse,     \* flips with every good poll of the turntable (likewise)
  left       \* how many commands, input changes and cuts may still happen

vars == <<session, lay, input, port, busy, last, shift, spoilt, apart, unseen, beat, pulse, left>>
ghosts == <<shift, spoilt, apart, unseen, beat, pulse>>

S == Sessions[session]

NONE == 0          \* no sensor, no address; pin VPIN_NONE

(***************************************************************************)
(* Turnout types (Turnouts.h) and the cells of the data each one saves.    *)
(***************************************************************************)
DCC == 1
SERVO == 2
VPIN == 3
LCN == 4
DataLen == <<1, 3, 1>>

Bit(b) == IF b THEN 1 ELSE 0

\* The first object of a list with the id, or 0.
Get(list, id) == SelectInSeq(list, LAMBDA o : o.id = id)
Without(list, id) == IF Get(list, id) = 0 THEN list ELSE RemoveAt(list, Get(list, id))

write(l, vpin, v) ==
  IF vpin \in DOMAIN l.pin THEN [l EXCEPT !.pin[vpin] = v] ELSE l

(***************************************************************************)
(* EEPROM                                                                  *)
(***************************************************************************)
FirstCell == 1     \* EEStore::reset: the cell behind the header

put(l, a, cells) ==
  [l EXCEPT !.ee.cell = [i \in DOMAIN l.ee.cell |->
     IF i \in a..(a + Len(cells) - 1) THEN cells[i - a + 1] ELSE l.ee.cell[i]]]

At(l, a) == IF a \in DOMAIN l.ee.cell THEN l.ee.cell[a] ELSE 255
Read(l, a, n) == [i \in 1..n |-> At(l, a + i - 1)]

(***************************************************************************)
(* Turnouts.  flags: closed in bit 0, the type in bits 3-7.                *)
(***************************************************************************)
flags(t) == Bit(t.closed) + 8 * t.type

ServoTurnout_save(t) == <<flags(t), t.id, t.data[1], t.data[2], t.data[3]>>
DCCTurnout_save(t) == <<flags(t), t.id, t.data[1]>>
VpinTurnout_save(t) == <<flags(t), t.id, t.data[1]>>
save(t) ==
  CASE t.type = SERVO -> ServoTurnout_save(t)
    [] t.type = DCC -> DCCTurnout_save(t)
    [] t.type = VPIN -> VpinTurnout_save(t)
    [] OTHER -> <<>>

\* The constructor adds the turnout at the end of the list.
newTurnout(l, id, type, data, closed) ==
  [l EXCEPT !.turnouts = Append(@,
     [id |-> id, type |-> type, data |-> data, closed |-> closed, address |-> 0])]

\* A turnout of the same type keeps its state and its EEPROM address;
\* one of another type is removed first.
createTurnout(l, id, type, data, closed) ==
  LET i == Get(l.turnouts, id)
      n == [l EXCEPT !.turnouts = Without(@, id)]
  IN  IF i # 0 /\ l.turnouts[i].type = type
      THEN [l EXCEPT !.turnouts[i].data = data]
      ELSE newTurnout(n, id, type, data, closed)

ServoTurnout_create(l, id, data, closed) ==
  write(createTurnout(l, id, SERVO, data, closed), data[1],
        IF closed THEN data[3] ELSE data[2])
DCCTurnout_create(l, id, address) == createTurnout(l, id, DCC, <<address>>, FALSE)
VpinTurnout_create(l, id, vpin) == createTurnout(l, id, VPIN, <<vpin>>, TRUE)
LCNTurnout_create(l, id) == createTurnout(l, id, LCN, <<>>, TRUE)

\* DCC::setAccessory drops a decoder address of more than 9 bits.
setAccessory(l, linear, gate) ==
  IF linear \div 4 > 511 THEN l
  ELSE [l EXCEPT !.acc = IF gate THEN @ \cup {linear} ELSE @ \ {linear}]

ServoTurnout_set(l, t, close) == write(l, t.data[1], IF close THEN t.data[3] ELSE t.data[2])
DCCTurnout_set(l, t, close) == setAccessory(l, t.data[1], ~close)
VpinTurnout_set(l, t, close) == write(l, t.data[1], Bit(close))
setClosedInternal(l, t, close) ==
  CASE t.type = SERVO -> ServoTurnout_set(l, t, close)
    [] t.type = DCC -> DCCTurnout_set(l, t, close)
    [] t.type = VPIN -> VpinTurnout_set(l, t, close)
    [] OTHER -> l

setClosedStateOnly(l, id, close) ==
  IF Get(l.turnouts, id) = 0 THEN l
  ELSE [l EXCEPT !.turnouts[Get(l.turnouts, id)].closed = close]

setClosed(l, id, close) ==
  LET i == Get(l.turnouts, id)
      n == setClosedStateOnly(setClosedInternal(l, l.turnouts[i], close), id, close)
      t == n.turnouts[i]
  IN  IF i = 0 THEN l
      ELSE IF l.counts.turnouts > 0 /\ t.address > 0 THEN put(n, t.address, <<flags(t)>>)
      ELSE n

\* Turnout::store: every turnout is saved and counted, in list order.
Turnout_store(l) ==
  [put(l, FirstCell, FlattenSeq([i \in DOMAIN l.turnouts |-> save(l.turnouts[i])]))
     EXCEPT !.counts.turnouts = Len(l.turnouts),
            !.pointer = FirstCell + Len(FlattenSeq([i \in DOMAIN l.turnouts |->
                                                      save(l.turnouts[i])]))]

\* The load functions: a servo is created like a new one, with the stored
\* state; a DCC turnout loses its state; neither that nor a pin turnout
\* looks for an object with the same id.
ServoTurnout_load(l, id, closed) == ServoTurnout_create(l, id, Read(l, l.pointer + 2, 3), closed)
DCCTurnout_load(l, id, closed) == newTurnout(l, id, DCC, Read(l, l.pointer + 2, 1), FALSE)
VpinTurnout_load(l, id, closed) == newTurnout(l, id, VPIN, Read(l, l.pointer + 2, 1), closed)

\* loadTurnout: the type in the flags says how much more to read; an
\* unknown type makes nothing.
loadTurnout(l) ==
  LET a == l.pointer
      type == At(l, a) \div 8
      closed == At(l, a) % 2 = 1
      id == At(l, a + 1)
      n == CASE type = SERVO -> ServoTurnout_load(l, id, closed)
             [] type = DCC -> DCCTurnout_load(l, id, closed)
             [] type = VPIN -> VpinTurnout_load(l, id, closed)
      i == IF type = SERVO THEN Get(n.turnouts, id) ELSE Len(n.turnouts)
  IN  IF type \notin {DCC, SERVO, VPIN} THEN [l EXCEPT !.pointer = a + 2]
      ELSE [n EXCEPT !.turnouts[i].address = a, !.pointer = a + 2 + DataLen[type]]

(***************************************************************************)
(* Outputs.  oStatus: flags in bits 0-6 (invert, setDefault, defaultValue),*)
(* active in bit 7.  num: the EEPROM address of oStatus.                   *)
(***************************************************************************)
invert(o) == o.flags % 2
setDefault(o) == (o.flags \div 2) % 2 = 1
defaultValue(o) == (o.flags \div 4) % 2 = 1
oStatus(o) == o.flags + 128 * Bit(o.active)
Level(o) == (Bit(o.active) + invert(o)) % 2

activate(l, i, s) ==
  LET o == [l.outputs[i] EXCEPT !.active = s]
      n == write([l EXCEPT !.outputs[i] = o], o.pin, Level(o))
  IN  IF l.counts.outputs > 0 /\ o.num > 0 THEN put(n, o.num, <<oStatus(o)>>) ELSE n

\* Output::create: fromCommand is v = 1; load() leaves active as it finds it.
Output_create(l, id, pin, flag, fromCommand) ==
  LET i == Get(l.outputs, id)
      old == IF i = 0 THEN FALSE ELSE l.outputs[i].active
      o == [id |-> id, pin |-> pin, flags |-> flag, num |-> 0, active |-> old]
      n == [o EXCEPT !.active = IF fromCommand THEN setDefault(o) /\ defaultValue(o) ELSE old]
  IN  IF pin > S.vpinMax THEN l
      ELSE write([l EXCEPT !.outputs = IF i = 0 THEN Append(@, n) ELSE [@ EXCEPT ![i] = n]],
                 pin, Level(n))

\* Mutant: an output stored before keeps the address it had.
Output_store_KeepNum(l) ==
  LET at(i) == IF l.outputs[i].num > 0 THEN l.outputs[i].num ELSE l.pointer + 3 * (i - 1)
      cells == FlattenSeq([i \in DOMAIN l.outputs |->
                 <<oStatus(l.outputs[i]), l.outputs[i].id, l.outputs[i].pin>>])
  IN  [put(l, l.pointer, cells)
         EXCEPT !.outputs = [i \in DOMAIN l.outputs |-> [l.outputs[i] EXCEPT !.num = at(i)]],
                !.counts.outputs = Len(l.outputs), !.pointer = @ + Len(cells)]

\* Output::store remembers in num where each output went.
Output_store(l) ==
  LET at(i) == l.pointer + 3 * (i - 1)
      cells == FlattenSeq([i \in DOMAIN l.outputs |->
                 <<oStatus(l.outputs[i]), l.outputs[i].id, l.outputs[i].pin>>])
  IN  [put(l, l.pointer, cells)
         EXCEPT !.outputs = [i \in DOMAIN l.outputs |-> [l.outputs[i] EXCEPT !.num = at(i)]],
                !.counts.outputs = Len(l.outputs), !.pointer = @ + Len(cells)]

Output_load(l) ==
  LET a == l.pointer
      saved == [flags |-> At(l, a) % 128, active |-> At(l, a) \div 128 = 1]
      made == Output_create(l, At(l, a + 1), At(l, a + 2), saved.flags, FALSE)
      i == Get(made.outputs, At(l, a + 1))
      on == IF setDefault(saved) THEN defaultValue(saved) ELSE saved.active
  IN  IF i = 0 THEN [made EXCEPT !.pointer = a + 3]
      ELSE [activate(made, i, on) EXCEPT !.outputs[i].num = a, !.pointer = a + 3]

(***************************************************************************)
(* Sensors.  reading: the id of readingSensor, NONE between two cycles.    *)
(* inUse: the notifying pins that were made inputs (_portInUse).           *)
(***************************************************************************)
minReadCount == 1

\* The id of the sensor behind position i of a list, NONE at its end.
IdAfter(list, i) == IF i >= Len(list) THEN NONE ELSE list[i + 1].id

\* Mutant: the cursor stays on the removed sensor.
Sensor_remove_KeepCursor(l, id) ==
  [l EXCEPT !.sensors = Without(@, id)]

\* Sensor::remove: a cursor on the removed sensor moves to the next one.
Sensor_remove(l, id) ==
  LET i == Get(l.sensors, id)
  IN  IF i = 0 THEN l
      ELSE [l EXCEPT !.sensors = RemoveAt(@, i),
                     !.reading = IF @ = id THEN IdAfter(l.sensors, i) ELSE @]

Sensor_create(l, id, pin) ==
  LET n == Sensor_remove(l, id)
  IN  IF pin > S.vpinMax /\ pin # NONE THEN l
      ELSE [n EXCEPT !.sensors =
             <<[id |-> id, pin |-> pin, poll |-> pin # NONE /\ pin \notin S.notify,
                active |-> FALSE, inputState |-> FALSE, latchDelay |-> minReadCount]>> \o @,
                     !.inUse = @ \cup (S.notify \cap {pin})]

\* LCN calls setState: reported by the next checkAll, without the delay.
setState(l, id, on) ==
  LET i == Get(l.sensors, id)
  IN  [l EXCEPT !.sensors[i].inputState = on, !.sensors[i].latchDelay = 0]

\* The input a sensor sees when the scan reaches it, and what it makes of it.
Seen(s) == [s EXCEPT !.inputState = IF s.poll THEN input[s.pin] ELSE @]
Reports(s) == s.inputState # s.active /\ s.latchDelay = 0
Checked(s) ==
  IF s.inputState = s.active THEN [s EXCEPT !.latchDelay = minReadCount]
  ELSE IF s.latchDelay > 0 THEN [s EXCEPT !.latchDelay = @ - 1]
  ELSE [s EXCEPT !.active = s.inputState, !.latchDelay = minReadCount]

\* A scan starts when the cycle interval is over (due), goes on from the
\* cursor, and stops after a report, after scanMax sensors or at the end.
checkAllFrom(l, due) ==
  LET start == IF l.reading # NONE THEN Get(l.sensors, l.reading)
               ELSE IF due /\ l.sensors # <<>> THEN 1 ELSE 0
      seen == [i \in DOMAIN l.sensors |-> Seen(l.sensors[i])]
      upto == CHOOSE e \in start..Len(seen) :
                /\ e = Len(seen) \/ Reports(seen[e]) \/ e = start + S.scanMax - 1
                /\ \A i \in start..(e - 1) : ~Reports(seen[i])
                /\ e <= start + S.scanMax - 1
  IN  IF start = 0 THEN l
      ELSE [l EXCEPT !.sensors = [i \in DOMAIN seen |->
                        IF i \in start..upto THEN Checked(seen[i]) ELSE l.sensors[i]],
                     !.reading = IdAfter(l.sensors, upto)]

\* The callback of a notifying driver reaches the first sensor on the pin.
inputChangeCallback(l, vpin, on) ==
  LET i == SelectInSeq(l.sensors, LAMBDA s : s.pin = vpin)
  IN  IF i = 0 THEN l ELSE [l EXCEPT !.sensors[i].inputState = on]

\* SensorGroup::doSensorGroup(check) reports every changed pin of a group.
checkGroups(l) == [l EXCEPT !.group = [v \in DOMAIN @ |-> input[v]]]

\* Mutant: the pointer is not advanced behind the sensors.
Sensor_store_NoAdvance(l) ==
  LET cells == FlattenSeq([i \in DOMAIN l.sensors |-> <<l.sensors[i].id, l.sensors[i].pin>>])
  IN  [put(l, l.pointer, cells) EXCEPT !.counts.sensors = Len(l.sensors)]

Sensor_store(l) ==
  LET cells == FlattenSeq([i \in DOMAIN l.sensors |-> <<l.sensors[i].id, l.sensors[i].pin>>])
  IN  [put(l, l.pointer, cells)
         EXCEPT !.counts.sensors = Len(l.sensors), !.pointer = @ + Len(cells)]

Sensor_load(l) ==
  [Sensor_create(l, At(l, l.pointer), At(l, l.pointer + 1)) EXCEPT !.pointer = @ + 2]

(***************************************************************************)
(* EEStore.  The header (counts) is at address 0, written last.            *)
(***************************************************************************)
Zero == [turnouts |-> 0, sensors |-> 0, outputs |-> 0]

EEStore_store(l) ==
  LET n == Output_store(Sensor_store(Turnout_store(l)))
  IN  [n EXCEPT !.ee.counts = n.counts]

EEStore_clear(l) == [l EXCEPT !.counts = Zero, !.ee.counts = Zero]

\* op applied n times; each result is complete before the next begins.
Times(op(_), n, l) ==
  LET f[i \in 0..n] == IF i = 0 THEN l ELSE CHOOSE r \in {op(x) : x \in {f[i - 1]}} : TRUE
  IN  f[n]

\* RAM and pins after a reset, with the EEPROM as it is; then EEStore::init.
Blank(ee) ==
  [turnouts |-> <<>>, outputs |-> <<>>, sensors |-> <<>>, reading |-> NONE, inUse |-> {},
   tables |-> <<>>, counts |-> ee.counts, ee |-> ee, pointer |-> FirstCell,
   pin |-> [v \in S.pins |-> 0], acc |-> {}, group |-> [v \in S.groupPins |-> FALSE],
   dev |-> [status |-> 0, previous |-> 0, activity |-> 0]]

EEStore_init(ee) ==
  LET t == Times(loadTurnout, ee.counts.turnouts, Blank(ee))
      s == Times(Sensor_load, ee.counts.sensors, t)
  IN  Times(Output_load, ee.counts.outputs, s)

(***************************************************************************)
(* Turntables, and the driver of an EX-Turntable.                          *)
(***************************************************************************)
\* addPosition inserts at the head: the newest value of an index counts.
addPosition(l, i, index, value) ==
  [l EXCEPT !.tables[i].positions = <<[id |-> index, value |-> value]>> \o @]

getPositionValue(t, position) ==
  IF Get(t.positions, position) = 0 THEN 0
  ELSE t.positions[Get(t.positions, position)].value

newTurntable(l, id, extt, vpin) ==
  [l EXCEPT !.tables = Append(@,
     [id |-> id, extt |-> extt, vpin |-> vpin, position |-> 0, previous |-> 0,
      moving |-> FALSE, positions |-> <<>>])]

getByVpin(l, vpin) == SelectInSeq(l.tables, LAMBDA t : t.extt /\ t.vpin = vpin)

DCCTurntable_create(l, id) == newTurntable(l, id, FALSE, NONE)

\* The device must exist, work and have no other turntable object.
EXTTTurntable_create(l, id, vpin) ==
  IF vpin \notin S.turntableVpins \/ S.turntableFailed \/ getByVpin(l, vpin) # 0 THEN l
  ELSE newTurntable(l, id, TRUE, vpin)

\* _broadcastStatus: the table object on the driver's vpin starts or stops.
broadcastStatus(l, vpin, status) ==
  LET i == getByVpin(l, vpin)
  IN  IF i = 0 THEN l ELSE [l EXCEPT !.tables[i].moving = status # 0]

\* Mutant: the start of the rotation is not noted as the previous status.
turntableWrite_NoPrevious(l, vpin, value, activity) ==
  LET status == IF activity < 4 THEN 1 ELSE l.dev.status
      n == [l EXCEPT !.dev.status = status, !.dev.activity = activity]
  IN  IF S.turntableFailed \/ vpin \notin S.turntableVpins \/ value < 0 THEN l
      ELSE IF activity < 4 THEN broadcastStatus(n, vpin, status) ELSE n

\* EXTurntable::_writeAnalogue; activities 0..3 set the table in motion.
turntableWrite(l, vpin, value, activity) ==
  LET status == IF activity < 4 THEN 1 ELSE l.dev.status
      n == [l EXCEPT !.dev = [status |-> status, previous |-> status, activity |-> activity]]
  IN  IF S.turntableFailed \/ vpin \notin S.turntableVpins \/ value < 0 THEN l
      ELSE IF activity < 4 THEN broadcastStatus(n, vpin, status) ELSE n

\* EXTurntable::_loop with the status byte the I2C read left in its buffer.
turntableLoop(l, byte) ==
  LET finished == byte # l.dev.previous /\ byte = 0
      n == [l EXCEPT !.dev.status = byte,
                     !.dev.previous = IF finished THEN byte ELSE @]
  IN  IF finished /\ l.dev.activity < 4
      THEN broadcastStatus(n, CHOOSE v \in S.turntableVpins : TRUE, byte) ELSE n

Turned(l, i, position) ==
  [l EXCEPT !.tables[i].previous = l.tables[i].position, !.tables[i].position = position % 64]

\* Position 0 of an EX-Turntable carries an activity, the others a turn.
EXTT_setPosition(l, i, position, activity) ==
  LET t == l.tables[i]
      value == IF position = 0 THEN 0 ELSE getPositionValue(t, position)
  IN  IF position # 0 /\ (activity > 1 \/ value = 0) THEN l
      ELSE turntableWrite(Turned(l, i, position), t.vpin, value, activity)

\* The value of a position of a DCC turntable is an accessory address and
\* a direction.
DCC_setPosition(l, i, position) ==
  LET value == getPositionValue(l.tables[i], position)
  IN  IF position = 0 \/ value = 0 THEN l
      ELSE setAccessory(Turned(l, i, position), value \div 2, value % 2 = 1)

\* Turntable::setPosition: not while the table moves.
setPosition(l, i, position, activity) ==
  IF l.tables[i].moving THEN l
  ELSE IF l.tables[i].extt THEN EXTT_setPosition(l, i, position, activity)
  ELSE DCC_setPosition(l, i, position)

(***************************************************************************)
(* Commands.  A command that the parser answers with <X> changes nothing.  *)
(***************************************************************************)
\* <T id DCC nn>: linear address 1 is decoder 1, subaddress 0.
linearAddress(nn) == 4 * ((nn - 1) \div 4 + 1) + ((nn - 1) % 4)

parseT(l, c) ==
  CASE c.op = "T" -> setClosed(l, c.id, c.close)
    [] c.op = "T-" -> [l EXCEPT !.turnouts = Without(@, c.id)]
    [] c.op = "TSERVO" -> ServoTurnout_create(l, c.id, c.data, TRUE)
    [] c.op = "TVPIN" -> VpinTurnout_create(l, c.id, c.vpin)
    [] c.op = "TDCC" -> IF c.nn \in 1..2048 THEN DCCTurnout_create(l, c.id, linearAddress(c.nn))
                        ELSE l

parseZ(l, c) ==
  LET i == Get(l.outputs, c.id)
  IN  CASE c.op = "Z" -> IF i = 0 THEN l ELSE activate(l, i, c.on)
        [] c.op = "Z+" -> IF c.flag \in 0..7 THEN Output_create(l, c.id, c.pin, c.flag, TRUE) ELSE l
        [] c.op = "Z-" -> [l EXCEPT !.outputs = Without(@, c.id)]

parseS(l, c) ==
  IF c.op = "S+" THEN Sensor_create(l, c.id, c.pin) ELSE Sensor_remove(l, c.id)

parseI(l, c) ==
  LET i == Get(l.tables, c.id)
      made == IF c.op = "IDCC" THEN DCCTurntable_create(l, c.id)
              ELSE EXTTTurntable_create(l, c.id, c.vpin)
  IN  CASE c.op \in {"IDCC", "IEXTT"} ->
             IF i # 0 \/ made = l THEN l ELSE addPosition(made, Len(made.tables), 0, 0)
        [] c.op = "IADD" -> IF i = 0 \/ c.position > 48 THEN l
                            ELSE addPosition(l, i, c.position, c.value)
        [] c.op = "I2" -> IF i = 0 \/ l.tables[i].extt THEN l
                          ELSE setPosition(l, i, c.position, 0)
        [] c.op = "I3" -> IF i = 0 \/ ~l.tables[i].extt THEN l
                          ELSE setPosition(l, i, c.position, c.activity)

\* Messages of the LCN master: turnout state (t T), turnout command (y Y),
\* sensor state (S s).  Unknown turnouts and sensors are created.
LCN_loop(l, c) ==
  CASE c.op = "LT" -> setClosedStateOnly(
                        IF Get(l.turnouts, c.id) = 0 THEN LCNTurnout_create(l, c.id) ELSE l,
                        c.id, c.close)
    [] c.op = "LY" -> setClosed(l, c.id, c.close)
    [] c.op = "LS" -> setState(IF Get(l.sensors, c.id) = 0 THEN Sensor_create(l, c.id, NONE)
                               ELSE l, c.id, c.on)

TurnoutOps == {"T", "T-", "TSERVO", "TVPIN", "TDCC", "LT", "LY"}

Do(l, c) ==
  CASE c.op \in {"T", "T-", "TSERVO", "TVPIN", "TDCC"} -> parseT(l, c)
    [] c.op \in {"Z", "Z+", "Z-"} -> parseZ(l, c)
    [] c.op \in {"S+", "S-"} -> parseS(l, c)
    [] c.op \in {"IDCC", "IEXTT", "IADD", "I2", "I3"} -> parseI(l, c)
    [] c.op \in {"LT", "LY", "LS"} -> LCN_loop(l, c)
    [] c.op = "DTT" -> turntableWrite(l, c.vpin, c.steps, c.activity)
    [] c.op = "E" -> EEStore_store(l)
    [] c.op = "e" -> EEStore_clear(l)

(***************************************************************************)
(* Behaviour                                                               *)
(***************************************************************************)
\* The commands that defined the layout before the first power-up.
Setup(cmds, l) ==
  LET f[i \in 0..Len(cmds)] ==
        IF i = 0 THEN l ELSE CHOOSE r \in {Do(x, cmds[i]) : x \in {f[i - 1]}} : TRUE
  IN  f[Len(cmds)]

EmptyEE == [counts |-> Zero, cell |-> [i \in 1..S.eeSize |-> 255]]

\* SensorGroup::prepareAll reads the pins of every group at power-up.
PowerUp(ee, in) ==
  [EEStore_init(ee) EXCEPT !.group = [v \in DOMAIN @ |-> in[v]]]

\* A command to the turntable that makes it turn.
Turns(c, l) ==
  /\ S.turntableVpins # {} /\ ~S.turntableFailed
  /\ \/ c.op = "DTT" /\ c.steps >= 0
     \/ /\ c.op = "I3" /\ Do(l, c) # l
        /\ c.position # 0 => getPositionValue(l.tables[Get(l.tables, c.id)], c.position) >= 0
  /\ c.activity < 4

Init ==
  /\ session \in DOMAIN Sessions
  /\ input = [v \in S.inputs |-> FALSE]
  /\ port = [v \in S.notify |-> FALSE]
  /\ lay = PowerUp(EEStore_store(Setup(S.setup, EEStore_init(EmptyEE))).ee, input)
  /\ busy = FALSE /\ beat = FALSE /\ pulse = FALSE
  /\ shift = "none" /\ spoilt = FALSE /\ apart = {} /\ unseen = {}
  /\ last = "start"
  /\ left = S.left

\* What the station would load if the power failed now.
Image(l) == EEStore_init(l.ee)

\* <E> saved the turnouts behind a removed one at new addresses, and this
\* turnout remembers an old one (_eepromAddress) that is not its own now.
Stale(l, t) ==
  /\ shift = "moved"
  /\ ~\E u \in ToSet(Image(l).turnouts) : u.id = t.id /\ u.type = t.type /\ u.address = t.address

\* A turnout that was loaded from the EEPROM is removed, or replaced.
Removes(l, n) ==
  \E t \in ToSet(l.turnouts) : t.address > 0 /\ \A u \in ToSet(n.turnouts) : u.address # t.address

\* <E> counts an LCN turnout that it does not store.
Miscounts(l) == \E t \in ToSet(l.turnouts) : t.type = LCN

\* A state change that goes to an address whose record has moved.
Strays(c, l) ==
  LET i == IF c.op \in {"T", "LY"} THEN Get(l.turnouts, c.id) ELSE 0
  IN  i # 0 /\ l.counts.turnouts > 0 /\ l.turnouts[i].address > 0 /\ Stale(l, l.turnouts[i])

\* <T id SERVO ...> of a thrown servo turnout keeps its state and moves the
\* servo to closed; a message of LCN sets the state alone.  The next <T id x>
\* puts that right, and a turnout of another type begins anew.
Apart(c, l, n) ==
  LET i == Get(l.turnouts, c.id)
      j == Get(n.turnouts, c.id)
      same == i # 0 /\ j # 0 /\ l.turnouts[i].type = n.turnouts[j].type
  IN  \/ c.op = "LT"
      \/ c.op = "TSERVO" /\ same /\ ~l.turnouts[i].closed
      \/ c.op \in {"TSERVO", "TVPIN", "TDCC"} /\ same /\ c.id \in apart

\* A sensor made on a pin that its driver has already seen active waits for
\* the next change.
Unseen(c) == c.op = "S+" /\ c.pin \in S.notify /\ port[c.pin]

With(set, x, in) == IF in THEN set \cup {x} ELSE set \ {x}

Command ==
  /\ left.commands > 0
  /\ \E c \in S.commands :
       /\ lay' = Do(lay, c)
       /\ busy' = (busy \/ Turns(c, lay))
       /\ last' = c.op
       /\ shift' = IF c.op = "E" /\ shift = "removed" THEN "moved"
                   ELSE IF Removes(lay, lay') /\ shift = "none" THEN "removed" ELSE shift
       /\ spoilt' = IF c.op = "E" THEN Miscounts(lay) ELSE spoilt \/ Strays(c, lay)
       /\ apart' = IF c.op \in TurnoutOps THEN With(apart, c.id, Apart(c, lay, lay')) ELSE apart
       /\ unseen' = IF c.op \in {"S+", "S-"} THEN With(unseen, c.id, Unseen(c)) ELSE unseen
  /\ left' = [left EXCEPT !.commands = @ - 1]
  /\ UNCHANGED <<session, input, port, beat, pulse>>

\* An input pin changes level (external).
Flip ==
  /\ left.flips > 0
  /\ \E v \in S.inputs : input' = [input EXCEPT ![v] = ~@]
  /\ left' = [left EXCEPT !.flips = @ - 1]
  /\ last' = "input"
  /\ UNCHANGED <<session, lay, port, busy, ghosts>>

\* Sensor::checkAll: the groups, then the sensors from the cursor on.
checkAll(due) ==
  /\ lay' = checkAllFrom(checkGroups(lay), due)
  /\ last' = "loop"
  /\ beat' = IF due /\ S.inputs # {} THEN ~beat ELSE beat
  /\ UNCHANGED <<session, input, port, busy, shift, spoilt, apart, unseen, pulse, left>>

\* The GPIO driver finds a changed pin and calls back; a pin that was never
\* made an input reads as inactive.
Changed(v) == v \in lay.inUse /\ port[v] # input[v]

Notify ==
  /\ \E v \in S.notify :
       LET on == SelectSeq(lay.sensors, LAMBDA s : s.pin = v)
       IN  /\ Changed(v)
           /\ port' = [port EXCEPT ![v] = input[v]]
           /\ lay' = inputChangeCallback(lay, v, input[v])
           /\ unseen' = {id \in unseen \cup {s.id : s \in ToSet(on)} : on # <<>> => id # on[1].id}
  /\ last' = "loop"
  /\ UNCHANGED <<session, input, busy, shift, spoilt, apart, beat, pulse, left>>

\* A poll of the EX-Turntable; a failed read leaves the buffer as it was.
PollTurntable ==
  /\ ~S.turntableFailed /\ S.turntableVpins # {}
  /\ \/ lay' = turntableLoop(lay, Bit(busy)) /\ pulse' = ~pulse /\ left' = left
     \/ /\ left.garbled > 0
        /\ \E byte \in 0..2 : lay' = turntableLoop(lay, byte)
        /\ left' = [left EXCEPT !.garbled = @ - 1]
        /\ pulse' = pulse
  /\ last' = "loop"
  /\ UNCHANGED <<session, input, port, busy, shift, spoilt, apart, unseen, beat>>

\* The turntable reaches its position (external).
Arrive ==
  /\ busy
  /\ busy' = FALSE
  /\ last' = "arrive"
  /\ UNCHANGED <<session, lay, input, port, ghosts, left>>

\* The power fails and comes back; the EEPROM is all that is left.
PowerCycle ==
  /\ left.cuts > 0
  /\ lay' = PowerUp(lay.ee, input)
  /\ port' = [v \in S.notify |-> FALSE]
  /\ left' = [left EXCEPT !.cuts = @ - 1]
  /\ last' = "power"
  /\ shift' = "none" /\ apart' = {} /\ unseen' = {}
  /\ UNCHANGED <<session, input, busy, spoilt, beat, pulse>>

Next ==
  \/ Command \/ Flip \/ Notify \/ PollTurntable \/ Arrive \/ PowerCycle
  \/ \E due \in BOOLEAN : checkAll(due)

\* loop() calls Sensor::checkAll and IODevice::loop for ever, and the
\* cycle interval and the poll interval pass: scans that are due and good
\* polls go on, changed pins are noticed, a turntable arrives.
Fairness ==
  /\ WF_beat(S.inputs # {} /\ beat' = ~beat)
  /\ WF_pulse(S.turntableVpins # {} /\ ~S.turntableFailed /\ pulse' = ~pulse)
  /\ WF_port(\E v \in S.notify : Changed(v) /\ port' = [port EXCEPT ![v] = input[v]])
  /\ WF_busy(busy /\ busy' = FALSE)

Spec == Init /\ [][Next]_vars /\ Fairness

(***************************************************************************)
(* Properties                                                              *)
(***************************************************************************)
Definitions(l) ==
  [turnouts |-> {<<t.id, t.type, t.data>> : t \in {u \in ToSet(l.turnouts) : u.type # LCN}},
   sensors |-> {<<s.id, s.pin>> : s \in ToSet(l.sensors)},
   outputs |-> {<<o.id, o.pin, o.flags>> : o \in ToSet(l.outputs)}]

\* Whenever the power fails, an output stored in the EEPROM comes back as
\* it was last activated (or at its default), and a turnout loaded from
\* the EEPROM comes back in its place, if <E> did not move it; servo and pin
\* turnouts with the state they were last set to (Turnout::setClosed).  At all
\* times, right after power-up too, every output pin is at the level of its
\* output's state and every servo at the position of its turnout's.  Not so
\* once the EEPROM is spoilt (see StoreDefines), and for a turnout that was
\* redefined while thrown or set by LCN (until the next <T>).
StatesKept ==
  LET m == Image(lay)
  IN  ~spoilt =>
      /\ lay.counts.outputs > 0 =>
           \A o \in ToSet(lay.outputs) : o.num > 0 =>
             \E p \in ToSet(m.outputs) :
               /\ p.id = o.id /\ p.pin = o.pin /\ p.num = o.num
               /\ p.active = (IF setDefault(o) THEN defaultValue(o) ELSE o.active)
      /\ lay.counts.turnouts > 0 =>
           \A t \in ToSet(lay.turnouts) : t.address > 0 /\ ~Stale(lay, t) =>
             \E u \in ToSet(m.turnouts) :
               /\ u.id = t.id /\ u.type = t.type /\ u.address = t.address
               /\ t.type # DCC /\ t.id \notin apart => u.closed = t.closed
      /\ \A o \in ToSet(lay.outputs) : lay.pin[o.pin] = Level(o)
      /\ \A t \in ToSet(lay.turnouts) : t.type = SERVO /\ t.id \notin apart =>
           lay.pin[t.data[1]] = (IF t.closed THEN t.data[3] ELSE t.data[2])

\* After <E> the EEPROM defines the objects that are in RAM, all of them, if
\* none is an LCN turnout, which is counted and not stored.  No step but <E>
\* and <e> then changes what the next power-up will define: the single bytes
\* that later state changes write hit no definition, unless a turnout loaded
\* from the EEPROM wrote to the address it remembers after <E> had moved its
\* record (spoilt, until the next <E>).
StoreDefines ==
  [][/\ last' = "E" /\ ~spoilt' => Definitions(Image(lay')) = Definitions(lay')
     /\ last' \notin {"E", "e"} /\ lay'.ee # lay.ee /\ ~spoilt' =>
          Definitions(Image(lay')) = Definitions(Image(lay))]_vars

\* The input a sensor stands for: its pin, or what LCN said.
Wanted(s) == IF s.pin = NONE THEN s.inputState ELSE input[s.pin]
Due(id) ==
  LET i == Get(lay.sensors, id)
  IN  i # 0 /\ id \notin unseen /\ Wanted(lay.sensors[i]) # lay.sensors[i].active

\* A sensor that differs from its input does not stay so: it is reported,
\* removed, or the input goes back, whatever other sensors are created,
\* removed or reported meanwhile under the scan's cursor (Sensor::checkAll).
\* Not so on a notifying pin for a sensor created after its driver had seen
\* the pin active, or behind another sensor of the pin: the callback of the
\* last change did not reach it, and it waits for the next one.
Reported == \A id \in SensorIds : Due(id) ~> ~Due(id)

Moving(id) ==
  LET i == Get(lay.tables, id) IN i # 0 /\ lay.tables[i].moving

\* A turntable that was set in motion by <I> becomes free for the next
\* <I> again (EXTurntable::_loop, Turntable::setPosition).
TableFree == \A id \in TableIds : Moving(id) ~> ~Moving(id)

============================================================================
