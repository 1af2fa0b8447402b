--------------------------------- MODULE HAL --------------------------------
(***************************************************************************)
(* The HAL at work: the main loop calls IODevice::loop, which gives one    *)
(* device its turn; other parts of the command station read and write      *)
(* pins; the I2C bus completes requests; time passes; the world changes    *)
(* the inputs; a chip loses and regains power.                             *)
(***************************************************************************)
EXTENDS HALDevices

CONSTANTS
  Sessions,    \* name -> [setups, calls, events, faults, maxCalls, maxEvents, maxFaults, fine];
               \* fine: timers run out one by one, not only together
  Junk         \* values an uninitialised port register may hold

VARIABLES
  h,           \* the HAL (HALDevices)
  session,     \* the session this behaviour belongs to
  left,        \* [calls, events, faults] the session may still make
  want,        \* vpin -> value last written to it by a call, and not since forgotten by the code
  lost,        \* device -> its pins the driver has lost track of (see Losses)
  beat         \* toggles with every IODevice::loop

vars == <<h, session, left, want, lost, beat>>

S == Sessions[session]

(* ---- Creation.                                                          *)
NewDevice(c, junk) ==
  CASE c.kind \in Expanders       -> GPIOBase(c, junk)
    [] c.kind = "ArduinoPins"     -> ArduinoPins(c)
    [] c.kind = "PCA9685"         -> PCA9685(c)
    [] c.kind = "PCA9685pwm"      -> PCA9685pwm(c)
    [] c.kind = "EXIOExpander"    -> EXIOExpander(c)
    [] c.kind = "ADS111x"         -> ADS111x(c)
    [] c.kind = "TCA8418"         -> TCA8418(c)
    [] c.kind = "RotaryEncoder"   -> RotaryEncoder(c)
    [] c.kind = "TouchKeypad"     -> TouchKeypad(c)
    [] c.kind = "duinoNodes"      -> duinoNodes(c)
    [] c.kind = "HCSR04"          -> HCSR04(c)
    [] c.kind = "EXSensorCAM"     -> EXSensorCAM(c)
    [] c.kind = "TM1638"          -> TM1638(c)
    [] c.kind = "Trainbrains"     -> Trainbrains(c)
    [] c.kind = "DS1307"          -> DS1307(c)
    [] c.kind = "EXFastClock"     -> EXFastClock(c)
    [] c.kind = "I2CRailcom"      -> I2CRailcom(c)
    [] c.kind = "VL53L0X"         -> VL53L0X(c)
    [] c.kind = "DFPlayer"        -> DFPlayer(c)
    [] c.kind = "NeoPixel"        -> NeoPixel(c)
    [] c.kind = "HALDisplay"      -> HALDisplay(c)
    [] c.kind = "DCCAccessoryDecoder" -> DCCAccessoryDecoder(c)
    [] c.kind = "Bitmap"          -> Bitmap(c)

(* _begin of the driver.                                                   *)
Begun(d, constructing) ==
  CASE d.kind \in Expanders     -> GPIO_begin(d, constructing)
    [] d.kind = "PCA9685"       -> PCA9685_begin(d)
    [] d.kind = "PCA9685pwm"    -> PCA9685pwm_begin(d)
    [] d.kind = "EXIOExpander"  -> EXIO_begin(d)
    [] d.kind = "ADS111x"       -> ADS_begin(d)
    [] d.kind = "TCA8418"       -> TCA_begin(d)
    [] d.kind = "RotaryEncoder" -> Rotary_begin(d)
    [] d.kind = "duinoNodes"    -> duino_begin(d)
    [] d.kind = "HCSR04"        -> HCSR04_begin(d)
    [] d.kind = "EXSensorCAM"   -> CAM_begin(d)
    [] d.kind = "TM1638"        -> TM_begin(d)
    [] d.kind = "Trainbrains"   -> TB_begin(d)
    [] d.kind = "DS1307"        -> DS_begin(d)
    [] d.kind = "EXFastClock"   -> Fast_begin(d)
    [] d.kind = "I2CRailcom"    -> Railcom_begin(d)
    [] d.kind = "VL53L0X"       -> VL53_begin(d)
    [] d.kind = "DFPlayer"      -> DFPlayer_begin(d)
    [] d.kind = "NeoPixel"      -> Neo_begin(d)
    [] d.kind = "HALDisplay"    -> Display_begin(d)
    [] d.kind = "Bitmap"        -> Bitmap_begin(d)
    [] OTHER                    -> d

beginDevice(x, id, constructing) ==
  [Put(x, id, Begun(x.dev[id], constructing)) EXCEPT !.flag = IF x.dev[id].kind = "VL53L0X" THEN FALSE ELSE @]

(* addDevice: at the end of the chain, or in front of the slave.           *)
addDevice(x, d, slave) ==
  LET id == Len(x.dev) + 1
      at == IF slave = 0 THEN Len(x.chain) + 1 ELSE Position(x, slave)
  IN  beginDevice([x EXCEPT !.dev = Append(@, d), !.chain = InsertAt(@, at, id)], id, TRUE)

(* Servo::create checks no overlap: it is put in front of the device that  *)
(* owns its pins, which has to own all of them.                            *)
NewServo(x, c) ==
  LET slave == findDevice(x, c.firstSlavePin)
      d == Servo([c EXCEPT !.slave = slave])
  IN  addDevice(x, IF slave = 0 \/ slave # findDevice(x, c.firstSlavePin + c.n - 1) THEN Failed(d) ELSE d, slave)

(* PCF8574's constructor sets the port up after addDevice, when an initial *)
(* state has been given.                                                   *)
InitialPort(x, id, c) ==
  LET d == x.dev[id]
  IN  IF c.kind # "PCF8574" \/ c.init = <<>> THEN x
      ELSE Put(x, id, writeGpioPort([d EXCEPT !.portMode = All(d, 1), !.portInUse = All(d, 1),
                                              !.portOutputState = c.init]))

(* The EncoderThrottle's constructor makes its three pins inputs.          *)
NewEncoder(x, c) ==
  LET input(y, v) == LET id == findDevice(y, v)
                     IN  IF id = 0 THEN y ELSE Put(y, id, Arduino_configure(y.dev[id], v - y.dev[id].first, 1))
  IN  addDevice(FoldLeft(input, x, <<c.dt, c.clk, c.click>>),
        Device("EncoderThrottle", c.first, 1, 0,
          [dt |-> c.dt, clk |-> c.clk, click |-> c.click, notch |-> c.notch, locoid |-> 0, stop |-> "STOP",
           roco |-> 0, prev |-> 4, hw |-> NoChip]), 0)

(* Given a loco, it takes the direction from it if it is moving.           *)
Encoder_writeAnalogue(d, loco, locoid, notch) ==
  [d EXCEPT !.locoid = locoid, !.notch = IF notch > 0 THEN notch ELSE @, !.roco = 0,
            !.stop = IF locoid > 0 /\ loco.speed > 1 THEN IF loco.forward THEN "FWD" ELSE "REV" ELSE "STOP"]

create(x, c, junk) ==
  CASE c.kind = "Servo" -> NewServo(x, c)
    [] c.kind = "EncoderThrottle" -> IF checkNoOverlap(x, c.first, 1, 0) THEN NewEncoder(x, c) ELSE x
    [] OTHER ->
         IF checkNoOverlap(x, c.first, c.n, c.addr)
         THEN InitialPort(addDevice(x, NewDevice(c, junk), 0), Len(x.dev) + 1, c) ELSE x

CreateAll(x, cs, junk) == FoldLeft(LAMBDA y, c : create(y, c, junk), x, cs)

(* The devices created by default, unless the user's setup took their pins *)
(* or addresses, or its second part asked for no defaults.                 *)
Defaults ==
  <<[kind |-> "PCA9685", first |-> 100, n |-> 16, addr |-> 64],
    [kind |-> "PCA9685", first |-> 116, n |-> 16, addr |-> 65],
    [kind |-> "MCP23017", first |-> 164, n |-> 16, addr |-> 32, intPin |-> FALSE, ext |-> [p \in 0 .. 15 |-> 1]],
    [kind |-> "MCP23017", first |-> 180, n |-> 16, addr |-> 33, intPin |-> FALSE, ext |-> [p \in 0 .. 15 |-> 1]]>>

(* IODevice::begin: pins, halSetup, exrailHalSetup1, defaults.             *)
HAL_begin(setup, junk) ==
  CreateAll(Empty, setup.devices \o IF setup.ignoreDefaults THEN <<>> ELSE Defaults, junk)

(* ---- Operations on pins.                                                *)
configureInput(x, vpin, pullup) ==
  LET id == findDevice(x, vpin)
      d == x.dev[id]
  IN  CASE id # 0 /\ d.kind \in Expanders     -> Put(x, id, GPIO_configure(d, vpin - d.first, pullup))
        [] id # 0 /\ d.kind = "ArduinoPins"   -> Woken(Put(x, id, Arduino_configure(d, vpin - d.first, pullup)))
        [] id # 0 /\ d.kind = "EXIOExpander"  -> Put(x, id, EXIO_configure(d, vpin - d.first))
        [] OTHER -> x

configureServo(x, vpin, p) ==
  LET id == findDevice(x, vpin)
      d == x.dev[id]
  IN  CASE id # 0 /\ d.kind = "PCA9685" -> Put(x, id, PCA9685_configure(d, vpin - d.first, p))
        [] id # 0 /\ d.kind = "Servo"   -> Put(x, id, Servo_configure(d, vpin - d.first, p))
        [] OTHER -> x

configureAnalogIn(x, vpin) ==
  LET id == findDevice(x, vpin)
      d == x.dev[id]
  IN  CASE id # 0 /\ d.kind = "ArduinoPins"  -> Woken(Put(x, id, Arduino_configureAnalogIn(d, vpin - d.first)))
        [] id # 0 /\ d.kind = "EXIOExpander" -> Put(x, id, EXIO_configureAnalogIn(d, vpin - d.first))
        [] OTHER -> x

(* _read of the drivers: the device after it and the value.                *)
ReadDevice(d, pin, junk) ==
  LET is(v) == [d |-> d, value |-> v]
      port(r) == [d |-> r, value |-> 1 - r.portInputState[pin]]
  IN  CASE d.kind \in Expanders    -> port(GPIO_read(d, pin, junk))
        [] d.kind = "ArduinoPins"  -> Arduino_read(d, pin)
        [] d.kind \in {"PCA9685", "Servo"} -> is(Servo_read(d, pin))
        [] d.kind = "EXIOExpander" -> is(EXIO_read(d, pin))
        [] d.kind = "TCA8418"      -> is(TCA_read(d, pin))
        [] d.kind = "Trainbrains"  -> [d |-> TB_read(d), value |-> IF d.hw.up THEN d.hw.digital[pin] ELSE 0]
        [] d.kind \in {"TouchKeypad", "duinoNodes", "EXSensorCAM", "TM1638"} -> is(d.digital[pin])
        [] d.kind \in {"HCSR04", "VL53L0X"} -> is(d.value)
        [] d.kind = "DFPlayer"     -> is(Bit(d.playing))
        [] d.kind = "NeoPixel"     -> is(Bit(d.state # "FAILED" /\ d.on[pin]))
        [] d.kind = "Bitmap"       -> is(Bitmap_read(d, pin))
        [] OTHER                   -> is(0)

read(x, vpin, junk) ==
  LET id == findDevice(x, vpin)
      got(r) == [h |-> Woken(Put(x, id, r.d)), value |-> r.value]
  IN  IF id = 0 THEN [h |-> x, value |-> 0]
      ELSE got(ReadDevice(x.dev[id], vpin - x.dev[id].first, junk))

(* _write and _writeAnalogue of the drivers.                               *)
WriteDevice(d, pin, value) ==
  CASE d.kind \in Expanders     -> GPIO_write(d, pin, value)
    [] d.kind = "ArduinoPins"   -> Arduino_write(d, pin, value)
    [] d.kind = "PCA9685"       -> PCA9685_write(d, pin, value)
    [] d.kind = "Servo"         -> Servo_write(d, pin, value)
    [] d.kind = "EXIOExpander"  -> EXIO_write(d, pin, value)
    [] d.kind = "RotaryEncoder" -> Rotary_write(d, pin, value)
    [] d.kind = "duinoNodes"    -> duino_write(d, pin, value)
    [] d.kind = "TM1638"        -> TM_writeLed(d, pin, value)
    [] d.kind = "Trainbrains"   -> TB_write(d, pin, value)
    [] d.kind = "DFPlayer"      -> DF_write(d, pin, value)
    [] d.kind = "NeoPixel"      -> Neo_write(d, pin, value)
    [] d.kind = "DCCAccessoryDecoder" -> DCCAcc_write(d, pin, value)
    [] d.kind = "Bitmap"        -> Bitmap_write(d, pin, value)
    [] OTHER                    -> d

write(x, vpin, value) ==
  LET id == findDevice(x, vpin)
  IN  IF id = 0 THEN x ELSE Woken(Put(x, id, WriteDevice(x.dev[id], vpin - x.dev[id].first, value)))

(* a.value with its two parameters, named as the driver uses them.         *)
WriteAnalogueDevice(d, pin, a) ==
  CASE d.kind = "PCA9685"       -> PCA9685_writeAnalogue(d, pin, a.value, a.profile, a.duration)
    [] d.kind = "Servo"         -> Servo_writeAnalogue(d, pin, a.value, a.profile, a.duration)
    [] d.kind = "PCA9685pwm"    -> PCA9685pwm_writeAnalogue(d, pin, a.value)
    [] d.kind = "EXIOExpander"  -> EXIO_writeAnalogue(d, pin, a.value)
    [] d.kind = "RotaryEncoder" -> Rotary_writeAnalogue(d, pin, a.value)
    [] d.kind = "EXSensorCAM"   -> CAM_writeAnalogue(d, a.op, a.count)
    [] d.kind = "TM1638"        -> TM_writeAnalogue(d, pin, a.value, a.len)
    [] d.kind = "Trainbrains"   -> TB_writeAnalogue(d, pin, a.value)
    [] d.kind = "DS1307"        -> DS_writeAnalogue(d, a.value)
    [] d.kind = "DFPlayer"      -> DF_writeAnalogue(d, a.value, a.v2, a.cmd)
    [] d.kind = "NeoPixel"      -> Neo_writeAnalogue(d, pin, a.value, a.on)
    [] d.kind = "Bitmap"        -> Bitmap_writeAnalogue(d, pin, a.value)
    [] OTHER                    -> d

writeAnalogue(x, vpin, a) ==
  LET id == findDevice(x, vpin)
      d == x.dev[id]
  IN  CASE id # 0 /\ d.kind = "EncoderThrottle" -> Put(x, id, Encoder_writeAnalogue(d, x.loco, a.value, a.notch))
        [] id # 0 /\ d.kind # "EncoderThrottle" -> Put(x, id, WriteAnalogueDevice(d, vpin - d.first, a))
        [] OTHER -> x

(* writeRange: pins without a device are skipped; a device takes one pin,  *)
(* a NeoPixel as many as it can.                                           *)
Taken(x, vpin, count) ==
  LET id == findDevice(x, vpin)
  IN  IF id # 0 /\ x.dev[id].kind = "NeoPixel" THEN Neo_rangeTaken(x.dev[id], count) ELSE 1

writeRange(x, vpin, value, count) ==
  LET step(s, k) ==
        LET id == findDevice(s.x, s.at)
            d == s.x.dev[id]
            taken == Taken(s.x, s.at, s.left)
        IN  IF s.left = 0 THEN s
            ELSE [x |-> CASE id = 0 -> s.x
                          [] id # 0 /\ d.kind = "NeoPixel" ->
                               Put(s.x, id, Neo_writeRange(d, s.at - d.first, value, s.left))
                          [] OTHER -> write(s.x, s.at, value),
                  at |-> s.at + taken, left |-> s.left - taken]
  IN  FoldLeft(step, [x |-> x, at |-> vpin, left |-> count], [k \in 1 .. count |-> k]).x

writeAnalogueRange(x, vpin, a, count) ==
  LET step(s, k) ==
        LET id == findDevice(s.x, s.at)
            d == s.x.dev[id]
            taken == Taken(s.x, s.at, s.left)
        IN  IF s.left = 0 THEN s
            ELSE [x |-> CASE id = 0 -> s.x
                          [] id # 0 /\ d.kind = "NeoPixel" ->
                               Put(s.x, id, Neo_writeAnalogueRange(d, s.at - d.first, a.value, a.on, s.left))
                          [] OTHER -> writeAnalogue(s.x, s.at, a),
                  at |-> s.at + taken, left |-> s.left - taken]
  IN  FoldLeft(step, [x |-> x, at |-> vpin, left |-> count], [k \in 1 .. count |-> k]).x

isBusy(x, vpin, junk) == read(x, vpin, junk)

(* ---- EncoderThrottle: drives a loco by three pins of other devices.     *)
(* The table gives the next state, and the turn completed by the step.     *)
transition_table ==
  [s \in 0 .. 4 |-> CASE s = 0 -> <<0, 1, 3, 0>> [] s = 1 -> <<1, 1, 1, 2>> [] s = 2 -> <<2, 2, 0, 2>>
                      [] s = 3 -> <<3, 3, 3, 4>> [] OTHER -> <<4, 0, 4, 4>>]

Turn(state, pins) == IF pins # 3 THEN 0 ELSE IF state = 1 THEN 1 ELSE IF state = 3 THEN -1 ELSE 0

(* The speed after one notch up or down: 1 is the emergency stop.          *)
Notched(speed, notch, change) ==
  LET old == IF speed = 1 THEN 0 ELSE speed
      new == IF change > 0 THEN IF old + notch < 126 THEN old + notch ELSE 126
             ELSE IF old - notch > 0 THEN old - notch ELSE 0
  IN  [old |-> old, new |-> IF new = 1 THEN 0 ELSE new]

Turned_unlatched(x, id, change) ==   \* mutant: every turn sets the direction
  LET d == x.dev[id]
      stop == IF change > 0 THEN "FWD" ELSE "REV"
      s == Notched(x.loco.speed, d.notch, IF stop = "REV" THEN -change ELSE change)
  IN  [Put(x, id, [d EXCEPT !.stop = stop]) EXCEPT
         !.loco = IF s.old = s.new THEN @ ELSE [speed |-> s.new, forward |-> stop = "FWD"]]

Turned(x, id, change) ==
  LET d == x.dev[id]
      stop == IF d.stop = "STOP" THEN IF change > 0 THEN "FWD" ELSE "REV" ELSE d.stop
      s == Notched(x.loco.speed, d.notch, IF stop = "REV" THEN -change ELSE change)
  IN  [Put(x, id, [d EXCEPT !.stop = stop]) EXCEPT
         !.loco = IF s.old = s.new THEN @ ELSE [speed |-> s.new, forward |-> stop = "FWD"]]

(* _loop: click, dt and clk are the readings of the pins, in this order.   *)
Encoder_pins(x, id, pins) ==
  LET d == x.dev[id]
      moved == Put(x, id, [d EXCEPT !.prev = pins, !.roco = transition_table[d.roco][pins + 1]])
  IN  IF pins = d.prev THEN x
      ELSE IF Turn(d.roco, pins) = 0 THEN moved ELSE Turned(moved, id, Turn(d.roco, pins))

Encoder_clk(dt, clk, id) == Encoder_pins(clk.h, id, 2 * dt.value + clk.value)

Encoder_dt(dt, id) == Encoder_clk(dt, read(dt.h, dt.h.dev[id].clk, 0), id)

Encoder_click(click, id) ==
  LET d == click.h.dev[id]
  IN  IF click.value = 0 THEN Encoder_dt(read(click.h, d.dt, 0), id)
      ELSE IF d.stop = "STOP" THEN click.h
      ELSE [Put(click.h, id, [d EXCEPT !.stop = "STOP"]) EXCEPT !.loco.speed = 1]

Encoder_loop(x, id) ==
  IF x.dev[id].locoid = 0 THEN x ELSE Encoder_click(read(x, x.dev[id].click, 0), id)

(* ---- VL53L0X: the steps that use the bus, the pins or the shared flag.  *)
VL53_next(x, id, state) == Put(x, id, delayUntil([x.dev[id] EXCEPT !.nextState = state]))

VL53_init(x, id) ==
  LET d == x.dev[id]
  IN  IF Sensors(x, d.addr) # {} THEN Put(x, id, [d EXCEPT !.nextState = "CONFIGUREDEVICE"])
      ELSE VL53_next(write(x, d.xshut, 0), id, "RESTARTMODULE")

VL53_restart(x, id) ==
  IF x.flag THEN x
  ELSE VL53_next(configureInput([x EXCEPT !.flag = TRUE], x.dev[id].xshut, 0), id, "CONFIGUREADDRESS")

VL53_address(x, id) ==
  VL53_next(IF Sensors(x, DefaultAddress) = {} THEN Put(x, id, VL53_failed(x.dev[id]))
            ELSE TakeAddress(x, x.dev[id].addr),
            id, "CONFIGUREDEVICE")

VL53_device(x, id) ==
  LET d == x.dev[id]
  IN  [Put(x, id, IF Sensors(x, d.addr) # {} THEN [d EXCEPT !.nextState = "INITIATESCAN"]
                  ELSE Failed([d EXCEPT !.nextState = "FAILED"])) EXCEPT !.flag = FALSE]

VL53_loop(x, id) ==
  LET s == x.dev[id].nextState
  IN  CASE s = "INIT"             -> VL53_init(x, id)
        [] s = "RESTARTMODULE"    -> VL53_restart(x, id)
        [] s = "CONFIGUREADDRESS" -> VL53_address(x, id)
        [] s = "CONFIGUREDEVICE"  -> VL53_device(x, id)
        [] OTHER                  -> Put(x, id, VL53_scan(x.dev[id]))

(* The answer comes from whichever sensors answer to the address.          *)
VL53_answered(x, id) ==
  LET d == x.dev[id]
      from == Sensors(x, d.addr)
  IN  IF from = {} THEN {Put(x, id, [d EXCEPT !.rb = "ERROR"])}
      ELSE {Put(x, id, [d EXCEPT !.rb = "OK", !.buf = x.dev[f].hw.value]) : f \in from}

(* ---- IODevice::loop: the next device in the chain that is ready.        *)
LoopDevice(d, junk) ==
  CASE d.kind \in Expanders     -> {GPIO_loop(d)}
    [] d.kind = "PCA9685"       -> {PCA9685_loop(d)}
    [] d.kind = "EXIOExpander"  -> {EXIO_loop(d)}
    [] d.kind = "ADS111x"       -> {ADS_loop(d)}
    [] d.kind = "TCA8418"       -> {TCA_loop(d)}
    [] d.kind = "RotaryEncoder" -> {Rotary_loop(d)}
    [] d.kind = "TouchKeypad"   -> {Touch_loop(d)}
    [] d.kind = "duinoNodes"    -> {duino_loop(d)}
    [] d.kind = "HCSR04"        -> HCSR04_loop(d)
    [] d.kind = "EXSensorCAM"   -> {CAM_loop(d)}
    [] d.kind = "TM1638"        -> {TM_loop(d)}
    [] d.kind = "DS1307"        -> {DS_loop(d)}
    [] d.kind = "EXFastClock"   -> {Fast_loop(d, junk)}
    [] d.kind = "I2CRailcom"    -> {Railcom_loop(d)}
    [] d.kind = "DFPlayer"      -> {DF_loop(d)}
    [] d.kind = "NeoPixel"      -> {Neo_loop(d)}
    [] d.kind = "HALDisplay"    -> {Display_loop(d)}
    [] OTHER                    -> {delayUntil(d)}

loopDevice(x, id, junk) ==
  LET d == x.dev[id]
      r == Servo_loop(d, x.dev[d.slave])
  IN  CASE d.kind = "VL53L0X"         -> {VL53_loop(x, id)}
        [] d.kind = "EncoderThrottle" -> {Encoder_loop(x, id)}
        [] d.kind = "Servo"           -> {Put(Put(x, id, r.f), d.slave, r.s)}
        [] OTHER                      -> {Put(x, id, y) : y \in LoopDevice(d, junk)}

Ready(x, id) == x.dev[id].state # "FAILED" /\ "loop" \in x.dev[id].due

RoundRobin_first(x) == [k \in 1 .. Len(x.chain) |-> k]   \* mutant: always from _firstDevice

(* The positions of the chain in the order loop() looks at them.           *)
RoundRobin(x) ==
  LET from == IF x.cursor = 0 THEN 1 ELSE Position(x, x.cursor)
  IN  [k \in 1 .. Len(x.chain) |-> ((from + k - 2) % Len(x.chain)) + 1]

loop(x, junk) ==
  LET order == SelectSeq(RoundRobin(x), LAMBDA i : Ready(x, x.chain[i]))
      i == Head(order)
      next == IF i = Len(x.chain) THEN 0 ELSE x.chain[i + 1]
  IN  IF order = <<>> THEN {x}
      ELSE {[y EXCEPT !.cursor = next] : y \in loopDevice(x, x.chain[i], junk)}

(* <D HAL RESET>.  A chip that answers has been set up again by _begin.    *)
reset(x) ==
  LET again(y, id) ==
        LET d == y.dev[id]
        IN  beginDevice(Put(y, id, [d EXCEPT !.state = "DORMANT", !.due = @ \cup {"loop"},
                                        !.hw.disturbed = @ /\ ~d.hw.up]), id, FALSE)
  IN  FoldLeft(again, x, x.chain)

(* ---- What the world does to a device.                                   *)
Changed(d, e) ==
  CASE e.what = "ext" /\ d.kind \in Expanders ->
         [d EXCEPT !.hw.ext[e.pin] = e.value,
                   !.hw.int = @ \/ (d.hw.up /\ d.hw.ext[e.pin] # e.value /\ (Class(d).quasi \/ d.hw.inten[e.pin] = 1))]
    [] e.what = "ext" /\ d.kind = "ArduinoPins" -> [d EXCEPT !.hw.ext[e.pin] = e.value]
    [] e.what = "digital"  -> [d EXCEPT !.hw.digital[e.pin] = e.value]
    [] e.what = "analogue" -> [d EXCEPT !.hw.analogue[e.pin] = e.value]
    [] e.what = "value"    -> [d EXCEPT !.hw.value = e.value]
    [] e.what = "key"      -> IF d.hw.digital[e.pin] = e.value THEN d
                              ELSE IF ~d.hw.up \/ d.hw.disturbed THEN [d EXCEPT !.hw.digital[e.pin] = e.value]
                              ELSE [d EXCEPT !.hw.digital[e.pin] = e.value, !.hw.int = TRUE,
                                             !.hw.events = Append(@, [key |-> e.pin + 1, down |-> e.value])]
    [] e.what = "ended"    -> IF d.hw.track = 0 THEN d
                              ELSE [d EXCEPT !.hw.track = 0, !.hw.finished = TRUE]
    [] e.what = "cutout"   -> [d EXCEPT !.hw.cutout = @ + 1, !.hw.value = IF d.hw.up THEN e.value ELSE @]

Timers(d) ==
  {"loop"} \cup
  CASE d.kind = "EXIOExpander"  -> {"digital", "analogue"}
    [] d.kind = "TCA8418"       -> {"event"}
    [] d.kind = "RotaryEncoder" -> {"position"}
    [] d.kind \in {"duinoNodes", "TM1638"} -> {"poll"}
    [] d.kind = "EXSensorCAM"   -> {"digital", "tstate"}
    [] d.kind = "DFPlayer"      -> {"init", "xmit", "repeat", "unlock"}
    [] OTHER                    -> {}

(* The timers that may run out next.  EXIOExpander::_loop looks at the     *)
(* analogue refresh (50ms) only when no digital one (10ms) is due: the     *)
(* main loop is taken to come round faster than that.                      *)
Running(d) ==
  (Timers(d) \ d.due) \ IF d.kind = "EXIOExpander" /\ "analogue" \in d.due THEN {"digital"} ELSE {}

Elapsed(x) ==
  [x EXCEPT !.dev = [id \in DOMAIN @ |-> [@[id] EXCEPT !.due = @ \cup Running(x.dev[id])]]]

Answer(x, id) ==
  IF x.dev[id].kind = "VL53L0X" THEN VL53_answered(x, id) ELSE {Put(x, id, Answered(x.dev[id]))}

(* SCREEN(display,row,text): setRow, then the characters.                  *)
Screen(d, row, text) == FoldLeft(Display_write, Display_setRow(d, row), text)

Called(x, o, junk) ==
  CASE o.op = "write"          -> write(x, o.vpin, o.value)
    [] o.op = "writeRange"     -> writeRange(x, o.vpin, o.value, o.count)
    [] o.op = "writeAnalogue"  -> writeAnalogue(x, o.vpin, o.a)
    [] o.op = "writeAnalogueRange" -> writeAnalogueRange(x, o.vpin, o.a, o.count)
    [] o.op = "read"           -> read(x, o.vpin, junk).h
    [] o.op = "isBusy"         -> isBusy(x, o.vpin, junk).h
    [] o.op = "configureInput" -> configureInput(x, o.vpin, o.value)
    [] o.op = "configureServo" -> configureServo(x, o.vpin, o.p)
    [] o.op = "configureAnalogIn" -> configureAnalogIn(x, o.vpin)
    [] o.op = "screen"         -> Put(x, o.dev, Screen(x.dev[o.dev], o.row, o.text))
    [] o.op = "throttle"       -> [x EXCEPT !.loco.speed = o.value]
    [] o.op = "reset"          -> reset(x)

(* A write that the driver does not ignore and that reaches the chip; the  *)
(* expanders keep theirs, and send it again after a reset.                 *)
Accepts(x, o) ==
  LET d == x.dev[findDevice(x, o.vpin)]
  IN  /\ o.op = "write" \/ (o.op = "writeAnalogue" /\ d.kind \notin {"TM1638", "NeoPixel"})
      /\ findDevice(x, o.vpin) # 0
      /\ d.kind \in Expanders \/ (d.state # "FAILED" /\ d.hw.up)

PinsOf(d) == d.first .. d.first + d.n - 1

Without(w, vpins) == [v \in DOMAIN w \ vpins |-> w[v]]

(* A reset of the HAL darkens every TM1638 (TM1638::test).                 *)
Wanted(x, w, o) ==
  CASE o.op = "reset" -> Without(w, UNION {PinsOf(x.dev[i]) : i \in {j \in DOMAIN x.dev : x.dev[j].kind = "TM1638"}})
    [] o.op = "writeRange" -> [v \in o.vpin .. o.vpin + o.count - 1 |-> o.value] @@ w
    [] o.op \notin {"reset", "writeRange"} /\ Accepts(x, o) -> (o.vpin :> IF o.op = "write" THEN o.value ELSE o.a.value) @@ w
    [] OTHER -> w

(* ---- Where the code loses track.  Each is named in README.              *)
(* An interrupt-driven expander does not read an input that differs from   *)
(* what it holds already when it is configured or reset.                   *)
Unread(d) ==
  {p \in Pins(d) : d.intPin /\ ~d.hw.int /\ d.portInUse[p] = 1 /\ d.portMode[p] = 0 /\ d.portInputState[p] # Level(d, p)}

(* The first read of a pin reads the whole port, and what it finds changed *)
(* is told to nobody.                                                      *)
Swallowed(d, after) == {p \in Pins(d) : after.portInputState[p] # d.portInputState[p]}

(* A scan done before the call and not yet looked at puts back what the    *)
(* port was; without an interrupt it is not scanned again.                 *)
Overtaken(d, after) ==
  LET scan == Await(d)
  IN  {p \in Pins(d) : d.intPin /\ d.state = "SCANNING" /\ scan.rb = "OK" /\ scan.buf[p] # Level(after, p)}

(* A key event read before the chip lost power, and with it the events     *)
(* that came after, is still to be applied.                                *)
InFlight(d, p) == d.readState = "KEYCODE" /\ d.rb = "OK" /\ d.buf.key - 1 = p

(* The player stays in its initialisation when it is reset a second time;  *)
(* TCA8418 forgets the keys that are down, which send nothing until they   *)
(* are let go.                                                             *)
ForgottenByReset(d, begun) ==
  CASE d.kind \in Expanders  -> Unread(begun)
    [] d.kind = "TCA8418"    -> {p \in Pins(d) : d.digital[p] = 1 \/ (d.hw.disturbed /\ (d.hw.digital[p] = 1 \/ InFlight(d, p)))}
    [] d.kind = "DFPlayer"   -> {p \in Pins(d) : d.xtalChecked}
    [] OTHER                 -> {}

(* A looping player is paused, and the end of its track has been or will   *)
(* be answered by playing it again.                                        *)
Unpaused(d) == d.kind = "DFPlayer" /\ d.flagLoop /\ ~d.playing /\ (d.repeat \/ d.hw.finished)

(* The player is said to play after it was reset and after a resume with   *)
(* nothing paused.                                                         *)
Misled(d, told, cmd) ==
  LET then == FoldLeft(Obeys, d.hw, d.queue)
  IN  \/ cmd = "RESET" /\ d.playing
      \/ cmd = "RESUME" /\ then.track = 0 /\ then.paused = 0
      \/ Unpaused(told)

DFPlayer_lost(d, told, l, cmd) ==
  CASE d.state # "NORMAL" -> l
    [] d.state = "NORMAL" /\ cmd \in {"WRITE", "PLAY", "REPEATPLAY", "FOLDER", "STOPPLAY"} -> {}
    [] OTHER -> l \cup {p \in Pins(d) : Misled(d, told, cmd)}

(* What a call to the pin of a device does to the pins l it has lost: an   *)
(* EX-IOExpander finds a pin when it is configured.                        *)
LostBy(d, after, l, o) ==
  CASE d.kind \in Expanders /\ o.op \in {"read", "isBusy"} -> l \cup Swallowed(d, after) \cup Overtaken(d, after)
    [] d.kind \in Expanders /\ o.op = "configureInput" -> l \cup Unread(after) \cup Overtaken(d, after)
    [] d.kind = "EXIOExpander" /\ o.op \in {"configureInput", "configureAnalogIn"} ->
         IF d.hw.up THEN l \ {o.vpin - d.first} ELSE l
    [] d.kind = "DFPlayer" /\ o.op = "write" -> DFPlayer_lost(d, after, l, "WRITE")
    [] d.kind = "DFPlayer" /\ o.op = "writeAnalogue" -> DFPlayer_lost(d, after, l, o.a.cmd)
    [] OTHER -> l

Losses(x, y, l, o) ==
  [id \in DOMAIN l |->
     CASE o.op = "reset" -> l[id] \cup ForgottenByReset(x.dev[id], y.dev[id])
       [] o.op # "reset" /\ "vpin" \in DOMAIN o /\ findDevice(x, o.vpin) = id -> LostBy(x.dev[id], y.dev[id], l[id], o)
       [] OTHER -> l[id]]

(* A pin is found again when a change to what is there is told, a key when *)
(* its next event is queued.                                               *)
Told(d, after) ==
  IF d.kind \in Expanders THEN {p \in Pins(d) : after.told[p] # d.told[p] /\ after.told[p] = 1 - Level(d, p)} ELSE {}

Heard(d, after, l, e) ==
  IF d.kind = "TCA8418" /\ after.hw.events # d.hw.events THEN l \ {e.pin}
  ELSE l \cup {p \in Pins(d) : Unpaused(after)}

(* An EX-IOExpander without power forgets its inputs, and no driver but    *)
(* those of the port expanders and the pixels sends the outputs again.     *)
LostPower(d, l) == IF d.kind = "EXIOExpander" THEN Pins(d) ELSE l

Resends(d) == d.kind \in Expanders \cup {"NeoPixel"}

(* ---- The system.                                                        *)
(* EXSensorCAM::ioESP32 waits in a loop of its own for a request that has  *)
(* failed to succeed: nothing runs any more.                               *)
Hung == \E id \in DOMAIN h.dev : h.dev[id].kind = "EXSensorCAM" /\ h.dev[id].hung

After_call(s, o, junk) ==
  LET y == Called(s.h, o, junk)
  IN  [h |-> y, want |-> Wanted(s.h, s.want, o), lost |-> Losses(s.h, y, s.lost, o)]

Init ==
  \E s \in DOMAIN Sessions : \E setup \in Sessions[s].setups : \E junk \in Junk :
    \E x \in {HAL_begin(setup, junk)} :
    LET op(y, o) == IF o.op = "loop" THEN [y EXCEPT !.h = CHOOSE z \in loop(Elapsed(@), junk) : TRUE]
                    ELSE After_call(y, o, junk)
        none == [id \in DOMAIN x.dev |-> LostPower(x.dev[id], {})]
    IN  \E y \in {FoldLeft(op, [h |-> x, want |-> <<>>, lost |-> none], setup.script)} :
        /\ session = s
        /\ h = y.h /\ want = y.want /\ lost = y.lost
        /\ left = [calls |-> Sessions[s].maxCalls, events |-> Sessions[s].maxEvents, faults |-> Sessions[s].maxFaults]
        /\ beat = FALSE

Loop ==
  /\ ~Hung
  /\ \E junk \in Junk : \E y \in loop(h, junk) :
       h' = y /\ lost' = [id \in DOMAIN lost |-> lost[id] \ Told(h.dev[id], y.dev[id])]
  /\ beat' = ~beat
  /\ UNCHANGED <<session, left, want>>

Spin == Hung /\ beat' = ~beat /\ UNCHANGED <<h, session, left, want, lost>>

Call ==
  /\ left.calls > 0 /\ ~Hung
  /\ \E o \in S.calls : \E junk \in Junk : \E y \in {After_call([h |-> h, want |-> want, lost |-> lost], o, junk)} :
       h' = y.h /\ want' = y.want /\ lost' = y.lost
  /\ left' = [left EXCEPT !.calls = @ - 1]
  /\ UNCHANGED <<session, beat>>

World ==
  /\ left.events > 0
  /\ \E e \in S.events : \E d \in {Changed(h.dev[e.dev], e)} :
       /\ h' = Put(h, e.dev, d)
       /\ lost' = [lost EXCEPT ![e.dev] = Heard(h.dev[e.dev], d, @, e)]
  /\ left' = [left EXCEPT !.events = @ - 1]
  /\ UNCHANGED <<session, want, beat>>

Bus(id) ==
  /\ id \in DOMAIN h.dev
  /\ h.dev[id].rb = "PENDING"
  /\ \E y \in Answer(h, id) : h' = y
  /\ UNCHANGED <<session, left, want, lost, beat>>

Elapse(id) ==
  /\ S.fine
  /\ \E t \in Running(h.dev[id]) \ {"analogue"} : h' = Put(h, id, [h.dev[id] EXCEPT !.due = @ \cup {t}])
  /\ UNCHANGED <<session, left, want, lost, beat>>

(* Enough time for every timer to run out.                                 *)
Time ==
  /\ \E id \in DOMAIN h.dev : Running(h.dev[id]) # {}
  /\ h' = Elapsed(h)
  /\ UNCHANGED <<session, left, want, lost, beat>>

Unplug(id) ==
  /\ left.faults > 0 /\ id \in S.faults /\ h.dev[id].hw.up
  /\ h' = [h EXCEPT !.dev[id].hw = PowerLost(@)]
  /\ want' = IF Resends(h.dev[id]) THEN want ELSE Without(want, PinsOf(h.dev[id]))
  /\ lost' = [lost EXCEPT ![id] = LostPower(h.dev[id], @)]
  /\ left' = [left EXCEPT !.faults = @ - 1]
  /\ UNCHANGED <<session, beat>>

Replug(id) ==
  /\ ~h.dev[id].hw.up
  /\ h' = [h EXCEPT !.dev[id].hw.up = TRUE]
  /\ UNCHANGED <<session, left, want, lost, beat>>

Next ==
  \/ Loop
  \/ Spin
  \/ Call
  \/ World
  \/ Time
  \/ \E id \in DOMAIN h.dev : Bus(id) \/ Elapse(id) \/ Unplug(id) \/ Replug(id)

(* The main loop goes on, the I2C manager completes every request, time    *)
(* passes.                                                                 *)
MaxDevices == 4

Fairness ==
  /\ WF_beat(beat' = ~beat)
  /\ WF_vars(Time)
  /\ \A id \in 1 .. MaxDevices : WF_vars(Bus(id))

Spec == Init /\ [][Next]_vars /\ Fairness

(* ---- Properties.                                                        *)

(* Drivers that do not go on after a request of theirs has failed, and to  *)
(* which a reset of the HAL is no help: they test its status again.        *)
Unforgiving == {"PCA9685", "PCA9685pwm", "TCA8418"}

(* Drivers that set their chip up in _begin only: one that lost its power  *)
(* waits for a reset of the HAL.                                           *)
NeedsReset == Expanders \cup {"TCA8418", "I2CRailcom", "NeoPixel", "HALDisplay"}

(* The driver can know its chip: it answers, has been set up since it lost *)
(* its registers, and has not been given up.                               *)
Healthy(d) ==
  /\ d.hw.up /\ d.state # "FAILED"
  /\ d.kind \in NeedsReset => ~d.hw.disturbed
  /\ d.kind \in Unforgiving => d.rb # "ERROR"

Followed(d, pins) ==
  CASE d.kind \in Expanders -> \A p \in pins : d.portInUse[p] = 1 /\ d.portMode[p] = 0 =>
                                 d.portInputState[p] = d.hw.ext[p] /\ d.told[p] = 1 - d.hw.ext[p]
    [] d.kind = "EXIOExpander" -> \A p \in pins : d.digital[p] = d.hw.digital[p] /\ d.analogue[p] = d.hw.analogue[p]
    [] d.kind = "ADS111x" -> d.analogue = d.hw.analogue
    [] d.kind \in {"TCA8418", "TouchKeypad", "EXSensorCAM", "TM1638"} -> \A p \in pins : d.digital[p] = d.hw.digital[p]
    [] d.kind = "duinoNodes" -> d.input => \A i \in Pins(d) : d.digital[d.pinMap[i]] = d.hw.digital[i]
    [] d.kind = "HCSR04" -> (d.hw.value = "near" => d.value = 1) /\ (d.hw.value = "far" => d.value = 0)
    [] d.kind = "VL53L0X" -> d.value = Bit(d.hw.value = "near")
    [] d.kind = "RotaryEncoder" -> d.position = Signed(d.hw.value) /\ d.told = d.position
    [] d.kind = "DS1307" -> d.hw.running => d.told = d.hw.value
    [] d.kind = "EXFastClock" -> d.told = d.hw.value
    [] d.kind = "I2CRailcom" -> d.hw.value # 0 => d.told = d.hw.value
    [] OTHER -> TRUE

(* Once the inputs stop changing, every input driver that can know its     *)
(* chip reports what is there: no change is lost between two polls, while  *)
(* a request is in flight, after an error or across a reset, and each      *)
(* change is told to the callbacks.  Range sensors that share an address   *)
(* until they are configured come up, each at its own.  The code breaks    *)
(* this where `lost` says so, until the pin changes again: a TCA8418 key   *)
(* held down over a reset (IO_TCA8418.h:157), an input that is low already *)
(* when an expander with an interrupt pin is configured or reset           *)
(* (IO_GPIOBase.h:184), a change met by the first read of another pin      *)
(* (IO_GPIOBase.h:228-248) and, until it is configured again, a pin of an  *)
(* EX-IOExpander that lost power (IO_EXIOExpander.h:81-173).  Nor does it  *)
(* hold of a device that is FAILED, of a TCA8418 whose request has failed  *)
(* (Unforgiving), of a DS1307 that stands still, or once a command to a    *)
(* camera after a failed read has hung the whole command station           *)
(* (IO_EXSensorCAM.h:213, Hung).  A port expander, TCA8418 or railcom      *)
(* reader that lost its power has to be reset first (NeedsReset).          *)
Follow ==
  <>[](\/ Hung
       \/ \A id \in DOMAIN h.dev :
            /\ h.dev[id].kind = "VL53L0X" => h.dev[id].state # "FAILED"
            /\ Healthy(h.dev[id]) => Followed(h.dev[id], Pins(h.dev[id]) \ lost[id]))

Obeyed(id) ==
  LET d == h.dev[id]
      asked == {p \in Pins(d) : d.first + p \in DOMAIN want /\ findDevice(h, d.first + p) = id}
      w(p) == want[d.first + p]
  IN  CASE d.kind \in Expanders -> \A p \in asked : d.portMode[p] = 1 =>
                                     d.hw.out[p] = w(p) /\ (Class(d).quasi \/ d.hw.dir[p] = 0)
        [] d.kind = "ArduinoPins" -> \A p \in asked : d.hw.mode[p] = "OUTPUT" => d.hw.out[p] = w(p)
        [] d.kind = "PCA9685" -> \A p \in Pins(d) : d.servo[p].to # 0 => d.hw.shown[p] = d.servo[p].to
        [] d.kind = "Servo" -> \A p \in Pins(d) : d.servo[p].to # 0 =>
             h.dev[d.slave].hw.shown[d.firstSlavePin + p - h.dev[d.slave].first] = d.servo[p].to
        [] d.kind = "PCA9685pwm" -> \A p \in asked : d.hw.pwm[p] = Clip(w(p))
        [] d.kind \in {"EXIOExpander", "Trainbrains"} -> \A p \in asked : d.hw.pwm[p] = w(p)
        [] d.kind = "RotaryEncoder" -> 1 \in asked => d.hw.command = w(1)
        [] d.kind = "duinoNodes" -> \A p \in asked : d.hw.out[p] = w(p)
        [] d.kind = "TM1638" -> \A p \in asked : d.hw.led[p] = w(p)
        [] d.kind = "DFPlayer" -> lost[id] = {} => d.hw.track = (IF d.playing THEN d.lastTrack ELSE 0) /\ d.hw.volume = d.volume
        [] d.kind = "NeoPixel" -> \A p \in Pins(d) : d.hw.lit[p] = IF d.on[p] THEN d.colour[p] ELSE "black"
        [] d.kind = "HALDisplay" -> d.hw.screen = d.buffer
        [] d.kind = "DCCAccessoryDecoder" -> \A p \in asked :
             LET to == SelectSeq(d.hw.sent, LAMBDA m : 4 * m.address + m.sub = d.packed + p)
             IN  to # <<>> /\ to[Len(to)].gate = w(p)
        [] d.kind = "Bitmap" -> \A p \in asked : d.value[p] = w(p)
        [] OTHER -> TRUE


(* A servo that has been configured and positioned is never sent beyond    *)
(* its two positions, whatever the profile and however often a movement is *)
(* cut short by the next (PCA9685::updatePosition, Servo::updatePosition). *)
WithinThrow ==
  \A id \in DOMAIN h.dev : h.dev[id].kind = "PCA9685" => \A p \in Pins(h.dev[id]) :
    LET d == h.dev[id]
        s == LET f == findDevice(h, d.first + p) IN h.dev[f].servo[d.first + p - h.dev[f].first]
        lo == IF s.active < s.inactive THEN s.active ELSE s.inactive
        hi == IF s.active < s.inactive THEN s.inactive ELSE s.active
    IN  s.set => d.hw.shown[p] \in {0} \cup lo .. hi

(* Turning the knob of an EncoderThrottle never turns a moving loco round: *)
(* "you cant panic-spin into the other direction" (IO_EncoderThrottle.cpp).*)
NoPanicSpin == [][h.loco.speed > 1 => h'.loco.forward = h.loco.forward]_h

=============================================================================
