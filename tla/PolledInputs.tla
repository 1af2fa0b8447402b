---------------------------- MODULE PolledInputs ----------------------------
(***************************************************************************)
(* The HAL drivers that copy the state of a remote device into the command *)
(* station by polling it: expanders with a processor of their own, analogue *)
(* converters, keypads, encoders, shift registers, range finders, clocks.  *)
(* Each driver is its constructor, _begin, _loop and what it does on a     *)
(* write.  The timers a driver keeps besides _nextEntryTime have names.    *)
(***************************************************************************)
EXTENDS I2CChips

(* The hardware of a polled device: what the world applies to it, and the  *)
(* registers, which it loses with its power.                               *)
Board(world, registers) == [up |-> TRUE, disturbed |-> FALSE, home |-> registers] @@ world @@ registers

Present(d) == IF d.hw.up THEN d ELSE Failed(d)

(* ---- EX-IOExpander: digital and analogue states are read in turn.  The  *)
(* expander reports the pins that have been enabled as inputs.             *)
EXIOExpander(c) ==
  Device("EXIOExpander", c.first, c.n, c.addr,
    [readState |-> "IDLE", digital |-> [p \in 0 .. c.n - 1 |-> 0], analogue |-> [p \in 0 .. c.n - 1 |-> 0],
     hw |-> Board([digital |-> c.ext, analogue |-> c.ext],
                  [pwm |-> [p \in 0 .. c.n - 1 |-> 0], shown |-> [p \in 0 .. c.n - 1 |-> 0],
                   mode |-> [p \in 0 .. c.n - 1 |-> "none"]])])

(* _begin neither enables the inputs again nor sends the outputs again.    *)
EXIO_begin(d) == Present(d)

(* The digital states are received straight into the states; the analogue  *)
(* ones are copied when the request has completed.                         *)
EXIO_received(d) ==
  [d EXCEPT !.readState = "IDLE",
            !.digital = IF d.rb = "OK" /\ d.readState = "DIGITAL" THEN d.buf ELSE @,
            !.analogue = IF d.rb = "OK" /\ d.readState = "ANALOGUE" THEN d.buf ELSE @]

EXIO_refresh(d) ==
  CASE "digital" \in d.due ->
         [After(Ask(d, [what |-> "inputs"]), "digital") EXCEPT !.readState = "DIGITAL"]
    [] "digital" \notin d.due /\ "analogue" \in d.due ->
         [After(Ask(d, [what |-> "voltages"]), "analogue") EXCEPT !.readState = "ANALOGUE"]
    [] OTHER -> d

EXIO_loop(d) ==
  CASE d.readState = "IDLE" -> EXIO_refresh(d)
    [] d.readState # "IDLE" /\ d.rb = "PENDING" -> d
    [] OTHER -> EXIO_refresh(EXIO_received(d))

EXIO_read(d, pin) ==
  CASE d.state = "FAILED" -> 0
    [] d.state # "FAILED" /\ d.readState = "DIGITAL" /\ d.rb = "OK" -> d.buf[pin]
    [] OTHER -> d.digital[pin]

EXIO_readAnalogue(d, pin) == IF d.state = "FAILED" THEN 0 ELSE d.analogue[pin]

(* reportError: a blocking request that fails takes the device offline.    *)
EXIO_reportError(d) == IF d.hw.up THEN d ELSE Failed(d)

EXIO_configure(d, pin) == EXIO_reportError(Do(d, [what |-> "enable", pin |-> pin, value |-> "digital"]))

EXIO_configureAnalogIn(d, pin) ==
  EXIO_reportError(Do(d, [what |-> "enable", pin |-> pin, value |-> "analogue"]))

EXIO_write(d, pin, value) ==
  IF d.state = "FAILED" THEN d
  ELSE EXIO_reportError(Do(d, [what |-> "pwm", pin |-> pin, value |-> value]))

EXIO_writeAnalogue(d, pin, value) ==
  IF d.state = "FAILED" THEN d
  ELSE EXIO_reportError(Do(d, [what |-> "pwm", pin |-> pin, value |-> value]))

(* ---- ADS111x: one pin after another is converted and then read.         *)
ADS111x(c) ==
  Device("ADS111x", c.first, c.n, c.addr,
    [nextState |-> "STARTSCAN", currentPin |-> 0, analogue |-> [p \in 0 .. c.n - 1 |-> -1],
     hw |-> Board([analogue |-> c.ext], [channel |-> 0])])

ADS_begin(d) == IF d.hw.up THEN [d EXCEPT !.nextState = "STARTSCAN"] ELSE Failed(d)

ADS_loop(d) ==
  CASE d.rb = "PENDING" -> d
    [] d.rb = "ERROR"   -> Failed(d)
    [] d.rb = "OK" /\ d.nextState = "STARTSCAN" ->
         [delayUntil(Ask(d, [what |-> "convert", pin |-> d.currentPin])) EXCEPT !.nextState = "STARTREAD"]
    [] d.rb = "OK" /\ d.nextState = "STARTREAD" ->
         [Ask(d, [what |-> "converted"]) EXCEPT !.nextState = "GETVALUE"]
    [] OTHER ->
         [d EXCEPT !.analogue[d.currentPin] = d.buf, !.nextState = "STARTSCAN",
                   !.currentPin = (@ + 1) % d.n]

(* ---- TCA8418: a keypad whose chip queues key events.                    *)
TCA8418(c) ==
  Device("TCA8418", c.first, c.n, c.addr,
    [readState |-> "IDLE", numKeyEvents |-> 0, digital |-> [p \in 0 .. c.n - 1 |-> 0], intPin |-> c.intPin,
     hw |-> Board([digital |-> c.ext], [events |-> <<>>, int |-> FALSE])])

(* _begin allocates the key states anew: a key that is held reads as up.   *)
TCA_begin(d) ==
  IF ~d.hw.up THEN d
  ELSE [d EXCEPT !.digital = [p \in Pins(d) |-> 0], !.hw.int = IF d.intPin THEN FALSE ELSE @]

TCA_keyCode(d) ==
  LET k == IF d.buf.key - 1 \in Pins(d) THEN [d EXCEPT !.digital[d.buf.key - 1] = d.buf.down] ELSE d
  IN  IF d.numKeyEvents > 1
      THEN [Ask(k, [what |-> "event"]) EXCEPT !.numKeyEvents = @ - 1]
      ELSE [k EXCEPT !.numKeyEvents = 0, !.readState = "IDLE", !.hw.int = IF d.hw.up THEN FALSE ELSE @]

TCA_look(d) ==
  IF (d.intPin /\ d.hw.int) \/ "event" \in d.due
  THEN [After(Ask(d, [what |-> "count"]), "event") EXCEPT !.readState = "EVENT"]
  ELSE d

(* An error is reported and the state kept.                                *)
TCA_loop(d) ==
  CASE d.readState = "IDLE" -> TCA_look(d)
    [] d.readState # "IDLE" /\ d.rb # "OK" -> d
    [] d.readState = "EVENT" /\ d.rb = "OK" ->
         IF d.buf = 0 THEN TCA_look([d EXCEPT !.numKeyEvents = 0, !.readState = "IDLE"])
         ELSE [Ask(d, [what |-> "event"]) EXCEPT !.numKeyEvents = d.buf, !.readState = "KEYCODE"]
    [] OTHER -> TCA_keyCode(d)

TCA_read(d, pin) == IF d.state = "FAILED" THEN 0 ELSE d.digital[pin]

(* ---- RotaryEncoder: a poll queues a read and takes what the read before *)
(* it left in the buffer, a signed byte; told is the last position ONCHANGE *)
(* was told of.  _begin leaves the ready code in the buffer.               *)
RE_RDY == 160

Signed(b) == IF b >= 128 THEN b - 256 ELSE b

RotaryEncoder(c) ==
  Device("RotaryEncoder", c.first, c.n, c.addr,
    [position |-> 0, told |-> 0, hw |-> Board(<<>>, [value |-> c.ext, command |-> 0])])

Rotary_begin(d) == IF d.hw.up THEN [Await(d) EXCEPT !.buf = RE_RDY] ELSE Failed(d)

Rotary_loop(d) ==
  IF d.rb = "PENDING" \/ "position" \notin d.due THEN d
  ELSE [After(Ask(d, [what |-> "value"]), "position") EXCEPT !.position = Signed(d.buf), !.told = Signed(d.buf)]

Rotary_write(d, pin, value) ==
  IF pin = 1 THEN Do(d, [what |-> "command", value |-> IF value # 0 THEN 1 ELSE 0]) ELSE d

Rotary_writeAnalogue(d, pin, position) ==
  IF pin = 2 /\ position \in 0 .. 255 /\ position # d.position
  THEN Do(d, [what |-> "settime", value |-> position]) ELSE d

(* ---- TouchKeypad: all pads are clocked in at once.                      *)
TouchKeypad(c) ==
  Device("TouchKeypad", c.first, c.n, 0, [digital |-> [p \in 0 .. c.n - 1 |-> 0], hw |-> Board([digital |-> c.ext], <<>>)])

Touch_loop(d) == delayUntil([d EXCEPT !.digital = d.hw.digital])

(* ---- duinoNodes: shift registers.  The i-th bit shifted in is pin       *)
(* pinMap[i]; outputs are shifted out when one of them has changed.        *)
duinoNodes(c) ==
  Device("duinoNodes", c.first, c.n, 0,
    [digital |-> [p \in 0 .. c.n - 1 |-> 0], input |-> c.input, pinMap |-> c.pinMap, xmitPending |-> FALSE,
     hw |-> Board([digital |-> c.ext], [out |-> [p \in 0 .. c.n - 1 |-> 1]])])

duino_loopInput(d) ==
  IF "poll" \notin d.due THEN d
  ELSE After([d EXCEPT !.digital = [p \in Pins(d) |->
                d.hw.digital[CHOOSE i \in Pins(d) : d.pinMap[i] = p]]], "poll")

duino_loopOutput(d) == [d EXCEPT !.xmitPending = FALSE, !.hw.out = d.digital]

duino_begin(d) ==
  LET n == [d EXCEPT !.state = "NORMAL"] IN IF d.input THEN n ELSE duino_loopOutput(n)

duino_loop(d) ==
  IF d.input THEN duino_loopInput(d) ELSE IF d.xmitPending THEN duino_loopOutput(d) ELSE d

duino_write(d, pin, value) ==
  IF d.digital[pin] = value THEN d ELSE [d EXCEPT !.digital[pin] = value, !.xmitPending = TRUE]

(* ---- HCSR04: an ultrasonic range finder.  How long the echo lasts is    *)
(* compared with the two thresholds: "near", "between" or "far".  A pulse  *)
(* may start late or last beyond the loop entry, so a loop has a set of    *)
(* outcomes.  value becomes 0 after 10 pulses that were too long.          *)
HCSR04(c) ==
  Device("HCSR04", c.first, 1, 0,
    [value |-> 0, counter |-> 0, phase |-> "DORMANT", hw |-> Board([value |-> c.ext], <<>>)])

HCSR04_begin(d) == [d EXCEPT !.phase = "DORMANT"]

HCSR04_measured(d) ==
  LET m == [d EXCEPT !.phase = "DORMANT"]
  IN  CASE d.hw.value = "near"    -> [m EXCEPT !.value = 1, !.counter = 0]
        [] d.hw.value = "between" -> m
        [] d.hw.value = "far"     -> IF d.value = 0 THEN m
                                     ELSE IF d.counter + 1 < 10 THEN [m EXCEPT !.counter = @ + 1]
                                     ELSE [m EXCEPT !.value = 0, !.counter = 0]

HCSR04_loop(d) ==
  IF d.phase = "DORMANT"
  THEN {[d EXCEPT !.phase = "MEASURING"], HCSR04_measured(d), delayUntil(HCSR04_measured(d))}
  ELSE {HCSR04_measured(d), delayUntil(HCSR04_measured(d))}

(* ---- EX-SensorCAM: the sensor table is polled; a 't' command is         *)
(* repeated saved times.  A command waits for the request block to be OK,  *)
(* and for nothing else: after an error it waits for ever.  Its answer is  *)
(* received into the buffer of the table.                                  *)
AnswerPkt == <<>>

EXSensorCAM(c) ==
  [Device("EXSensorCAM", c.first, c.n, c.addr,
    [readState |-> "IDLE", digital |-> [p \in 0 .. c.n - 1 |-> 0], saved |-> 0, hung |-> FALSE,
     hw |-> Board([digital |-> c.ext], [command |-> "none"])]) EXCEPT !.buf = AnswerPkt]

CAM_begin(d) == IF d.hw.up THEN [d EXCEPT !.buf = AnswerPkt] ELSE Failed(d)

CAM_processIncomingPkt(d) ==
  [d EXCEPT !.digital = IF d.rb = "OK" /\ d.buf # AnswerPkt THEN d.buf ELSE @, !.readState = "IDLE"]

CAM_ioESP32(d, value) ==
  LET w == Await(d)
  IN  CASE w.rb = "ERROR" -> [w EXCEPT !.hung = TRUE]
        [] w.rb = "OK" /\ ~w.hw.up -> Failed(w)
        [] OTHER -> [Do(w, [what |-> "command", value |-> value]) EXCEPT !.buf = AnswerPkt]

CAM_refresh(d) ==
  CASE "digital" \in d.due ->
         [After(Ask(d, [what |-> "digital"]), "digital") EXCEPT !.readState = "DIGITAL"]
    [] "digital" \notin d.due /\ "tstate" \in d.due /\ d.saved > 1 ->
         LET asked(r) == IF r.state = "FAILED" THEN [r EXCEPT !.readState = "TSTATE"] ELSE r
         IN  asked(After([CAM_ioESP32(d, "t") EXCEPT !.saved = @ - 1], "tstate"))
    [] OTHER -> d

CAM_loop(d) ==
  IF d.readState # "IDLE" /\ d.rb = "PENDING" THEN d
  ELSE CAM_refresh(IF d.readState = "IDLE" THEN d ELSE CAM_processIncomingPkt(d))

CAM_writeAnalogue(d, op, count) ==
  IF d.state = "FAILED" \/ op = "b" THEN d
  ELSE CAM_ioESP32(After([d EXCEPT !.saved = IF op = "t" /\ count < 31 THEN count ELSE 0], "tstate"), op)

(* ---- TM1638: eight buttons, leds and digits on three wires.             *)
TM1638(c) ==
  Device("TM1638", c.first, 8, 0,
    [digital |-> [p \in 0 .. 7 |-> 0],
     hw |-> Board([digital |-> c.ext], [led |-> [p \in 0 .. 7 |-> 0], digit |-> [p \in 0 .. 7 |-> 0]])])

TM_displayClear(d) == [d EXCEPT !.hw.digit = [p \in 0 .. 7 |-> 0]]

(* test() flashes every digit and led and leaves them dark.                *)
TM_test(d) == [d EXCEPT !.hw.digit = [p \in 0 .. 7 |-> 0], !.hw.led = [p \in 0 .. 7 |-> 0]]

TM_begin(d) == TM_test(TM_displayClear(d))

TM_loop(d) ==
  IF "poll" \in d.due THEN After([d EXCEPT !.digital = d.hw.digital], "poll") ELSE d

TM_writeLed(d, pin, value) == [d EXCEPT !.hw.led[pin] = value]

(* Decimal digits from the right-hand end of a field of len digits.        *)
TM_writeAnalogue(d, left, value, len) ==
  [d EXCEPT !.hw.digit = [p \in 0 .. 7 |->
     IF p \in left .. left + len - 1 THEN (value \div 10 ^ (left + len - 1 - p)) % 10 ELSE @[p]]]

(* ---- Trainbrains: no polling, every read is a blocking command.         *)
Trainbrains(c) ==
  Device("Trainbrains", c.first, c.n, c.addr,
    [type |-> "unknown", hw |-> Board([digital |-> c.ext, type |-> c.type],
                                      [pwm |-> [p \in 0 .. c.n - 1 |-> 0], shown |-> [p \in 0 .. c.n - 1 |-> 0]])])

TB_issueCommand(d, a) == IF d.hw.up THEN Do(d, a) ELSE Failed(d)

TB_begin(d) == IF d.hw.up THEN [d EXCEPT !.type = d.hw.type] ELSE Failed([d EXCEPT !.type = "unknown"])

TB_write(d, pin, value) ==
  IF d.type \in {"turnout", "power"} THEN TB_issueCommand(d, [what |-> "pwm", pin |-> pin, value |-> value]) ELSE d

TB_read(d) == IF d.type = "track" THEN TB_issueCommand(d, [what |-> "none"]) ELSE d

TB_writeAnalogue(d, pin, value) ==
  IF d.type = "signal" THEN TB_issueCommand(d, [what |-> "pwm", pin |-> pin, value |-> value]) ELSE d

(* ---- Clocks.  told is the time last given to setClockTime.              *)
(* A DS1307 that has been without power stands still until it is set.      *)
DS1307(c) ==
  Device("DS1307", c.first, 1, c.addr,
    [told |-> -1, hw |-> Board([value |-> c.ext, running |-> TRUE], [running |-> FALSE])])

DS_getTime(d) ==
  [d EXCEPT !.state = IF ~d.hw.up THEN "FAILED" ELSE IF d.hw.running THEN "NORMAL" ELSE "INITIALISING"]

DS_begin(d) == LET t == DS_getTime(d) IN IF t.state = "NORMAL" THEN delayUntil(t) ELSE t

DS_loop(d) ==
  LET t == DS_getTime(d)
  IN  delayUntil(IF t.state = "NORMAL" THEN [t EXCEPT !.told = d.hw.value] ELSE t)

DS_writeAnalogue(d, time) ==
  DS_loop(IF d.hw.up THEN [d EXCEPT !.hw.value = time, !.hw.running = TRUE] ELSE d)

(* An EXFastClock whose read fails tells the time left on the stack.       *)
EXFastClock(c) == Device("EXFastClock", 0, 0, c.addr, [told |-> -1, hw |-> Board([value |-> c.ext], <<>>)])

Fast_begin(d) == IF d.hw.up THEN [d EXCEPT !.state = "NORMAL"] ELSE Failed(d)

Fast_loop(d, junk) == delayUntil([d EXCEPT !.told = IF d.hw.up THEN d.hw.value ELSE junk])

(* ---- I2CRailcom: the collector is read once per Railcom cutout; cutout  *)
(* is the waveform's counter, told the data last given to Railcom::process.*)
I2CRailcom(c) ==
  Device("I2CRailcom", c.first, c.n, c.addr, [cutout |-> 0, told |-> 0, hw |-> Board([cutout |-> 0], [value |-> 0])])

Railcom_begin(d) == IF d.hw.up THEN [d EXCEPT !.state = "NORMAL"] ELSE d

Railcom_loop(d) ==
  IF d.state # "NORMAL" \/ d.cutout = d.hw.cutout THEN d
  ELSE [d EXCEPT !.cutout = d.hw.cutout, !.told = IF d.hw.up /\ d.hw.value # 0 THEN d.hw.value ELSE @]
=============================================================================
