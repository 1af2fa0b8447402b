------------------------------- MODULE MCHAL --------------------------------
(***************************************************************************)
(* Sessions with the HAL, one per kind of device or combination of devices *)
(* that use each other.                                                    *)
(***************************************************************************)
EXTENDS HAL

Bits(n) == [p \in 0 .. n - 1 |-> 0]
Highs(n) == [p \in 0 .. n - 1 |-> 1]

Dev(kind, first, n, addr) == [kind |-> kind, first |-> first, n |-> n, addr |-> addr]
Poll(kind, first, n, addr) == Dev(kind, first, n, addr) @@ [ext |-> Bits(n)]
Port(kind, first, n, addr, int) ==
  Dev(kind, first, n, addr) @@ [ext |-> Highs(n), intPin |-> int, init |-> <<>>]
Pins2(n) == [kind |-> "ArduinoPins", first |-> 2, n |-> n, addr |-> 0, ext |-> Highs(n)]
Filter(first, n, slavePin) ==
  [kind |-> "Servo", first |-> first, n |-> n, addr |-> 0, slave |-> 0, firstSlavePin |-> slavePin]

W(v, x) == [op |-> "write", vpin |-> v, value |-> x]
R(v) == [op |-> "read", vpin |-> v]
Busy(v) == [op |-> "isBusy", vpin |-> v]
In(v) == [op |-> "configureInput", vpin |-> v, value |-> 1]
AnalogIn(v) == [op |-> "configureAnalogIn", vpin |-> v]
Analogue(v, a) == [op |-> "writeAnalogue", vpin |-> v, a |-> a]
Reset == [op |-> "reset"]
Tick == [op |-> "loop"]
Ev(dev, what, pin, value) == [dev |-> dev, what |-> what, pin |-> pin, value |-> value]

Setup(devices, script) == {[devices |-> devices, script |-> script, ignoreDefaults |-> TRUE]}

Session(setups, calls, events, faults, nc, ne, nf) ==
  [setups |-> setups, calls |-> calls, events |-> events, faults |-> faults,
   maxCalls |-> nc, maxEvents |-> ne, maxFaults |-> nf, fine |-> TRUE]

(* All timers run out together.                                            *)
Coarse(s) == [s EXCEPT !.fine = FALSE]

(* An expander with an input on its first pin and an output on its second. *)
(* With an interrupt pin the input may be low from the start.              *)
Expander(kind, int, faults) ==
  Session(UNION {Setup(<<[Port(kind, 10, 2, 32, int) EXCEPT !.ext[0] = b]>>, <<In(10)>>) : b \in IF int THEN 0 .. 1 ELSE {1}},
    {W(11, 0), W(11, 1), R(11), Reset} \cup (IF int THEN {In(11)} ELSE {}),
    {Ev(1, "ext", 0, b) : b \in 0 .. 1}, {1}, 2, 2, faults)

Polled(d, calls, events, faults, nc, ne, nf) == Session(Setup(<<d>>, <<>>), calls, events, faults, nc, ne, nf)

Digital == {Ev(1, "digital", p, b) : p \in 0 .. 1, b \in 0 .. 1}
Value(vs) == {Ev(1, "value", 0, v) : v \in vs}

(* What a user's setup may ask for, in any order: overlaps included.       *)
Asked == {Dev("PCA9685", 100, 16, 64), Dev("PCA9685", 115, 2, 66), Poll("EXIOExpander", 180, 4, 33),
          Poll("TouchKeypad", 132, 16, 0), Filter(100, 8, 100), Filter(300, 4, 116)}
UserSetups ==
  {[devices |-> <<Pins2(4)>> \o u, script |-> <<>>, ignoreDefaults |-> i] :
     u \in UNION {{v \in [1 .. k -> Asked] : \A a, b \in 1 .. k : a # b => v[a] # v[b]} : k \in 0 .. 2}, i \in BOOLEAN}

Throw(profile, state) ==
  [active |-> 300, inactive |-> 110, profile |-> profile, duration |-> 1, state |-> state]
Sound(cmd) == Analogue(10, [cmd |-> cmd, value |-> 0, v2 |-> 0])
ConfigureServo(v, p) == [op |-> "configureServo", vpin |-> v, p |-> p]

InputSessions ==
  [mcp     |-> Expander("MCP23017", FALSE, 1),
   mcpInt  |-> Expander("MCP23008", TRUE, 1),
   pcf     |-> Expander("PCF8574", FALSE, 0),
   pcfInt  |-> Expander("PCF8575", TRUE, 1),
   pca     |-> Expander("PCA9555", FALSE, 0),
   exio    |-> Session(Setup(<<Poll("EXIOExpander", 10, 3, 101)>>, <<In(10), AnalogIn(11)>>),
                 {W(12, 1), W(12, 0), Reset, Analogue(12, [value |-> 7]), In(10), AnalogIn(11)},
                 {Ev(1, "digital", 0, 1), Ev(1, "analogue", 1, 5)}, {1}, 2, 1, 1),
   ads     |-> Polled(Poll("ADS111x", 10, 2, 72), {Reset}, {Ev(1, "analogue", p, v) : p \in 0 .. 1, v \in {0, 9}}, {1}, 1, 2, 1),
   tca     |-> Polled(Poll("TCA8418", 10, 2, 52) @@ [intPin |-> FALSE], {R(10), Reset}, {Ev(1, "key", p, b) : p \in 0 .. 1, b \in 0 .. 1}, {}, 1, 3, 0),
   tcaInt  |-> Polled(Poll("TCA8418", 10, 2, 52) @@ [intPin |-> TRUE], {Reset}, {Ev(1, "key", p, b) : p \in 0 .. 1, b \in 0 .. 1}, {1}, 1, 3, 1),
   touch   |-> Polled(Poll("TouchKeypad", 10, 2, 0), {R(10), Reset}, Digital, {}, 2, 3, 0),
   duino   |-> Polled(Poll("duinoNodes", 10, 2, 0) @@ [input |-> TRUE, pinMap |-> [i \in 0 .. 1 |-> 1 - i]], {R(10), Reset}, Digital, {}, 1, 3, 0),
   cam     |-> Polled(Poll("EXSensorCAM", 10, 2, 17), {Analogue(10, [op |-> "t", count |-> 3, value |-> 0]),
                 Analogue(10, [op |-> "b", count |-> 1, value |-> 0]), Reset}, {Ev(1, "digital", 0, b) : b \in 0 .. 1}, {1}, 2, 2, 1),
   hcsr04  |-> Polled([Poll("HCSR04", 10, 1, 0) EXCEPT !.ext = "far"], {R(10), Reset}, Value({"near", "between", "far"}), {}, 1, 4, 0),
   rotary  |-> Polled([Poll("RotaryEncoder", 10, 3, 103) EXCEPT !.ext = 0], {W(11, 1), W(11, 0), Analogue(12, [value |-> 5]), Reset}, Value({0, 127, 255}), {1}, 2, 2, 1),
   tm1638  |-> Polled([Poll("TM1638", 10, 8, 0) EXCEPT !.ext = Bits(8)], {W(10, 1), W(10, 0), Analogue(10, [value |-> 207, len |-> 3]), R(11), Reset}, Digital, {}, 2, 2, 0),
   ds1307  |-> Polled([Poll("DS1307", 10, 1, 104) EXCEPT !.ext = 3], {Analogue(10, [value |-> 7]), Reset}, Value({4, 5}), {1}, 2, 2, 1),
   fast    |-> Polled([Poll("EXFastClock", 0, 0, 85) EXCEPT !.ext = 3], {Reset}, Value({4, 5}), {1}, 1, 2, 1),
   railcom |-> Polled(Dev("I2CRailcom", 10, 2, 74), {R(10), Reset}, {Ev(1, "cutout", 0, v) : v \in {0, 3, 4}}, {1}, 1, 3, 1),
   vl53    |-> Coarse(Session(Setup(<<Pins2(2),
                   [kind |-> "VL53L0X", first |-> 10, n |-> 1, addr |-> 48, xshut |-> 2, at |-> DefaultAddress, ext |-> "near"],
                   [kind |-> "VL53L0X", first |-> 11, n |-> 1, addr |-> 49, xshut |-> 3, at |-> DefaultAddress, ext |-> "far"]>>, <<>>),
                 {Reset}, {Ev(2, "value", 0, "far"), Ev(3, "value", 0, "near")}, {}, 1, 1, 0))]

OutputSessions ==
  [pins    |-> Coarse(Session(UserSetups, {}, {}, {}, 0, 0, 0)),
   arduino |-> Session(Setup(<<Pins2(2)>>, <<>>), {W(2, 1), W(2, 0), R(2), In(3), W(3, 1), R(3), AnalogIn(3)},
                 {Ev(1, "ext", 0, b) : b \in 0 .. 1}, {}, 4, 1, 0),
   relay   |-> Coarse(Session(Setup(<<Port("XL9535", 10, 2, 36, FALSE), Port("PCA9554", 12, 2, 37, FALSE),
                             [Port("PCF8574", 14, 2, 38, FALSE) EXCEPT !.init = <<>>]>>, <<>>),
                 {W(v, b) : v \in {10, 12, 14}, b \in 0 .. 1} \cup {[op |-> "writeRange", vpin |-> 11, value |-> 1, count |-> 3], Reset}, {}, {}, 2, 0, 0)),
   servo   |-> Session(Setup(<<Dev("PCA9685", 100, 2, 64)>>,
                   <<ConfigureServo(100, Throw(Profile("Fast", FALSE), 0)), Tick>>),
                 {W(100, 1), W(100, 0), W(101, 1), Analogue(100, [value |-> 200, profile |-> Profile("Bounce", TRUE), duration |-> 0]), Busy(100), Reset}, {}, {}, 2, 0, 0),
   servoLost |-> Coarse(Session(Setup(<<Dev("PCA9685", 100, 2, 64)>>,
                   <<ConfigureServo(100, Throw(Profile("Fast", FALSE), 0)), Tick>>), {W(100, 1), Reset}, {}, {1}, 2, 0, 1)),
   filter  |-> Coarse(Session(UNION {Setup(<<Dev(kind, 100, 2, 64), Filter(100, 2, 100)>>,
                   <<ConfigureServo(100, Throw(Profile("duration", FALSE), 1)), Tick, Tick>>) : kind \in {"PCA9685", "PCA9685pwm"}},
                 {W(100, 1), W(100, 0), Analogue(101, [value |-> 200, profile |-> Profile("duration", TRUE), duration |-> 2]), Busy(100)}, {}, {}, 2, 0, 0)),
   pwm     |-> Polled(Dev("PCA9685pwm", 10, 2, 64), {Analogue(10, [value |-> v]) : v \in {-1, 5, 5000}} \cup {Analogue(11, [value |-> 9]), Reset}, {}, {1}, 3, 0, 1),
   duinoOut |-> Polled(Poll("duinoNodes", 10, 2, 0) @@ [input |-> FALSE, pinMap |-> [i \in 0 .. 1 |-> i]], {W(v, b) : v \in 10 .. 11, b \in 0 .. 1} \cup {Reset}, {}, {}, 4, 0, 0),
   tb      |-> Coarse(Session(Setup(<<Poll("Trainbrains", 10, 2, 51) @@ [type |-> "turnout"], Poll("Trainbrains", 12, 2, 52) @@ [type |-> "signal"],
                             Poll("Trainbrains", 14, 2, 53) @@ [type |-> "track"]>>, <<>>),
                 {W(10, 1), W(10, 0), R(14), Reset, Analogue(12, [value |-> 4])}, {}, {1, 3}, 3, 0, 1)),
   sound   |-> Session(Setup(<<Dev("DFPlayer", 10, 2, 80) @@ [bridge |-> TRUE]>>, <<>>),
                 {W(10, 1), W(11, 1), W(10, 0), Sound("PAUSE"), Sound("RESUME"), Sound("RESET"), Sound("STOPPLAY"), Reset,
                  Analogue(10, [cmd |-> "VOL", value |-> 0, v2 |-> 9]), Analogue(10, [cmd |-> "REPEATPLAY", value |-> 5, v2 |-> 30])},
                 {}, {}, 2, 0, 0),
   ended   |-> Session(Setup(<<Dev("DFPlayer", 10, 2, 0) @@ [bridge |-> FALSE]>>, <<>>),
                 {W(11, 1), Analogue(10, [cmd |-> "REPEATPLAY", value |-> 5, v2 |-> 0]), Analogue(10, [cmd |-> "FOLDER", value |-> 6, v2 |-> 2]),
                  Analogue(10, [cmd |-> "EQ", value |-> 0, v2 |-> 1]), Sound("PAUSE"), Sound("RESUME"), Reset}, {Ev(1, "ended", 0, 0)}, {}, 2, 2, 0),
   neo     |-> Session(Setup(<<Dev("NeoPixel", 10, 2, 96), Dev("NeoPixel", 13, 2, 97)>>, <<>>),
                 {W(10, 1), W(10, 0), [op |-> "writeRange", vpin |-> 10, value |-> 1, count |-> 5],
                  [op |-> "writeAnalogueRange", vpin |-> 10, a |-> [value |-> "red", on |-> TRUE], count |-> 4],
                  Analogue(11, [value |-> "red", on |-> TRUE]), Analogue(11, [value |-> "red", on |-> FALSE]), Reset}, {}, {1}, 2, 0, 1),
   screen  |-> Session(Setup(<<Dev("HALDisplay", 0, 0, 60) @@ [rows |-> 2, cols |-> 2]>>, <<>>),
                 {[op |-> "screen", dev |-> 1, row |-> r, text |-> t] : r \in {0, 1, 255}, t \in {<<1>>, <<2, 3, 4>>}} \cup {Reset}, {}, {1}, 2, 0, 1),
   acc     |-> Session(Setup(<<[kind |-> "DCCAccessoryDecoder", first |-> 10, n |-> 4, addr |-> 0, decoder |-> 1, sub |-> 2],
                             Dev("Bitmap", 20, 2, 0)>>, <<>>),
                 {W(v, b) : v \in {10, 13, 20}, b \in 0 .. 1} \cup {Analogue(21, [value |-> 5]), R(20)}, {}, {}, 3, 0, 0),
   encoder |-> Session(UNION {Setup(<<Pins2(3), [kind |-> "EncoderThrottle", first |-> 10, n |-> 1, addr |-> 0, dt |-> 2, clk |-> 3, click |-> 4, notch |-> 62]>>, script) :
                         script \in {<<Analogue(10, [value |-> 3, notch |-> 0])>>,
                                     <<[op |-> "throttle", value |-> 70], Analogue(10, [value |-> 3, notch |-> 0])>>}},
                 {Analogue(10, [value |-> v, notch |-> 62]) : v \in {0, 3}},
                 {Ev(1, "ext", p, b) : p \in 0 .. 2, b \in 0 .. 1}, {}, 1, 7, 0)]

\* (The LET keeps the coverage statistics of TLC from entering the sessions at every use.)
AllSessions ==
  LET all ==
    InputSessions @@ OutputSessions
  IN  all

JunkBits == {0, 1}
=============================================================================
