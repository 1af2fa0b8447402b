----------------------------- MODULE HALDevices -----------------------------
(***************************************************************************)
(* IODevice (IODevice.h, IODevice.cpp): the chain of devices, and the      *)
(* dispatch of each operation to the driver that owns the pin; with the    *)
(* drivers that use other devices through the chain.  The HAL is a record: *)
(*                                                                         *)
(*   h.dev     the devices, in the order they were created                 *)
(*   h.chain   the chain from _firstDevice on, as indices into h.dev       *)
(*   h.cursor  _nextLoopDevice, 0 for NULL                                 *)
(*   h.flag    VL53L0X::_addressConfigInProgress                           *)
(*   h.loco    speed and direction of the loco an EncoderThrottle drives   *)
(***************************************************************************)
EXTENDS GPIOExpander, ServoDriver, PolledInputs, OutputDrivers

Empty == [dev |-> <<>>, chain |-> <<>>, cursor |-> 0, flag |-> FALSE, loco |-> [speed |-> 0, forward |-> TRUE]]

Put(h, id, d) == [h EXCEPT !.dev[id] = d]

(* ---- The chain.                                                         *)
owns(d, vpin) == vpin >= d.first /\ vpin < d.first + d.n

(* The first device of a part of the chain that owns the pin; 0 is NULL.   *)
Owner(h, chain, vpin) ==
  LET at == {i \in DOMAIN chain : owns(h.dev[chain[i]], vpin)}
  IN  IF at = {} THEN 0 ELSE chain[CHOOSE i \in at : \A j \in at : i <= j]

findDevice(h, vpin) == Owner(h, h.chain, vpin)

Position(h, id) == CHOOSE i \in DOMAIN h.chain : h.chain[i] = id

findDeviceFollowing(h, id, vpin) ==
  Owner(h, SubSeq(h.chain, Position(h, id) + 1, Len(h.chain)), vpin)

(* The number of pins is passed in eight bits.                             *)
checkNoOverlap(h, first, nPins, addr) ==
  LET n == nPins % 256
      last == first + n - 1
  IN  \A id \in DOMAIN h.dev :
        LET d == h.dev[id]
        IN  /\ (n > 0 /\ d.n > 0) => (first > d.first + d.n - 1 \/ last < d.first)
            /\ addr # 0 => d.addr # addr

(* ---- ArduinoPins.  hw.mode is pinMode, hw.out the output latch, hw.ext  *)
(* what the circuit applies to the pin.                                    *)
ArduinoPins(c) ==
  LET all(v) == [p \in 0 .. c.n - 1 |-> v]
  IN  Device("ArduinoPins", c.first, c.n, 0,
        [pinModes |-> all(0), pinPullups |-> all(1), pinInUse |-> all(0),
         hw |-> [up |-> TRUE, disturbed |-> FALSE, home |-> <<>>, mode |-> all("INPUT"),
                 out |-> all(0), ext |-> c.ext]])

fastWriteDigital(d, pin, value) == [d EXCEPT !.hw.out[pin] = value]

fastReadDigital(d, pin) == IF d.hw.mode[pin] = "OUTPUT" THEN d.hw.out[pin] ELSE d.hw.ext[pin]

InputMode(d, pin) == IF d.pinPullups[pin] = 1 THEN "INPUT_PULLUP" ELSE "INPUT"

Arduino_configure(d, pin, pullup) ==
  LET c == [d EXCEPT !.pinModes[pin] = 0, !.pinPullups[pin] = pullup, !.pinInUse[pin] = 1]
  IN  [c EXCEPT !.hw.mode[pin] = InputMode(c, pin)]

Arduino_write(d, pin, value) ==
  LET w == fastWriteDigital(d, pin, value)
  IN  IF d.pinModes[pin] = 1 THEN w
      ELSE [w EXCEPT !.pinModes[pin] = 1, !.pinInUse[pin] = 1, !.hw.mode[pin] = "OUTPUT"]

Arduino_read(d, pin) ==
  LET r == IF d.pinModes[pin] = 0 /\ d.pinInUse[pin] = 1 THEN d
           ELSE [d EXCEPT !.pinModes[pin] = 0, !.pinInUse[pin] = 1, !.hw.mode[pin] = InputMode(d, pin)]
  IN  [d |-> r, value |-> 1 - fastReadDigital(r, pin)]

Arduino_configureAnalogIn(d, pin) ==
  IF d.pinModes[pin] = 0 THEN d
  ELSE [d EXCEPT !.pinModes[pin] = 0, !.hw.mode[pin] = InputMode(d, pin)]

(* ---- VL53L0X range sensors.  A sensor whose XSHUT is held low is asleep *)
(* and wakes with the default address, which all of them share; hw.at is   *)
(* the address it answers to (0: asleep), hw.value "near" or "far".        *)
DefaultAddress == 41

VL53L0X(c) ==
  Device("VL53L0X", c.first, 1, c.addr,
    [nextState |-> "INIT", value |-> 0, xshut |-> c.xshut,
     hw |-> [up |-> TRUE, disturbed |-> FALSE, home |-> <<>>, at |-> c.at, value |-> c.ext]])

VL53_begin(d) == [d EXCEPT !.nextState = "INIT"]

(* What a change of a pin does to the sensors whose XSHUT it is.           *)
Woken(h) ==
  LET low(pin) == \E id \in DOMAIN h.dev :
        /\ h.dev[id].kind = "ArduinoPins" /\ owns(h.dev[id], pin)
        /\ LET p == pin - h.dev[id].first
           IN  h.dev[id].hw.mode[p] = "OUTPUT" /\ h.dev[id].hw.out[p] = 0
  IN  [h EXCEPT !.dev = [id \in DOMAIN @ |->
         IF @[id].kind # "VL53L0X" THEN @[id]
         ELSE [@[id] EXCEPT !.hw.at = CASE low(h.dev[id].xshut) -> 0
                                        [] ~low(h.dev[id].xshut) /\ @ = 0 -> DefaultAddress
                                        [] OTHER -> @]]]

Sensors(h, addr) == {id \in DOMAIN h.dev : h.dev[id].kind = "VL53L0X" /\ h.dev[id].hw.at = addr}

(* Every sensor that answers to the default address takes the new one.     *)
TakeAddress(h, addr) ==
  [h EXCEPT !.dev = [id \in DOMAIN @ |->
     IF id \in Sensors(h, DefaultAddress) THEN [@[id] EXCEPT !.hw.at = addr] ELSE @[id]]]

(* reportError *)
VL53_failed(d) == [Failed(d) EXCEPT !.value = 0]

VL53_decode(d) ==
  IF d.rb = "OK" THEN [d EXCEPT !.value = IF d.buf = "near" THEN 1 ELSE 0, !.nextState = "INITIATESCAN"]
  ELSE VL53_failed(d)

(* The steps that only concern the sensor itself.                          *)
VL53_scan(d) ==
  CASE d.nextState = "INITIATESCAN" -> [Ask(d, [what |-> "start"]) EXCEPT !.nextState = "CHECKSTATUS"]
    [] d.nextState = "CHECKSTATUS" ->
         IF d.rb = "PENDING" THEN d
         ELSE IF d.rb = "OK" THEN delayUntil([d EXCEPT !.nextState = "GETRESULTS"])
         ELSE delayUntil(VL53_failed(d))
    [] d.nextState = "GETRESULTS" -> delayUntil([Ask(d, [what |-> "value"]) EXCEPT !.nextState = "DECODERESULTS"])
    [] d.nextState = "DECODERESULTS" -> IF d.rb = "PENDING" THEN d ELSE VL53_decode(d)
    [] OTHER -> d
=============================================================================
