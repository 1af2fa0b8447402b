---------------------------- MODULE GPIOExpander ----------------------------
(***************************************************************************)
(* GPIOBase (IO_GPIOBase.h) and the port expanders derived from it.  Port  *)
(* registers are functions from pins to bits.  Inputs are active low.      *)
(***************************************************************************)
EXTENDS I2CChips, SequencesExt

(* The expander classes, each by what its virtual functions do: how        *)
(* _writeGpioPort computes the port, the registers _writePortModes and     *)
(* _writePullups write, whether output pins are masked out of what is      *)
(* read, whether the port can be read at all, and the calls _setupDevice   *)
(* makes.  A PCF has no registers but the port: an input is a pin whose    *)
(* output is high, and an unused pin is kept low.                          *)
PCF8574 == [quasi |-> TRUE, modes |-> <<"out">>, pullups |-> <<>>, masks |-> TRUE,
            reads |-> TRUE, setup |-> <<"modes">>]

PCF8575 == [quasi |-> TRUE, modes |-> <<"out">>, pullups |-> <<>>, masks |-> TRUE,
            reads |-> TRUE, setup |-> <<"modes", "port", "pullups">>]

MCP23008 == [quasi |-> FALSE, modes |-> <<"dir", "inten">>, pullups |-> <<"pull">>, masks |-> TRUE,
             reads |-> TRUE, setup |-> <<"modes", "pullups", "port">>]

MCP23017 == [quasi |-> FALSE, modes |-> <<"dir", "inten">>, pullups |-> <<"pull">>, masks |-> TRUE,
             reads |-> TRUE, setup |-> <<"modes", "pullups", "port">>]

PCA9554 == [quasi |-> FALSE, modes |-> <<"dir">>, pullups |-> <<>>, masks |-> FALSE,
            reads |-> TRUE, setup |-> <<"modes", "pullups", "port">>]

PCA9555 == [quasi |-> FALSE, modes |-> <<"dir">>, pullups |-> <<>>, masks |-> FALSE,
            reads |-> TRUE, setup |-> <<"modes", "pullups", "port">>]

(* XL9535 drives relays: every pin is an output, and reads as written.     *)
XL9535 == [quasi |-> FALSE, modes |-> <<"alloutput">>, pullups |-> <<>>, masks |-> FALSE,
           reads |-> FALSE, setup |-> <<"port">>]

Classes == [PCF8574 |-> PCF8574, PCF8575 |-> PCF8575, MCP23008 |-> MCP23008,
            MCP23017 |-> MCP23017, PCA9554 |-> PCA9554, PCA9555 |-> PCA9555, XL9535 |-> XL9535]

Expanders == DOMAIN Classes

Class(d) == Classes[d.kind]

All(d, b) == [p \in Pins(d) |-> b]

Bit(b) == IF b THEN 1 ELSE 0

(* Power-on state of the port registers, and the chip on the board.        *)
PortRegisters(n, kind) ==
  LET all(b) == [p \in 0 .. n - 1 |-> b]
  IN  [out |-> all(Bit(kind \notin {"MCP23008", "MCP23017"})), dir |-> all(1),
       inten |-> all(0), pull |-> all(0)]

PortChip(n, kind, ext) ==
  [up |-> TRUE, disturbed |-> FALSE, ext |-> ext, int |-> FALSE,
   home |-> [int |-> FALSE] @@ PortRegisters(n, kind)] @@ PortRegisters(n, kind)

(* _portOutputState is not initialised by the constructor: junk is what    *)
(* the heap held.                                                          *)
GPIOBase(c, junk) ==
  LET all(b) == [p \in 0 .. c.n - 1 |-> b]
  IN  Device(c.kind, c.first, c.n, c.addr,
        [portMode |-> all(0), portPullup |-> all(1), portInputState |-> all(1),
         portInUse |-> all(0), portOutputState |-> all(junk), intPin |-> c.intPin,
         told |-> all(0), hw |-> PortChip(c.n, c.kind, c.ext)])

InUse(d, f) == [p \in Pins(d) |-> IF d.portInUse[p] = 1 THEN f[p] ELSE 0]

NotBits(f) == [p \in DOMAIN f |-> 1 - f[p]]

(* What the driver writes into each register of the chip.                  *)
Register(d, r) ==
  CASE r = "out"       -> IF Class(d).quasi
                          THEN InUse(d, [p \in Pins(d) |-> Bit(d.portOutputState[p] = 1 \/ d.portMode[p] = 0)])
                          ELSE d.portOutputState
    [] r = "dir"       -> NotBits(InUse(d, d.portMode))
    [] r = "inten"     -> InUse(d, NotBits(d.portMode))
    [] r = "pull"      -> InUse(d, d.portPullup)
    [] r = "alloutput" -> All(d, 0)

WriteRegister(d, r) ==
  Do(d, [what |-> IF r = "alloutput" THEN "dir" ELSE r, value |-> Register(d, r)])

writeGpioPort(d) == WriteRegister(d, "out")

writePortModes(d) == FoldLeft(WriteRegister, d, Class(d).modes)

writePullups(d) == FoldLeft(WriteRegister, d, Class(d).pullups)

setupDevice(d) ==
  LET call(x, f) == CASE f = "modes"   -> writePortModes(x)
                      [] f = "pullups" -> writePullups(x)
                      [] f = "port"    -> writeGpioPort(x)
  IN  FoldLeft(call, d, Class(d).setup)

(* The port as it was read, output pins high where the class masks them.   *)
PortRead(d, port) ==
  [p \in Pins(d) |-> IF Class(d).masks /\ d.portMode[p] = 1 THEN 1 ELSE port[p]]

(* _readGpioPort(true) waits for the port; when the read fails the buffer  *)
(* on the stack is used as it is (junk).                                   *)
readNow(d, junk) ==
  LET got(w) == [w EXCEPT !.portInputState =
                   PortRead(d, IF w.hw.up THEN Reply(w, [what |-> "port"]) ELSE All(d, junk))]
  IN  IF ~Class(d).reads THEN [d EXCEPT !.portInputState = d.portOutputState]
      ELSE got(Do(d, [what |-> "port"]))

readGpioPort(d) ==
  IF ~Class(d).reads THEN [d EXCEPT !.portInputState = d.portOutputState]
  ELSE Ask(Await(d), [what |-> "port"])

(* The port as the completed request read it; all high after an error.     *)
processCompletion(d) ==
  IF ~Class(d).reads THEN d
  ELSE [d EXCEPT !.portInputState = IF d.rb = "OK" THEN PortRead(d, d.buf) ELSE All(d, 1)]

(* While the constructor runs, the virtual _setupDevice is still the base  *)
(* class's, which does nothing: the chip keeps its power-on state.         *)
GPIO_begin(d, constructing) ==
  IF ~d.hw.up THEN Failed(d)
  ELSE [(IF constructing THEN d ELSE setupDevice(d)) EXCEPT !.state = "NORMAL"]

GPIO_configure(d, pin, pullup) ==
  writePullups(writePortModes(
    [d EXCEPT !.portPullup[pin] = pullup, !.portInUse[pin] = 1, !.portMode[pin] = 0]))

(* Unused pins and pins in write mode read as 1.                           *)
Masked(d) ==
  [d EXCEPT !.portInputState =
     [p \in Pins(d) |-> IF d.portInUse[p] = 0 \/ d.portMode[p] = 1 THEN 1 ELSE @[p]]]

(* The end of a scan: every pin that differs is told to the callbacks.     *)
Scanned(d) ==
  LET tell(s) == [s EXCEPT !.told = [p \in Pins(d) |->
                   IF s.portInputState[p] # d.portInputState[p] THEN 1 - s.portInputState[p] ELSE @[p]]]
  IN  tell(Masked(processCompletion([d EXCEPT !.state = IF d.rb = "OK" THEN "NORMAL" ELSE "FAILED"])))

GPIO_loop(d) ==
  LET scan(c) == IF c.state = "NORMAL" /\ (~c.intPin \/ c.hw.int)
                 THEN [readGpioPort(c) EXCEPT !.state = "SCANNING"] ELSE c
  IN  delayUntil(scan(IF d.state = "SCANNING" /\ d.rb # "PENDING" THEN Scanned(d) ELSE d))

GPIO_write(d, pin, value) ==
  LET m == IF d.portMode[pin] = 0
           THEN writePortModes([d EXCEPT !.portInUse[pin] = 1, !.portMode[pin] = 1]) ELSE d
  IN  writeGpioPort([m EXCEPT !.portOutputState[pin] = value])

(* A first use, or a use as input of a pin that was an output, reads the   *)
(* whole port at once, telling no callback.                                *)
GPIO_read(d, pin, junk) ==
  IF d.portMode[pin] = 1 \/ d.portInUse[pin] = 0
  THEN Masked(readNow(writePortModes(writePullups(
         [d EXCEPT !.portMode[pin] = 0, !.portInUse[pin] = 1])), junk))
  ELSE d
=============================================================================
